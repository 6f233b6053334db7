--------------------------- MODULE MCInputSystem ---------------------------
(* InputSystem with one ordinary key, one modifier and one mouse button.    *)
EXTENDS InputSystem

MCModifierOf == [k \in Keys |-> IF k = "ctrl" THEN "CTRL" ELSE NoModifier]

Bare(k) == [key |-> k, modifiers |-> {}]
CtrlF == [key |-> "f", modifiers |-> {"CTRL"}]
Bound(m, one, two) == [mode |-> m, first |-> one, second |-> two]
Unbound == Bound("unbound", Bare("f"), Bare("f"))
Script(i, on, releases) == [id |-> i, on |-> on, pressed |-> TRUE, released |-> releases]
Config(a, b, scripts, rule, first, backend) ==
  [switches |-> [s \in Switches |-> IF s = "a" THEN a ELSE b], scripts |-> scripts, rule |-> rule,
   initial |-> [s \in Switches |-> s = first], backend |-> backend]

(* A hotkey, a mouse hold and a script on the bare key.                     *)
HotkeyAndHold ==
  Config(Bound("toggle", CtrlF, CtrlF), Bound("hold", Bare("mouse"), Bare("mouse")),
         {Script(1, Bare("f"), TRUE)}, "either", "a", "raw")
(* A hotkey and a mouse button for one switch, a hold of the bare key.      *)
HoldAndPair ==
  Config(Bound("hold", Bare("f"), Bare("f")),
         Bound("independent", CtrlF, [key |-> "mouse", modifiers |-> {"CTRL"}]),
         {Script(2, Bare("ctrl"), TRUE), Script(3, Bare("mouse"), FALSE)}, "both", "b", "raw")
(* Everything through the hooks.                                            *)
HookToggle ==
  Config(Bound("toggle", CtrlF, CtrlF), Bound("toggle", Bare("mouse"), Bare("mouse")),
         {Script(4, Bare("f"), TRUE)}, "a", "none", "hook")
(* The same key twice.                                                      *)
Conflict ==
  Config(Bound("toggle", CtrlF, CtrlF), Bound("hold", CtrlF, CtrlF), {}, "b", "none", "raw")

AllConfigurations == {HotkeyAndHold, HoldAndPair, HookToggle, Conflict}
=============================================================================
