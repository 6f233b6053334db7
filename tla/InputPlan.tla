----------------------------- MODULE InputPlan -----------------------------
(***************************************************************************)
(* What the input thread makes of a document and of the bindings of its     *)
(* scripts (input_system.cpp): each action goes to RegisterHotKey or to the *)
(* raw transitions, script bindings to the raw transitions.  One exception  *)
(* refuses the whole configuration.  InputSystem models what the plan does  *)
(* once it is installed; this module says which documents have one.         *)
(*                                                                         *)
(* A key is [device, code, modifiers]: the code of a keyboard key is the    *)
(* name of one scan code and extension.  In a document its modifiers are a  *)
(* sequence of names.                                                       *)
(***************************************************************************)
EXTENDS ScriptCandidate

CONSTANT Unmapped               \* keys the keyboard layout gives no virtual key

Backends == {"rawInput", "lowLevelHook"}
Modes == {"unbound", "toggle", "independent", "hold"}
KeyFields == {"toggle", "enable", "disable", "hold"}
Binding(mode, keys) ==
  [mode |-> mode, keys |-> [field \in KeyFields |-> IF field \in DOMAIN keys THEN keys[field] ELSE NoKeyJson]]

ParsesModifiers(names) ==
  /\ \A i \in DOMAIN names : names[i] \in Modifiers
  /\ \A i, j \in DOMAIN names : names[i] = names[j] => i = j
ParsesOptionalKey(key) ==
  key # NoKeyJson => key.device \in {"keyboard", "mouse"} /\ ParsesModifiers(key.modifiers)
OptionalKey(key) == IF key = NoKeyJson THEN NoKey ELSE ParseKey(key)
ParsesBinding(binding) ==
  binding.mode \in Modes /\ \A field \in KeyFields : ParsesOptionalKey(binding.keys[field])
SwitchBinding(binding) == [binding EXCEPT !.keys = [field \in KeyFields |-> OptionalKey(@[field])]]

-----------------------------------------------------------------------------
(* Keys.                                                                    *)

WindowsKeys == {"winleft", "winright"}
ModifierKeys == WindowsKeys \cup {"ctrlleft", "ctrlright", "shiftleft", "shiftright", "altleft", "altright"}
IsModifierKey(key) == key.device = "keyboard" /\ key.code \in ModifierKeys
SystemReserved(key) ==
  /\ key.device = "keyboard"
  /\ \/ "win" \in key.modifiers \/ key.code \in WindowsKeys \/ key.code = "f12"
     \/ "alt" \in key.modifiers /\ key.code \in {"tab", "escape"}
     \/ "ctrl" \in key.modifiers /\ "alt" \notin key.modifiers /\ key.code = "escape"
     \/ {"ctrl", "alt"} \subseteq key.modifiers /\ key.code = "delete"
ValidKey(key) ==
  /\ key.device = "mouse" => key.code \in MouseButtons
  /\ key.modifiers \subseteq Modifiers
  /\ ~SystemReserved(key)
HasVirtualKey(key) == key.device = "keyboard" /\ key.code \notin Unmapped

-----------------------------------------------------------------------------
(* Actions and their backend.                                               *)

FieldsOf(mode) ==
  CASE mode = "unbound" -> {}
    [] mode = "toggle" -> {"toggle"}
    [] mode = "independent" -> {"enable", "disable"}
    [] mode = "hold" -> {"hold"}
FieldsFit(binding) == {field \in KeyFields : binding.keys[field] # NoKey} = FieldsOf(binding.mode)
ActionsOf(switch, binding) ==
  {[key |-> binding.keys[field], target |-> switch, operation |-> field] : field \in FieldsOf(binding.mode)}

NeedsRaw(action, backend) ==
  \/ backend = "lowLevelHook" \/ action.key.device = "mouse"
  \/ action.operation = "hold" \/ action.key.modifiers = {}
(* RegisterHotKey takes a key that has a virtual key and is no modifier.    *)
Registrable(action) == ~IsModifierKey(action.key) /\ HasVirtualKey(action.key)

(* build_input_binding_plan, for the switches A and B and the bindings of   *)
(* the scripts.                                                             *)
SwitchActions(switches) == UNION {ActionsOf(switch, SwitchBinding(switches[switch])) : switch \in DOMAIN switches}
RawActions(switches, backend) == {action \in SwitchActions(switches) : NeedsRaw(action, backend)}
RawKeys(switches, backend, inputs) ==
  {action.key : action \in RawActions(switches, backend)} \cup {input.key : input \in inputs}

KeysValid(actions, inputs) == \A key \in {a.key : a \in actions} \cup {i.key : i \in inputs} : ValidKey(key)
NoKeyTwice(actions, inputs) ==
  /\ \A a, b \in actions : a.key = b.key => a = b
  /\ \A i, j \in inputs : i.key = j.key => i = j
  /\ \A a \in actions, i \in inputs : a.key # i.key
PlanAccepted(switches, backend, inputs) ==
  LET actions == SwitchActions(switches)
      polled == {key \in RawKeys(switches, backend, inputs) : key.device = "keyboard"}
  IN /\ \A switch \in DOMAIN switches :
          ParsesBinding(switches[switch]) /\ FieldsFit(SwitchBinding(switches[switch]))
     /\ KeysValid(actions, inputs)
     /\ NoKeyTwice(actions, inputs)
     /\ \A input \in inputs : input.pressed \/ input.released
     /\ \A action \in actions \ RawActions(switches, backend) : Registrable(action)
     /\ \A key \in polled : HasVirtualKey(key)
=============================================================================
