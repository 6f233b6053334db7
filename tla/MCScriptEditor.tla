--------------------------- MODULE MCScriptEditor ---------------------------
(* Small scripts for ScriptEditor: five that are well formed, and one for   *)
(* each rule a declaration can break.                                       *)
EXTENDS ScriptEditor

MCIdentifiers == {"gain", "mode", "note", "go", "stop", "main"}
MCBytes(text) == CASE text = "longer" -> 3 [] text = "wide" -> 3 [] text = "" -> 0 [] OTHER -> 1
MCChars(text) == CASE text = "longer" -> 3 [] text = "wide" -> 1 [] text = "" -> 0 [] OTHER -> 1
MCBlank == {"blank"}

Text(value) == Scalar("string", value)
Whole(value) == Scalar("integer", value)
Callback == [type |-> "function"]
List(items) == Table(<<>>, items)
Named(fields) == Table(fields, <<>>)
Pressed == List(<<Text("pressed")>>)

F6 == Named([device |-> Text("keyboard"), key |-> Text("f6")])
CtrlX == Named([device |-> Text("keyboard"), key |-> Text("x"), modifiers |-> List(<<Text("ctrl")>>)])
Slot(key) == Named([title |-> Text("Go"), events |-> Pressed, default_key |-> key])
Lifted == Named([title |-> Text("Go"), events |-> List(<<Text("released")>>), enabled |-> Scalar("boolean", FALSE)])
Gain(low, high, default) ==
  Named([title |-> Text("Gain"), type |-> Text("integer"), minimum |-> Whole(low), maximum |-> Whole(high),
         default |-> Whole(default)])
Mode(options, default) ==
  Named([title |-> Text("Mode"), type |-> Text("enum"), options |-> List(options), default |-> Text(default)])
Note == Named([title |-> Text("Note"), type |-> Text("string"), default |-> Text("a")])
AB == <<Text("a"), Text("b")>>
Item(id, control) == Named([setting |-> Text(id), control |-> Text(control)])
When(id, control, other, value) ==
  Named([setting |-> Text(id), control |-> Text(control),
         visible_when |-> Named([setting |-> Text(other), equals |-> value])])
Ui(items) ==
  Named([sections |-> List(<<Named([id |-> Text("main"), title |-> Text("Main"), items |-> List(items)])>>)])

Slotted(slots) == Named([bindings |-> Named(slots)])
Settled(settings) == Named([settings |-> Named(settings)])
Shown(settings, items) ==
  Named([api_version |-> Text("2"), settings |-> Named(settings), ui |-> Ui(items), on_start |-> Callback])
GainAndMode == [gain |-> Gain(0, 2, 1), mode |-> Mode(AB, "a")]

MCDescriptor == [
  plain |-> Named([bindings |-> Named([go |-> Slot(F6)]), settings |-> Named([gain |-> Gain(0, 2, 1)]),
                   on_input |-> Callback]),
  narrow |-> Named([bindings |-> Named([go |-> Lifted]), settings |-> Named([gain |-> Gain(0, 1, 0)])]),
  shown |-> Shown(GainAndMode, <<Item("gain", "slider"), When("mode", "select", "gain", Whole(2))>>),
  noted |-> Settled([note |-> Note]),
  twin |-> Slotted([go |-> Slot(CtrlX), stop |-> Slot(CtrlX)]),
  failing |-> Named(<<>>),
  \* Refused by the Host.
  notATable |-> Text("a"),
  unknownField |-> Named([colour |-> Text("a")]),
  badApi |-> Named([api_version |-> Text("3")]),
  badCallback |-> Named([on_start |-> Text("a")]),
  badEvents |-> Slotted([go |-> Named([title |-> Text("Go"), events |-> List(<<Text("pressed"), Text("pressed")>>)])]),
  badKey |-> Slotted([go |-> Slot(Named([device |-> Text("mouse"), key |-> Text("f6")]))]),
  badModifiers |-> Slotted([go |-> Slot(Named([device |-> Text("keyboard"), key |-> Text("x"),
                                               modifiers |-> List(<<Text("ctrl"), Text("ctrl")>>)]))]),
  badName |-> Slotted([other |-> Slot(F6)]),
  longTitle |-> Slotted([go |-> Named([title |-> Text("longer"), events |-> Pressed])]),
  crossed |-> Settled([gain |-> Gain(2, 1, 1)]),
  outside |-> Settled([gain |-> Gain(0, 1, 2)]),
  noDefault |-> Settled([note |-> Named([title |-> Text("Note"), type |-> Text("string")])]),
  notAnOption |-> Settled([mode |-> Mode(AB, "c")]),
  sameOptions |-> Settled([mode |-> Mode(<<Text("a"), Text("a")>>, "a")]),
  uiOfApi1 |-> Named([ui |-> Ui(<<Item("gain", "auto")>>), settings |-> Named([gain |-> Gain(0, 2, 1)])]),
  missed |-> Shown(GainAndMode, <<Item("gain", "auto")>>),
  twice |-> Shown(GainAndMode, <<Item("gain", "auto"), Item("mode", "auto"), Item("gain", "number")>>),
  misfit |-> Shown(GainAndMode, <<Item("gain", "select"), Item("mode", "auto")>>),
  ownCondition |-> Shown(GainAndMode, <<When("gain", "auto", "gain", Whole(1)), Item("mode", "auto")>>),
  badCondition |-> Shown(GainAndMode, <<When("gain", "auto", "mode", Text("c")), Item("mode", "auto")>>),
  \* Taken by the Host, refused by the user interface.
  blankTitle |-> Slotted([go |-> Named([title |-> Text("blank"), events |-> Pressed])])]
(* The runs edit with these; the others are only shown to be refused.       *)
MCSources == {"plain", "narrow", "shown", "noted", "failing"}
MCRefused == DOMAIN MCDescriptor \ (MCSources \cup {"twin", "blankTitle"})
ASSUME \A source \in MCRefused : ~ValidDescriptor(MCDescriptor[source])
ASSUME \A source \in MCSources : ValidDescriptor(MCDescriptor[source])
ASSUME \A source \in {"blankTitle", "twin"} :
  LET script == MergeDeclarations(1, source, NoScript) IN ScriptLoads(script) /\ ~UiScript(script)
Key(code, modifiers) == [device |-> "keyboard", code |-> code, modifiers |-> modifiers]
(* The document may hold a global script already, with Ctrl+X.              *)
MCInitialGlobal ==
  {<<>>, <<[MergeDeclarations(9, "plain", NoScript) EXCEPT !.bindings.go.key = Key("x", <<"ctrl">>)]>>}

MCKeys == {Key("x", <<"ctrl">>)}
Unbound == Binding("unbound", <<>>)
MCSwitchChoices == {
  [A |-> Binding("independent", [enable |-> Key("f6", <<>>), disable |-> [device |-> "mouse", code |-> "left", modifiers |-> <<>>]]),
   B |-> Binding("hold", [hold |-> Key("shiftright", <<"ctrl">>)])],
  [A |-> Binding("toggle", [toggle |-> Key("shiftleft", <<"ctrl">>)]), B |-> Unbound]}
=============================================================================
