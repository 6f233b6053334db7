---------------------------- MODULE ScriptEditor ----------------------------
(***************************************************************************)
(* The life of the scripts of a document: the script editor of the user     *)
(* interface (ScriptEditorViewModels.cs), which has the Host validate a     *)
(* source and stores what comes back, and the edits of keys, values,        *)
(* switches and profiles made while the answer is under way.  What the Host *)
(* then makes of the stored document is ScriptCandidate and InputPlan.      *)
(***************************************************************************)
EXTENDS DocumentValidation, SequencesExt

CONSTANTS
  SwitchChoices,                \* the switches a user may set: [A, B] bindings
  Keys,                         \* keys a user may give a slot, as in a document
  Texts, Numbers,               \* texts and numbers a user may type into a setting
  InitialGlobal,                \* stacks of global scripts a document may come with
  EditedTargets,                \* bound: the targets the editor opens
  MaxStored                     \* bound on the scripts ever stored

(* What the editor has stored, in this session or an earlier one with the    *)
(* same Host: the source with its hash, and the declarations the Host sent   *)
(* back for it.  Values, keys and what is enabled are the user's.            *)
StoredBinding(b) ==
  b = [title |-> b.title, pressed |-> b.pressed, released |-> b.released, enabled |-> b.enabled, key |-> b.key]
StoredSetting(s) ==
  s = [title |-> s.title, type |-> s.type, value |-> s.value, options |-> s.options, low |-> s.low, high |-> s.high]
StoredScript(script) ==
  /\ script = [id |-> script.id, enabled |-> script.enabled, api |-> script.api, source |-> script.source,
               hash |-> script.hash, bindings |-> script.bindings, settings |-> script.settings,
               layout |-> script.layout]
  /\ script.source \in DOMAIN Declarations /\ script.hash = Hash(script.source)
  /\ DeclarationsMatch(script, Declarations[script.source])
  /\ \A id \in DOMAIN script.bindings : StoredBinding(script.bindings[id])
  /\ \A id \in DOMAIN script.settings : StoredSetting(script.settings[id])
StoredStack(stack) == stack \in Seq(Range(stack)) /\ \A i \in DOMAIN stack : StoredScript(stack[i])

ASSUME EditorAssumption ==
  /\ \A stack \in InitialGlobal : StoredStack(stack)
  /\ \A choice \in SwitchChoices : \A switch \in DOMAIN choice :
       /\ choice[switch] = Binding(choice[switch].mode, choice[switch].keys)
       /\ choice[switch].mode \in Modes

VARIABLES
  scripts,                      \* the stacks of the document, by target
  lua,                          \* profiles whose control mode is Lua
  switches,                     \* the switches of each profile
  active,                       \* the profile selected in the one profile set
  editing,                      \* target and script (0: a new one) in the editor
  request,                      \* the validation under way, or NoRequest
  stored                        \* scripts stored so far; names the next one

docVars == <<scripts, lua, switches, active>>
editorVars == <<editing, request, stored>>
vars == <<docVars, editorVars>>

NoScript == [id |-> 0]
NoRequest == [target |-> "none"]
Ids(stack) == {stack[i].id : i \in DOMAIN stack}
Find(stack, id) == stack[CHOOSE i \in DOMAIN stack : stack[i].id = id]
CurrentScript ==
  IF editing.script \in Ids(scripts[editing.target]) THEN Find(scripts[editing.target], editing.script) ELSE NoScript

Init ==
  /\ \E stack \in InitialGlobal :
       scripts = [target \in Targets |-> IF target = "global" THEN stack ELSE <<>>]
  /\ lua = [profile \in Profiles |-> FALSE]
  /\ switches \in [Profiles -> SwitchChoices]
  /\ active \in Profiles
  /\ editing = [target |-> active, script |-> 0] /\ request = NoRequest /\ stored = 0
  /\ UiAccepts(scripts, lua, switches, active)

(* ConfigurationWorkspace.UpdateDocument: an edit whose result the          *)
(* validator refuses changes nothing.                                       *)
UpdateDocument(newScripts, newLua, newSwitches, newActive) ==
  IF UiAccepts(newScripts, newLua, newSwitches, newActive)
  THEN scripts' = newScripts /\ lua' = newLua /\ switches' = newSwitches /\ active' = newActive
  ELSE UNCHANGED <<scripts, lua, switches, active>>

-----------------------------------------------------------------------------
(* MergeDeclarations: what the user has set of a slot or a setting that is  *)
(* still declared stays; the rest is the declaration's.                     *)

(* Mutated forms: an old setting keeps the range and options it was stored  *)
(* with, an old slot its phases.                                            *)
MutMergedBinding(id, declared, old) ==
  IF id \in DOMAIN old THEN [old[id] EXCEPT !.title = declared.title] ELSE declared
MutMergedSetting(id, declared, old) ==
  IF id \in DOMAIN old /\ old[id].type = declared.type THEN [old[id] EXCEPT !.title = declared.title]
  ELSE [title |-> declared.title, type |-> declared.type, value |-> declared.default,
        options |-> declared.options, low |-> declared.low, high |-> declared.high]

MergedBinding(id, declared, old) ==
  IF id \in DOMAIN old THEN [declared EXCEPT !.enabled = old[id].enabled, !.key = old[id].key] ELSE declared
MergedSetting(id, declared, old) ==
  [title |-> declared.title, type |-> declared.type,
   value |-> IF id \in DOMAIN old /\ old[id].type = declared.type THEN old[id].value ELSE declared.default,
   options |-> declared.options, low |-> declared.low, high |-> declared.high]
MergeDeclarations(id, source, old) ==
  LET declared == DeclarationsJson(source)
      oldBindings == IF old = NoScript THEN <<>> ELSE old.bindings
      oldSettings == IF old = NoScript THEN <<>> ELSE old.settings
  IN [id |-> id, enabled |-> TRUE, api |-> declared.api, source |-> source, hash |-> Hash(source),
      bindings |-> [b \in DOMAIN declared.bindings |-> MergedBinding(b, declared.bindings[b], oldBindings)],
      settings |-> [s \in DOMAIN declared.settings |-> MergedSetting(s, declared.settings[s], oldSettings)],
      layout |-> declared.layout]

Upsert(stack, script) ==
  IF script.id \in Ids(stack)
  THEN [i \in DOMAIN stack |-> IF stack[i].id = script.id THEN script ELSE stack[i]]
  ELSE Append(stack, script)

(* ApplyProfileConfiguration: Lua takes control of the profile, if asked    *)
(* to, as long as one of its scripts is enabled.                            *)
LuaAfter(target, stack, activate) ==
  IF target \in Profiles
  THEN [lua EXCEPT ![target] = EnabledIn(stack) # {} /\ (activate \/ @)] ELSE lua
ApplyStack(target, stack, activate) ==
  UpdateDocument([scripts EXCEPT ![target] = stack], LuaAfter(target, stack, activate), switches, active)

-----------------------------------------------------------------------------
(* The editor.                                                              *)

OpenScript(target, id) ==
  /\ id \in Ids(scripts[target]) \cup {0}
  /\ editing' = [target |-> target, script |-> id]
  /\ UNCHANGED <<docVars, request, stored>>

(* The command is disabled while a validation is under way, the rest of the *)
(* interface is not.  The target and the stored script are taken now.       *)
Validate(source) ==
  /\ request = NoRequest
  /\ CurrentScript = NoScript => stored < MaxStored
  /\ request' = [target |-> editing.target, source |-> source, old |-> CurrentScript,
                 id |-> IF CurrentScript = NoScript THEN stored + 1 ELSE CurrentScript.id]
  /\ stored' = IF CurrentScript = NoScript THEN stored + 1 ELSE stored
  /\ UNCHANGED <<docVars, editing>>

(* The Host's answer.  An accepted source is merged into the script as it   *)
(* was when it was sent, and takes its place in the document of now.        *)
ValuesSent == IF request.old = NoScript THEN <<>> ELSE ValuesOf(request.old.settings)
StoreValidated ==
  /\ request # NoRequest
  /\ RequestAccepted(request.source, ValuesSent)
  /\ ApplyStack(request.target,
       Upsert(scripts[request.target], MergeDeclarations(request.id, request.source, request.old)), TRUE)
  /\ editing' = IF editing.target = request.target /\ request.id \in Ids(scripts'[request.target])
                THEN [editing EXCEPT !.script = request.id] ELSE editing
  /\ request' = NoRequest
  /\ UNCHANGED stored
ValidationRefused ==
  /\ request # NoRequest
  /\ ~RequestAccepted(request.source, ValuesSent)
  /\ request' = NoRequest
  /\ UNCHANGED <<docVars, editing, stored>>
(* The connection may end first; the command is enabled again.              *)
ValidationLost == request # NoRequest /\ request' = NoRequest /\ UNCHANGED <<docVars, editing, stored>>

DisableAssignment ==
  /\ CurrentScript # NoScript
  /\ ApplyStack(editing.target,
       Upsert(scripts[editing.target], [CurrentScript EXCEPT !.enabled = FALSE]), FALSE)
  /\ UNCHANGED editorVars

(* The identifiers of a stack differ, so that one script goes.  Another of  *)
(* the target, or a new one, is opened.                                     *)
DeleteAssignment ==
  /\ \E i \in DOMAIN scripts[editing.target] :
       /\ scripts[editing.target][i].id = editing.script
       /\ ApplyStack(editing.target, RemoveAt(scripts[editing.target], i), FALSE)
  /\ editing' = [editing EXCEPT !.script = IF scripts'[editing.target] = <<>> THEN 0
                                           ELSE scripts'[editing.target][1].id]
  /\ UNCHANGED <<request, stored>>

-----------------------------------------------------------------------------
(* Edits elsewhere in the interface.                                        *)

EditScript(profile, i, script) ==
  /\ UpdateDocument([scripts EXCEPT ![profile][i] = script], lua, switches, active)
  /\ UNCHANGED editorVars
(* What the control of a setting lets a user choose.                        *)
ChoicesOf(setting) ==
  CASE setting.type = "boolean" -> BOOLEAN
    [] Numeric(setting.type) -> Numbers
    [] setting.type = "string" -> Texts
    [] setting.type = "enum" -> {setting.options[i] : i \in DOMAIN setting.options}
EditValue(profile, i, id) ==
  \E choice \in ChoicesOf(scripts[profile][i].settings[id]) :
    EditScript(profile, i,
      [scripts[profile][i] EXCEPT !.settings[id].value = [type |-> @.type, value |-> choice]])
EditSlot(profile, i, id) ==
  \E key \in Keys \cup {NoKeyJson}, enabled \in BOOLEAN :
    EditScript(profile, i,
      [scripts[profile][i] EXCEPT !.bindings[id].key = key, !.bindings[id].enabled = enabled])

SetSwitches(profile, choice) ==
  /\ UpdateDocument(scripts, lua, [switches EXCEPT ![profile] = choice], active)
  /\ UNCHANGED editorVars
MakeActive(profile) ==
  /\ UpdateDocument(scripts, lua, switches, profile)
  /\ UNCHANGED editorVars
(* Choosing the basic control level; only a validated script brings Lua.    *)
SetBasicControl(profile) ==
  /\ UpdateDocument(scripts, [lua EXCEPT ![profile] = FALSE], switches, active)
  /\ UNCHANGED editorVars

Next ==
  \/ \E target \in EditedTargets : \E id \in 0..MaxStored : OpenScript(target, id)
  \/ \E source \in Sources : Validate(source)
  \/ StoreValidated \/ ValidationRefused \/ ValidationLost
  \/ DisableAssignment \/ DeleteAssignment
  \/ \E profile \in Profiles :
       \/ \E i \in DOMAIN scripts[profile] :
            \/ \E id \in DOMAIN scripts[profile][i].settings : EditValue(profile, i, id)
            \/ \E id \in DOMAIN scripts[profile][i].bindings : EditSlot(profile, i, id)
       \/ \E choice \in SwitchChoices : SetSwitches(profile, choice)
       \/ SetBasicControl(profile) \/ MakeActive(profile)
Spec == Init /\ [][Next]_vars

-----------------------------------------------------------------------------
(* Properties.                                                              *)

(* A refusal the user interface cannot foresee: a text longer in bytes than *)
(* in characters, a source whose on_start fails, a key the keyboard has no  *)
(* virtual key for, and a modifier key with modifiers of its own, where it  *)
(* would have to be registered: a held one, a bare one, a button of the     *)
(* mouse and everything under the hook is polled.                           *)
ActiveScripts ==
  UNION {{<<target, i>> : i \in EnabledIn(scripts[target])} : target \in ActiveTargets(active, lua[active])}
ScriptAt(place) == scripts[place[1]][place[2]]
LongText(script) ==
  \E id \in DOMAIN script.settings : ~PushableValue(script.settings[id].value)
Actions == SwitchActions(switches[active])
Inputs == CandidateInputs(scripts, active, lua[active])
UnforeseenRefusal(backend) ==
  \/ \E place \in ActiveScripts : LongText(ScriptAt(place)) \/ ~StartsQuietly(ScriptAt(place))
  \/ \E use \in Actions \cup Inputs : use.key.device # "mouse" /\ ~HasVirtualKey(use.key)
  \/ \E action \in Actions : IsModifierKey(action.key) /\ ~NeedsRaw(action, backend)
HostAccepts(backend) ==
  /\ CandidateAccepted(scripts, active, lua[active])
  /\ \A place \in ActiveScripts : StartsQuietly(ScriptAt(place))
  /\ PlanAccepted(switches[active], backend, Inputs)

(* Whatever the user edits, in whatever order, and whatever changes while a *)
(* source is being validated, the document the user interface accepts is    *)
(* one whose scripts load in the Host, match their sources and get their    *)
(* keys with either capture backend, except for the refusals above: the two *)
(* validators, the merge of declarations and the Host's comparison agree.   *)
HostTakesDocument == \A backend \in Backends : HostAccepts(backend) \/ UnforeseenRefusal(backend)

(* Every script of the document would load if it were active, also the      *)
(* disabled ones and those of a profile that Lua does not control, so that  *)
(* none is refused later for what was stored earlier.                       *)
StoredScriptsLoad ==
  \A target \in Targets : \A i \in DOMAIN scripts[target] :
    ScriptLoads(scripts[target][i]) \/ LongText(scripts[target][i])

=============================================================================
