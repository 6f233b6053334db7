--------------------------- MODULE DocumentProofs ---------------------------
(***************************************************************************)
(* What is proved of the documents of the user interface and the Host: of   *)
(* their scripts (ScriptEditor) and of their profiles, profile sets and     *)
(* selections (Profiles).                                                   *)
(*                                                                         *)
(* SCRIPTS, for any sources, values, keys, switches and number of scripts:  *)
(* a document the user interface accepts is one the Host takes, but for the *)
(* refusals it cannot foresee.  Neither property is inductive.  What is     *)
(* missing is that every stored script carries the declarations of its own  *)
(* source (StoredScript): the merge of a new version establishes it,        *)
(* whatever was stored before, and the user's edits of values, keys and     *)
(* switches keep it.  The rest is what the validator of the user interface  *)
(* asks, of the document of now.                                            *)
(*                                                                         *)
(* PROFILES, for any documents, keys, packages, lists of commands and       *)
(* limits: every document that is kept or under way is one the validator    *)
(* takes, keys of what is active included.  The invariant (ProfilesInv)     *)
(* says so of each of them (Good), with identifiers below the next one      *)
(* made.  The two loops, over the commands of a callback and over the       *)
(* profiles and sets of a package, keep less (Sound, all but the keys): it  *)
(* holds where the loop starts, every round keeps it, so it holds of what   *)
(* comes out (Follows and EveryStep of SequenceFacts).  That the keys are   *)
(* distinct then comes from the plan of the Host (HostMayRun), from the     *)
(* validator (Update), or from what is active having stayed (KeysStay).     *)
(***************************************************************************)
EXTENDS ScriptEditor, Profiles, SequenceFacts

(***************************************************************************)
(* SCRIPTS                                                                  *)
(***************************************************************************)

AllStored == DOMAIN scripts = Targets /\ \A target \in Targets : StoredStack(scripts[target])

EditorInv ==
  /\ UiAccepts(scripts, lua, switches, active)
  /\ AllStored
  /\ switches \in [Profiles -> SwitchChoices]
  /\ active \in Profiles

-----------------------------------------------------------------------------
(* The two validators.                                                      *)

(* A stored script the user interface accepts loads, unless one of its texts *)
(* is longer than the Host pushes.                                           *)
LEMMA ScriptsAgree ==
  ASSUME NEW script, StoredScript(script), UiScript(script), ~LongText(script)
  PROVE  ScriptLoads(script)
<1>1. ScriptParses(script)
  BY DEF StoredScript, UiScript, UiBinding, UiKey, ScriptParses, Bound
<1> DEFINE values == ValuesOf(script.settings)
           declared == Declarations[script.source].settings
<1>2. ASSUME NEW id \in DOMAIN declared \cap DOMAIN values
      PROVE  FitsDeclaration(values[id], declared[id])
  <2>1. id \in DOMAIN script.settings /\ values[id] = script.settings[id].value
    BY DEF ValuesOf
  <2>2. SettingMatches(script.settings[id], declared[id]) /\ UiValue(script.settings[id])
    BY <2>1 DEF StoredScript, DeclarationsMatch, UiScript, UiSetting
  <2>3. PushableValue(values[id])
    BY <2>1 DEF LongText
  <2> HIDE DEF values, declared
  <2> QED BY <2>1, <2>2, <2>3 DEF FitsDeclaration, SettingMatches, UiValue, InRange, IsOption
<1>3. \A id \in DOMAIN values : ValidIdentifier(id)
  BY DEF ValuesOf, UiScript, UiSetting
<1>4. Loads(script.source, values)
  BY <1>2, <1>3 DEF Loads, MergeAccepts, StoredScript
<1> QED BY <1>1, <1>4 DEF ScriptLoads, StoredScript

(* Keys the user interface accepts are keys the plan accepts.                *)
LEMMA SwitchesAgree ==
  ASSUME NEW binding, binding = Binding(binding.mode, binding.keys), binding.mode \in Modes, UiSwitch(binding)
  PROVE  /\ ParsesBinding(binding) /\ FieldsFit(SwitchBinding(binding))
         /\ \A switch : \A action \in ActionsOf(switch, SwitchBinding(binding)) : ValidKey(action.key)
<1> DEFINE read == SwitchBinding(binding)
<1>1. /\ DOMAIN binding = {"mode", "keys"} 
      /\ read.mode = binding.mode /\ read.keys = [field \in KeyFields |-> OptionalKey(binding.keys[field])]
  BY DEF Binding, SwitchBinding
<1>2. ParsesBinding(binding) /\ FieldsFit(read)
  BY DEF UiSwitch, UiKey, ParsesBinding, ParsesOptionalKey, ParsesKey, ParsesModifiers, ValidModifiersName
<1>3. ASSUME NEW switch, NEW action \in ActionsOf(switch, read)
      PROVE  ValidKey(action.key)
  <2>1. PICK field \in FieldsOf(read.mode) : action.key = read.keys[field]
    BY <1>3 DEF ActionsOf
  <2>2. field \in KeyFields /\ read.keys[field] # NoKey
    BY <1>2 DEF FieldsFit
  <2>3. binding.keys[field] # NoKeyJson /\ read.keys[field] = ParseKey(binding.keys[field])
    BY <1>1, <2>2 DEF OptionalKey
  <2> QED BY <2>1, <2>2, <2>3 DEF UiSwitch, UiKey
<1> QED BY <1>2, <1>3

LEMMA InputsAgree ==
  ASSUME NEW script, UiScript(script), NEW scope, NEW input \in InputBindings(script, scope)
  PROVE  ValidKey(input.key) /\ (input.pressed \/ input.released)
<1>1. PICK id \in Bound(script) :
        /\ input.key = ParseKey(script.bindings[id].key)
        /\ input.pressed = script.bindings[id].pressed /\ input.released = script.bindings[id].released
  BY DEF InputBindings
<1>2. UiBinding(id, script.bindings[id]) /\ script.bindings[id].key # NoKeyJson
  BY DEF Bound, UiScript
<1> QED BY <1>1, <1>2 DEF UiBinding, UiKey

(* One document, two programs.                                               *)
LEMMA ValidatorsAgree == EditorInv => HostTakesDocument /\ StoredScriptsLoad
<1> SUFFICES ASSUME EditorInv PROVE HostTakesDocument /\ StoredScriptsLoad
  OBVIOUS
<1> DEFINE uses == lua[active]
           inputs == CandidateInputs(scripts, active, uses)
           actions == SwitchActions(switches[active])
<1>1. ASSUME NEW target \in Targets, NEW i \in DOMAIN scripts[target]
      PROVE  UiScript(scripts[target][i]) /\ StoredScript(scripts[target][i])
  BY <1>1 DEF EditorInv, UiAccepts, UiStack, AllStored, StoredStack
<1>2. StoredScriptsLoad
  BY <1>1, ScriptsAgree DEF StoredScriptsLoad
<1>3. ActiveTargets(active, uses) \subseteq Targets
  BY DEF EditorInv, ActiveTargets, Targets
<1>4. ASSUME NEW target \in ActiveTargets(active, uses), NEW i \in EnabledIn(scripts[target])
      PROVE  /\ target \in Targets /\ i \in DOMAIN scripts[target]
             /\ <<target, i>> \in ActiveScripts /\ ScriptAt(<<target, i>>) = scripts[target][i]
  BY <1>3 DEF EnabledIn, ActiveScripts, ScriptAt
<1>5. ASSUME NEW backend PROVE UnforeseenRefusal(backend) \/ CandidateAccepted(scripts, active, uses)
  <2>1. \/ \E place \in ActiveScripts : LongText(ScriptAt(place))
        \/ \A target \in ActiveTargets(active, uses) : \A i \in EnabledIn(scripts[target]) :
             ScriptLoads(scripts[target][i])
    BY <1>1, <1>4, ScriptsAgree
  <2>2. uses => EnabledIn(scripts[active]) # {}
    BY DEF EditorInv, UiAccepts
  <2> QED BY <2>1, <2>2 DEF CandidateAccepted, UnforeseenRefusal
<1>6. ASSUME NEW backend PROVE UnforeseenRefusal(backend) \/ \A place \in ActiveScripts : StartsQuietly(ScriptAt(place))
  BY DEF UnforeseenRefusal
<1>7. ASSUME NEW switch \in DOMAIN switches[active]
      PROVE  /\ ParsesBinding(switches[active][switch]) /\ FieldsFit(SwitchBinding(switches[active][switch]))
             /\ \A action \in ActionsOf(switch, SwitchBinding(switches[active][switch])) : ValidKey(action.key)
  <2>1. switches[active] \in SwitchChoices /\ UiSwitch(switches[active][switch])
    BY DEF EditorInv, UiAccepts
  <2> QED BY <2>1, EditorAssumption, SwitchesAgree
<1>8. \A action \in actions : ValidKey(action.key)
  BY <1>7 DEF SwitchActions
<1>9. ASSUME NEW input \in inputs
      PROVE  ValidKey(input.key) /\ (input.pressed \/ input.released)
  <2>1. PICK target \in ActiveTargets(active, uses) : \E i \in EnabledIn(scripts[target]) :
          input \in InputBindings(scripts[target][i], target)
    BY <1>9 DEF CandidateInputs
  <2> QED BY <1>1, <1>4, <2>1, InputsAgree
<1>10. KeysValid(actions, inputs)
  BY <1>8, <1>9 DEF KeysValid
<1>11. NoKeyTwice(actions, inputs)
  BY DEF EditorInv, UiAccepts, NoActiveConflict
<1>12. ASSUME NEW backend \in Backends, ~UnforeseenRefusal(backend)
       PROVE  PlanAccepted(switches[active], backend, inputs)
  <2> DEFINE raw == RawActions(switches[active], backend)
             keys == RawKeys(switches[active], backend, inputs)
  <2>1. /\ \A action \in actions : action.key.device = "mouse" \/ HasVirtualKey(action.key)
        /\ \A input \in inputs : input.key.device = "mouse" \/ HasVirtualKey(input.key)
        /\ \A action \in actions : IsModifierKey(action.key) => NeedsRaw(action, backend)
    BY <1>12 DEF UnforeseenRefusal, Actions, Inputs
  <2>2. raw = {action \in actions : NeedsRaw(action, backend)}
    BY DEF RawActions
  <2>3. \A key \in keys : key.device = "keyboard" => HasVirtualKey(key)
    BY <2>1, <2>2 DEF RawKeys
  <2>4. \A action \in actions \ raw : Registrable(action)
    BY <2>1, <2>2 DEF Registrable, NeedsRaw
  <2> HIDE DEF inputs
  <2> QED BY <1>7, <1>9, <1>10, <1>11, <2>3, <2>4 DEF PlanAccepted
<1>13. HostTakesDocument
  BY <1>5, <1>6, <1>12 DEF HostTakesDocument, HostAccepts, Inputs
<1> QED BY <1>2, <1>13

-----------------------------------------------------------------------------
(* What the editor stores.                                                  *)

IsBinding(b) ==
  \E title, pressed, released, enabled, key :
    b = [title |-> title, pressed |-> pressed, released |-> released, enabled |-> enabled, key |-> key]

LEMMA DeclaredBinding ==
  ASSUME NEW value, NEW b \in DOMAIN BindingsOf(value)
  PROVE  IsBinding(BindingsOf(value)[b])
<1> DEFINE ids == IF value.type = "nil" THEN {} ELSE DOMAIN value.fields
           read(id) == [title |-> TextOf(value.fields[id], "title"),
                        pressed |-> Delivers(value.fields[id], "pressed"),
                        released |-> Delivers(value.fields[id], "released"),
                        enabled |-> BooleanOf(value.fields[id], "enabled", TRUE),
                        key |-> DefaultKeyOf(Field(value.fields[id], "default_key"))]
<1>1. BindingsOf(value) = [id \in ids |-> read(id)]
  BY DEF BindingsOf
<1>2. BindingsOf(value)[b] = read(b)
  <2> HIDE DEF ids, read
  <2> QED BY <1>1
<1> SUFFICES \E title, pressed, released, enabled, key :
               read(b) = [title |-> title, pressed |-> pressed, released |-> released,
                          enabled |-> enabled, key |-> key]
  BY <1>2 DEF IsBinding
<1> WITNESS TextOf(value.fields[b], "title"), Delivers(value.fields[b], "pressed"),
            Delivers(value.fields[b], "released"), BooleanOf(value.fields[b], "enabled", TRUE),
            DefaultKeyOf(Field(value.fields[b], "default_key"))
<1> QED OBVIOUS

LEMMA MergedBindingIs ==
  ASSUME NEW id, NEW actual, IsBinding(actual), NEW key, NEW old
  PROVE  LET merged == MergedBinding(id, [actual EXCEPT !.key = key], old)
         IN StoredBinding(merged) /\ BindingMatches(merged, actual)
<1>1. PICK t, p, r, e, k : actual = [title |-> t, pressed |-> p, released |-> r, enabled |-> e, key |-> k]
  BY DEF IsBinding
<1>2. [actual EXCEPT !.key = key] = [title |-> t, pressed |-> p, released |-> r, enabled |-> e, key |-> key]
  BY <1>1
<1>3. CASE id \in DOMAIN old
  <2>1. MergedBinding(id, [actual EXCEPT !.key = key], old)
          = [title |-> t, pressed |-> p, released |-> r, enabled |-> old[id].enabled, key |-> old[id].key]
    BY <1>2, <1>3 DEF MergedBinding
  <2> QED BY <1>1, <2>1 DEF StoredBinding, BindingMatches
<1>4. CASE id \notin DOMAIN old
  BY <1>1, <1>2, <1>4 DEF MergedBinding, StoredBinding, BindingMatches
<1> QED BY <1>3, <1>4

(* The merge of a source the Host takes is a stored script of that source,   *)
(* whatever was stored before.                                               *)
LEMMA MergedIsStored ==
  ASSUME NEW id, NEW source \in DOMAIN Declarations, NEW old
  PROVE  StoredScript(MergeDeclarations(id, source, old))
<1> DEFINE merged == MergeDeclarations(id, source, old)
           actual == Declarations[source]
           declared == DeclarationsJson(source)
           oldBindings == IF old = NoScript THEN <<>> ELSE old.bindings
           oldSettings == IF old = NoScript THEN <<>> ELSE old.settings
<1>1. actual = DeclarationsOf(Descriptor[source])
  BY DEF Declarations
<1> DEFINE keyed == [b \in DOMAIN actual.bindings |->
                      [actual.bindings[b] EXCEPT !.key = KeyJson(actual.bindings[b].key)]]
<1>0. declared = [actual EXCEPT !.bindings = keyed]
  BY DEF DeclarationsJson
<1>2. /\ declared.api = actual.api /\ declared.layout = actual.layout /\ declared.settings = actual.settings
      /\ declared.bindings = keyed
  <2> HIDE DEF declared, keyed
  <2>1. actual = [api |-> actual.api, bindings |-> actual.bindings, settings |-> actual.settings,
                  layout |-> actual.layout]
    BY <1>1 DEF DeclarationsOf
  <2> HIDE DEF actual
  <2> QED BY <1>0, <2>1
<1>3. ASSUME NEW b \in DOMAIN actual.bindings
      PROVE  /\ StoredBinding(MergedBinding(b, declared.bindings[b], oldBindings))
             /\ BindingMatches(MergedBinding(b, declared.bindings[b], oldBindings), actual.bindings[b])
  <2>1. actual.bindings = BindingsOf(Field(Descriptor[source], "bindings"))
    <3> HIDE DEF actual
    <3> QED BY <1>1 DEF DeclarationsOf
  <2>2. IsBinding(actual.bindings[b])
    BY <2>1, DeclaredBinding
  <2> HIDE DEF actual, declared, oldBindings
  <2>3. declared.bindings[b] = [actual.bindings[b] EXCEPT !.key = KeyJson(actual.bindings[b].key)]
    BY <1>2 DEF keyed
  <2> QED BY <2>2, <2>3, MergedBindingIs
<1>4. ASSUME NEW s \in DOMAIN actual.settings
      PROVE  /\ StoredSetting(MergedSetting(s, declared.settings[s], oldSettings))
             /\ SettingMatches(MergedSetting(s, declared.settings[s], oldSettings), actual.settings[s])
  <2> HIDE DEF actual, declared, oldSettings
  <2> QED BY <1>2 DEF MergedSetting, StoredSetting, SettingMatches
<1>5. merged = [id |-> id, enabled |-> TRUE, api |-> actual.api, source |-> source, hash |-> Hash(source),
                bindings |-> [b \in DOMAIN actual.bindings |->
                               MergedBinding(b, declared.bindings[b], oldBindings)],
                settings |-> [s \in DOMAIN actual.settings |->
                               MergedSetting(s, declared.settings[s], oldSettings)],
                layout |-> actual.layout]
  BY <1>2 DEF MergeDeclarations
<1> HIDE DEF merged, actual, declared, oldBindings, oldSettings
<1>6. DeclarationsMatch(merged, actual)
  BY <1>3, <1>4, <1>5 DEF DeclarationsMatch
<1>7. StoredScript(merged)
  BY <1>3, <1>4, <1>5, <1>6 DEF StoredScript, actual
<1> QED BY <1>7 DEF merged

LEMMA EnabledSet ==
  ASSUME NEW script, StoredScript(script), NEW enabled
  PROVE  StoredScript([script EXCEPT !.enabled = enabled])
<1> DEFINE changed == [script EXCEPT !.enabled = enabled]
<1>1. changed = [id |-> script.id, enabled |-> enabled, api |-> script.api, source |-> script.source,
                 hash |-> script.hash, bindings |-> script.bindings, settings |-> script.settings,
                 layout |-> script.layout]
  BY DEF StoredScript
<1> HIDE DEF changed
<1>2. StoredScript(changed)
  BY <1>1 DEF StoredScript, DeclarationsMatch
<1> QED BY <1>2 DEF changed

LEMMA ValueSet ==
  ASSUME NEW script, StoredScript(script), NEW id \in DOMAIN script.settings, NEW value
  PROVE  StoredScript([script EXCEPT !.settings[id].value = value])
<1> DEFINE setting == [script.settings[id] EXCEPT !.value = value]
           settings == [script.settings EXCEPT ![id] = setting]
           changed == [script EXCEPT !.settings = settings]
<1>0. setting = [title |-> script.settings[id].title, type |-> script.settings[id].type, value |-> value,
                 options |-> script.settings[id].options, low |-> script.settings[id].low,
                 high |-> script.settings[id].high]
  BY DEF StoredScript, StoredSetting
<1>1. \A actual : SettingMatches(script.settings[id], actual) => SettingMatches(setting, actual)
  <2> HIDE DEF setting
  <2> QED BY <1>0 DEF SettingMatches
<1>2. StoredSetting(setting)
  BY DEF StoredScript, StoredSetting
<1> HIDE DEF setting
<1>3. DOMAIN settings = DOMAIN script.settings
  OBVIOUS
<1>4. \A s \in DOMAIN settings : settings[s] = IF s = id THEN setting ELSE script.settings[s]
  OBVIOUS
<1> HIDE DEF settings
<1>5. changed = [id |-> script.id, enabled |-> script.enabled, api |-> script.api, source |-> script.source,
                 hash |-> script.hash, bindings |-> script.bindings, settings |-> settings,
                 layout |-> script.layout]
  BY DEF StoredScript
<1> HIDE DEF changed
<1>6. StoredScript(changed)
  BY <1>1, <1>2, <1>3, <1>4, <1>5 DEF StoredScript, DeclarationsMatch
<1> QED BY <1>6 DEF changed, settings, setting

LEMMA SlotSet ==
  ASSUME NEW script, StoredScript(script), NEW id \in DOMAIN script.bindings, NEW key, NEW enabled
  PROVE  StoredScript([script EXCEPT !.bindings[id].key = key, !.bindings[id].enabled = enabled])
<1> DEFINE binding == [script.bindings[id] EXCEPT !.key = key]
           bindings == [script.bindings EXCEPT ![id] = binding]
           keyed == [script EXCEPT !.bindings = bindings]
           binding2 == [bindings[id] EXCEPT !.enabled = enabled]
           bindings2 == [bindings EXCEPT ![id] = binding2]
           changed == [script EXCEPT !.bindings = bindings2]
<1>1. bindings[id] = binding
  OBVIOUS
<1>2. binding2 = [title |-> script.bindings[id].title, pressed |-> script.bindings[id].pressed,
                  released |-> script.bindings[id].released, enabled |-> enabled, key |-> key]
  <2>1. StoredBinding(script.bindings[id])
    BY DEF StoredScript
  <2>2. binding = [title |-> script.bindings[id].title, pressed |-> script.bindings[id].pressed,
                   released |-> script.bindings[id].released, enabled |-> script.bindings[id].enabled,
                   key |-> key]
    BY <2>1 DEF StoredBinding
  <2> HIDE DEF binding, bindings
  <2> QED BY <1>1, <2>2
<1>3. keyed.bindings = bindings
  BY DEF StoredScript
<1>4. [keyed EXCEPT !.bindings = bindings2] = changed
  BY DEF StoredScript
<1>5. /\ DOMAIN bindings2 = DOMAIN script.bindings
      /\ \A b \in DOMAIN bindings2 : bindings2[b] = IF b = id THEN binding2 ELSE script.bindings[b]
  <2> HIDE DEF binding, binding2
  <2> QED OBVIOUS
<1>6. [script EXCEPT !.bindings[id].key = key, !.bindings[id].enabled = enabled] = changed
  BY <1>3, <1>4
<1> HIDE DEF bindings2, binding2
<1>7. changed = [id |-> script.id, enabled |-> script.enabled, api |-> script.api, source |-> script.source,
                 hash |-> script.hash, bindings |-> bindings2, settings |-> script.settings,
                 layout |-> script.layout]
  BY DEF StoredScript
<1> HIDE DEF changed
<1>8. \A actual : BindingMatches(script.bindings[id], actual) => BindingMatches(binding2, actual)
  BY <1>2 DEF BindingMatches
<1>9. StoredBinding(binding2)
  BY <1>2 DEF StoredBinding
<1>10. StoredScript(changed)
  BY <1>5, <1>7, <1>8, <1>9 DEF StoredScript, DeclarationsMatch
<1> QED BY <1>6, <1>10

LEMMA Replaced ==
  ASSUME NEW stack, StoredStack(stack), NEW i \in DOMAIN stack, NEW script, StoredScript(script)
  PROVE  StoredStack([stack EXCEPT ![i] = script])
<1> DEFINE changed == [stack EXCEPT ![i] = script]
<1>1. /\ DOMAIN changed = DOMAIN stack
      /\ \A j \in DOMAIN changed : changed[j] = script \/ changed[j] = stack[j]
  OBVIOUS
<1>2. changed \in Seq(Range(changed))
  <2>1. DOMAIN stack = 1..Len(stack) /\ Len(stack) \in Nat
    BY DEF StoredStack
  <2>2. changed \in [1..Len(stack) -> Range(changed)]
    BY <1>1, <2>1 DEF Range
  <2> HIDE DEF changed
  <2> QED BY <2>1, <2>2
<1> HIDE DEF changed
<1>3. \A j \in DOMAIN changed : StoredScript(changed[j])
  BY <1>1 DEF StoredStack
<1>4. StoredStack(changed)
  BY <1>2, <1>3 DEF StoredStack
<1> QED BY <1>4 DEF changed

LEMMA Upserted ==
  ASSUME NEW stack, StoredStack(stack), NEW script, StoredScript(script)
  PROVE  StoredStack(Upsert(stack, script))
<1> DEFINE changed == Upsert(stack, script)
<1>0. DOMAIN stack = 1..Len(stack) /\ Len(stack) \in Nat
  BY DEF StoredStack
<1>1. CASE script.id \in Ids(stack)
  <2>1. /\ changed = [i \in DOMAIN stack |-> IF stack[i].id = script.id THEN script ELSE stack[i]]
    BY <1>1 DEF Upsert
  <2>2. changed \in [1..Len(stack) -> Range(changed)]
    BY <1>0, <2>1 DEF Range
  <2>3. changed \in Seq(Range(changed))
    BY <1>0, <2>2
  <2>4. \A i \in DOMAIN changed : changed[i] = script \/ (i \in DOMAIN stack /\ changed[i] = stack[i])
    BY <2>1
  <2> QED BY <2>3, <2>4 DEF StoredStack
<1>2. CASE script.id \notin Ids(stack)
  <2> DEFINE S == Range(stack) \cup {script}
  <2>1. changed = Append(stack, script)
    BY <1>2 DEF Upsert
  <2>2. stack \in Seq(S) /\ script \in S
    BY <1>0 DEF StoredStack
  <2>3. changed \in Seq(S) /\ Range(changed) = Range(stack) \cup {script}
    BY <2>1, <2>2, AppendRange
  <2>4. \A s \in Range(changed) : StoredScript(s)
    BY <2>3 DEF StoredStack, Range
  <2> QED BY <2>3, <2>4 DEF StoredStack, Range
<1> QED BY <1>1, <1>2

LEMMA Removed ==
  ASSUME NEW stack, StoredStack(stack), NEW i \in DOMAIN stack
  PROVE  StoredStack(RemoveAt(stack, i))
<1> DEFINE left == SubSeq(stack, 1, i - 1)
           right == SubSeq(stack, i + 1, Len(stack))
           changed == left \o right
<1>0. DOMAIN stack = 1..Len(stack) /\ Len(stack) \in Nat /\ stack \in Seq(Range(stack))
  BY DEF StoredStack
<1>1. left \in Seq(Range(stack)) /\ right \in Seq(Range(stack))
  BY <1>0
<1>2. changed \in Seq(Range(stack))
  BY <1>1
<1> HIDE DEF changed
<1>3. Range(changed) \subseteq Range(stack)
  BY <1>2, RangeTyped
<1>4. changed \in Seq(Range(changed))
  <2>1. changed \in [1..Len(changed) -> Range(changed)] /\ Len(changed) \in Nat
    BY <1>2 DEF Range
  <2> QED BY <2>1
<1>5. \A j \in DOMAIN changed : StoredScript(changed[j])
  BY <1>3 DEF StoredStack, Range
<1>6. changed = RemoveAt(stack, i)
  BY DEF changed, RemoveAt
<1> QED BY <1>4, <1>5, <1>6 DEF StoredStack

-----------------------------------------------------------------------------
(* The steps.                                                               *)

LEMMA Updates ==
  ASSUME EditorInv, NEW newScripts, NEW newLua, NEW newSwitches, NEW newActive,
         UpdateDocument(newScripts, newLua, newSwitches, newActive),
         DOMAIN newScripts = Targets, \A target \in Targets : StoredStack(newScripts[target]),
         newSwitches \in [Profiles -> SwitchChoices], newActive \in Profiles
  PROVE  EditorInv'
<1>1. CASE UiAccepts(newScripts, newLua, newSwitches, newActive)
  BY <1>1 DEF UpdateDocument, EditorInv, AllStored
<1>2. CASE ~UiAccepts(newScripts, newLua, newSwitches, newActive)
  BY <1>2 DEF UpdateDocument, EditorInv, AllStored
<1> QED BY <1>1, <1>2

LEMMA StackApplied ==
  ASSUME EditorInv, NEW target, NEW stack, target \in Targets => StoredStack(stack), NEW activate,
         ApplyStack(target, stack, activate)
  PROVE  EditorInv'
<1> DEFINE changed == [scripts EXCEPT ![target] = stack]
<1>1. DOMAIN changed = Targets /\ \A t \in Targets : StoredStack(changed[t])
  BY DEF EditorInv, AllStored
<1>2. switches \in [Profiles -> SwitchChoices] /\ active \in Profiles
  BY DEF EditorInv
<1> HIDE DEF changed
<1>3. UpdateDocument(changed, LuaAfter(target, stack, activate), switches, active)
  BY DEF ApplyStack, changed
<1> QED BY <1>1, <1>2, <1>3, Updates

LEMMA ScriptEdited ==
  ASSUME EditorInv, NEW profile \in Profiles, NEW i \in DOMAIN scripts[profile],
         NEW script, StoredScript(script), EditScript(profile, i, script)
  PROVE  EditorInv'
<1> DEFINE stack == [scripts[profile] EXCEPT ![i] = script]
           changed == [scripts EXCEPT ![profile] = stack]
<1>1. profile \in Targets
  BY DEF Targets
<1>2. StoredStack(stack)
  BY <1>1, Replaced DEF EditorInv, AllStored
<1> HIDE DEF stack
<1>3. DOMAIN changed = Targets /\ \A t \in Targets : StoredStack(changed[t])
  BY <1>2 DEF EditorInv, AllStored
<1>4. switches \in [Profiles -> SwitchChoices] /\ active \in Profiles
  BY DEF EditorInv
<1> HIDE DEF changed
<1>5. UpdateDocument(changed, lua, switches, active)
  BY DEF EditScript, changed, stack
<1> QED BY <1>3, <1>4, <1>5, Updates

LEMMA CurrentIsStored ==
  ASSUME EditorInv, editing.target \in Targets, CurrentScript # NoScript
  PROVE  StoredScript(CurrentScript)
<1> DEFINE stack == scripts[editing.target]
<1>1. editing.script \in Ids(stack) /\ CurrentScript = Find(stack, editing.script)
  BY DEF CurrentScript
<1>2. StoredStack(stack)
  BY DEF EditorInv, AllStored
<1> HIDE DEF stack
<1>3. \E i \in DOMAIN stack : stack[i].id = editing.script
  BY <1>1 DEF Ids
<1> QED BY <1>1, <1>2, <1>3 DEF Find, StoredStack

LEMMA EditorInitially == Init => EditorInv
<1> SUFFICES ASSUME Init PROVE EditorInv
  OBVIOUS
<1>1. PICK stack \in InitialGlobal :
        scripts = [target \in Targets |-> IF target = "global" THEN stack ELSE <<>>]
  BY DEF Init
<1>2. StoredStack(stack)
  BY EditorAssumption
<1>3. StoredStack(<<>>)
  BY EmptyRange DEF StoredStack
<1>4. AllStored
  BY <1>1, <1>2, <1>3 DEF AllStored
<1> QED BY <1>4 DEF Init, EditorInv

LEMMA EditorSteps == EditorInv /\ [Next]_vars => EditorInv'
<1> SUFFICES ASSUME EditorInv, [Next]_vars PROVE EditorInv'
  OBVIOUS
<1>1. ASSUME NEW target \in EditedTargets, NEW id \in 0..MaxStored, OpenScript(target, id) PROVE EditorInv'
  BY <1>1 DEF OpenScript, docVars, EditorInv, AllStored
<1>2. ASSUME NEW source \in Sources, Validate(source) PROVE EditorInv'
  BY <1>2 DEF Validate, docVars, EditorInv, AllStored
<1>3. CASE StoreValidated
  <2> DEFINE script == MergeDeclarations(request.id, request.source, request.old)
  <2>1. request.source \in DOMAIN Declarations
    BY <1>3 DEF StoreValidated, RequestAccepted, Loads
  <2>2. StoredScript(script)
    BY <2>1, MergedIsStored
  <2> HIDE DEF script
  <2>3. request.target \in Targets => StoredStack(Upsert(scripts[request.target], script))
    BY <2>2, Upserted DEF EditorInv, AllStored
  <2>4. ApplyStack(request.target, Upsert(scripts[request.target], script), TRUE)
    BY <1>3 DEF StoreValidated, script
  <2> QED BY <2>3, <2>4, StackApplied
<1>4. CASE ValidationRefused \/ ValidationLost
  BY <1>4 DEF ValidationRefused, ValidationLost, docVars, EditorInv, AllStored
<1>5. CASE DisableAssignment
  <2> DEFINE script == [CurrentScript EXCEPT !.enabled = FALSE]
  <2>1. editing.target \in Targets => StoredScript(script)
    BY <1>5, CurrentIsStored, EnabledSet DEF DisableAssignment
  <2> HIDE DEF script
  <2>2. editing.target \in Targets => StoredStack(Upsert(scripts[editing.target], script))
    BY <2>1, Upserted DEF EditorInv, AllStored
  <2>3. ApplyStack(editing.target, Upsert(scripts[editing.target], script), FALSE)
    BY <1>5 DEF DisableAssignment, script
  <2> QED BY <2>2, <2>3, StackApplied
<1>6. CASE DeleteAssignment
  <2>1. PICK i \in DOMAIN scripts[editing.target] :
          ApplyStack(editing.target, RemoveAt(scripts[editing.target], i), FALSE)
    BY <1>6 DEF DeleteAssignment
  <2>2. editing.target \in Targets => StoredStack(RemoveAt(scripts[editing.target], i))
    BY Removed DEF EditorInv, AllStored
  <2> QED BY <2>1, <2>2, StackApplied
<1>7. ASSUME NEW profile \in Profiles, NEW i \in DOMAIN scripts[profile],
             NEW id \in DOMAIN scripts[profile][i].settings, EditValue(profile, i, id)
      PROVE  EditorInv'
  <2> DEFINE script == scripts[profile][i]
  <2>1. StoredScript(script)
    BY DEF EditorInv, AllStored, Targets, StoredStack
  <2>2. PICK choice \in ChoicesOf(script.settings[id]) :
          EditScript(profile, i, [script EXCEPT !.settings[id].value =
                                    [type |-> script.settings[id].value.type, value |-> choice]])
    BY <1>7 DEF EditValue
  <2>3. StoredScript([script EXCEPT !.settings[id].value =
                       [type |-> script.settings[id].value.type, value |-> choice]])
    BY <2>1, ValueSet
  <2> QED BY <2>2, <2>3, ScriptEdited
<1>8. ASSUME NEW profile \in Profiles, NEW i \in DOMAIN scripts[profile],
             NEW id \in DOMAIN scripts[profile][i].bindings, EditSlot(profile, i, id)
      PROVE  EditorInv'
  <2> DEFINE script == scripts[profile][i]
  <2>1. StoredScript(script)
    BY DEF EditorInv, AllStored, Targets, StoredStack
  <2>2. PICK key \in Keys \cup {NoKeyJson}, enabled \in BOOLEAN :
          EditScript(profile, i, [script EXCEPT !.bindings[id].key = key, !.bindings[id].enabled = enabled])
    BY <1>8 DEF EditSlot
  <2>3. StoredScript([script EXCEPT !.bindings[id].key = key, !.bindings[id].enabled = enabled])
    BY <2>1, SlotSet
  <2> QED BY <2>2, <2>3, ScriptEdited
<1>9. ASSUME NEW profile \in Profiles, NEW choice \in SwitchChoices, SetSwitches(profile, choice)
      PROVE  EditorInv'
  <2>1. [switches EXCEPT ![profile] = choice] \in [Profiles -> SwitchChoices]
    BY DEF EditorInv
  <2> QED BY <1>9, <2>1, Updates DEF SetSwitches, EditorInv, AllStored
<1>10. ASSUME NEW profile \in Profiles, SetBasicControl(profile) \/ MakeActive(profile)
       PROVE  EditorInv'
  BY <1>10, Updates DEF SetBasicControl, MakeActive, EditorInv, AllStored
<1>11. CASE UNCHANGED vars
  BY <1>11 DEF vars, docVars, EditorInv, AllStored
<1> QED BY <1>1, <1>2, <1>3, <1>4, <1>5, <1>6, <1>7, <1>8, <1>9, <1>10, <1>11 DEF Next

LEMMA EditorInvariant == Spec => []EditorInv
  BY EditorInitially, EditorSteps, PTL DEF Spec

-----------------------------------------------------------------------------
(* Whatever is edited, in whatever order, while whatever sources are being   *)
(* validated: the scripts of the document the user interface accepts load in *)
(* the Host, match their sources and get their keys with either backend, but *)
(* for the refusals UnforeseenRefusal names.                                 *)
THEOREM HostTakesDocuments == Spec => []HostTakesDocument
  BY EditorInvariant, ValidatorsAgree, PTL

(* No script is stored that would be refused when it becomes active later,   *)
(* but for texts the Host does not push.                                     *)
THEOREM StoredScriptsStayLoadable == Spec => []StoredScriptsLoad
  BY EditorInvariant, ValidatorsAgree, PTL

(***************************************************************************)
(* PROFILES                                                                 *)
(***************************************************************************)

LEMMA Constants == ProfilesAssumption
  BY ProfilesAssumption

-----------------------------------------------------------------------------
(* Lists of things with identifiers.                                        *)

LEMMA Found ==
  ASSUME NEW items, NEW id \in IdsOf(items)
  PROVE  \E i \in DOMAIN items : items[i].id = id /\ WithId(items, id) = items[i]
  BY DEF IdsOf, WithId

LEMMA FoundUnique ==
  ASSUME NEW items, UniqueIds(items), NEW i \in DOMAIN items
  PROVE  items[i].id \in IdsOf(items) /\ WithId(items, items[i].id) = items[i]
<1>1. items[i].id \in IdsOf(items)
  BY DEF IdsOf
<1> QED BY <1>1, Found DEF UniqueIds

LEMMA Taken ==
  ASSUME NEW S, NEW seq \in Seq(S), NEW k \in DOMAIN seq
  PROVE  /\ RemoveAt(seq, k) \in Seq(S) /\ Len(RemoveAt(seq, k)) = Len(seq) - 1
         /\ \A i \in 1..(Len(seq) - 1) : RemoveAt(seq, k)[i] = IF i < k THEN seq[i] ELSE seq[i + 1]
<1> DEFINE front == SubSeq(seq, 1, k - 1)
           back == SubSeq(seq, k + 1, Len(seq))
<1>1. k \in 1..Len(seq) /\ Len(seq) \in Nat
  OBVIOUS
<1>2. front \in Seq(S) /\ Len(front) = k - 1 /\ \A i \in 1..(k - 1) : front[i] = seq[i]
  BY <1>1
<1>3. back \in Seq(S) /\ Len(back) = Len(seq) - k /\ \A i \in 1..(Len(seq) - k) : back[i] = seq[k + i]
  BY <1>1
<1>4. RemoveAt(seq, k) = front \o back
  BY DEF RemoveAt
<1> HIDE DEF front, back
<1>5. Len(front \o back) = Len(seq) - 1 /\ front \o back \in Seq(S)
  BY <1>1, <1>2, <1>3
<1>6. ASSUME NEW i \in 1..(Len(seq) - 1) PROVE (front \o back)[i] = IF i < k THEN seq[i] ELSE seq[i + 1]
  <2>1. CASE i < k
    BY <1>1, <1>2, <1>3, <2>1
  <2>2. CASE ~(i < k)
    <3>1. \A m \in 1..(Len(front) + Len(back)) :
            (front \o back)[m] = IF m <= Len(front) THEN front[m] ELSE back[m - Len(front)]
      BY <1>2, <1>3, ConcatProperties
    <3>2. i \in 1..(Len(front) + Len(back)) /\ ~(i <= Len(front)) /\ i - Len(front) \in 1..(Len(seq) - k)
          /\ k + (i - Len(front)) = i + 1
      BY <1>1, <1>2, <1>3, <2>2
    <3> QED BY <1>3, <2>2, <3>1, <3>2
  <2> QED BY <2>1, <2>2
<1> QED BY <1>4, <1>5, <1>6

(* Every other place is still there, one further to the front behind k.      *)
LEMMA Rest ==
  ASSUME NEW S, NEW seq \in Seq(S), NEW x, IsInjective(seq)
  PROVE  /\ Without(seq, x) \in Seq(S) /\ IsInjective(Without(seq, x))
         /\ ToSet(Without(seq, x)) = ToSet(seq) \ {x}
         /\ Len(Without(seq, x)) <= Len(seq)
         /\ Len(seq) > 1 => Without(seq, x) # <<>>
<1> DEFINE rest == Without(seq, x)
<1>1. CASE x \notin ToSet(seq)
  <2>1. rest = seq
    BY <1>1 DEF Without
  <2> QED BY <1>1, <2>1
<1>2. CASE x \in ToSet(seq)
  <2>1. PICK k \in DOMAIN seq : seq[k] = x /\ rest = RemoveAt(seq, k)
    BY <1>2 DEF Without, IndexOf, ToSet
  <2>2. /\ rest \in Seq(S) /\ Len(rest) = Len(seq) - 1
        /\ \A i \in 1..(Len(seq) - 1) : rest[i] = IF i < k THEN seq[i] ELSE seq[i + 1]
    BY <2>1, Taken
  <2>3. /\ Len(seq) \in Nat /\ DOMAIN seq = 1..Len(seq) /\ k \in 1..Len(seq)
        /\ DOMAIN rest = 1..(Len(seq) - 1)
    BY <2>2
  <2> HIDE DEF rest
  <2>4. IsInjective(rest)
    <3> SUFFICES ASSUME NEW i \in DOMAIN rest, NEW j \in DOMAIN rest, rest[i] = rest[j] PROVE i = j
      BY DEF IsInjective
    <3>1. PICK a \in DOMAIN seq : a = (IF i < k THEN i ELSE i + 1) /\ rest[i] = seq[a]
      BY <2>2, <2>3
    <3>2. PICK b \in DOMAIN seq : b = (IF j < k THEN j ELSE j + 1) /\ rest[j] = seq[b]
      BY <2>2, <2>3
    <3>3. a = b
      BY <3>1, <3>2 DEF IsInjective
    <3> QED BY <2>3, <3>1, <3>2, <3>3
  <2>5. ToSet(rest) \subseteq ToSet(seq) \ {x}
    <3> SUFFICES ASSUME NEW i \in DOMAIN rest PROVE rest[i] \in ToSet(seq) \ {x}
      BY DEF ToSet
    <3>1. PICK j \in DOMAIN seq : j # k /\ rest[i] = seq[j]
      BY <2>2, <2>3
    <3> QED BY <2>1, <3>1 DEF ToSet, IsInjective
  <2>6. ToSet(seq) \ {x} \subseteq ToSet(rest)
    <3> SUFFICES ASSUME NEW j \in DOMAIN seq, seq[j] # x PROVE \E i \in DOMAIN rest : rest[i] = seq[j]
      BY DEF ToSet
    <3>1. j # k
      BY <2>1
    <3>2. CASE j < k
      BY <2>2, <2>3, <3>2
    <3>3. CASE j > k
      <4>1. j - 1 \in DOMAIN rest /\ rest[j - 1] = seq[j]
        BY <2>2, <2>3, <3>3
      <4> QED BY <4>1
    <3> QED BY <2>3, <3>1, <3>2, <3>3
  <2>7. Len(seq) > 1 => rest # <<>>
    BY <2>2, <2>3
  <2> QED BY <2>2, <2>3, <2>4, <2>5, <2>6, <2>7 DEF rest
<1> QED BY <1>1, <1>2

LEMMA RestById ==
  ASSUME NEW S, NEW items \in Seq(S), NEW id, UniqueIds(items)
  PROVE  /\ WithoutId(items, id) \in Seq(S) /\ UniqueIds(WithoutId(items, id))
         /\ ToSet(WithoutId(items, id)) = {item \in ToSet(items) : item.id # id}
         /\ IdsOf(WithoutId(items, id)) = IdsOf(items) \ {id}
         /\ Len(WithoutId(items, id)) <= Len(items)
         /\ Len(items) > 1 => WithoutId(items, id) # <<>>
<1> DEFINE rest == WithoutId(items, id)
<1>1. CASE id \notin IdsOf(items)
  <2>1. rest = items
    BY <1>1 DEF WithoutId
  <2>2. \A item \in ToSet(items) : item.id # id
    BY <1>1 DEF ToSet, IdsOf
  <2> QED BY <1>1, <2>1, <2>2
<1>2. CASE id \in IdsOf(items)
  <2>1. PICK k \in DOMAIN items : items[k].id = id /\ rest = Without(items, items[k])
    BY <1>2, Found DEF WithoutId
  <2>2. IsInjective(items)
    BY DEF UniqueIds, IsInjective
  <2>3. /\ rest \in Seq(S) /\ IsInjective(rest) /\ ToSet(rest) = ToSet(items) \ {items[k]}
        /\ Len(rest) <= Len(items) /\ (Len(items) > 1 => rest # <<>>)
    BY <2>1, <2>2, Rest
  <2> HIDE DEF rest
  <2>4. \A item \in ToSet(items) : item.id = id <=> item = items[k]
    BY <2>1 DEF ToSet, UniqueIds
  <2>5. ToSet(rest) = {item \in ToSet(items) : item.id # id}
    BY <2>3, <2>4
  <2>6. IdsOf(rest) = {item.id : item \in ToSet(rest)} /\ IdsOf(items) = {item.id : item \in ToSet(items)}
    BY DEF IdsOf, ToSet
  <2>7. IdsOf(rest) = IdsOf(items) \ {id}
    BY <2>5, <2>6
  <2>8. UniqueIds(rest)
    <3> SUFFICES ASSUME NEW i \in DOMAIN rest, NEW j \in DOMAIN rest, rest[i].id = rest[j].id PROVE i = j
      BY DEF UniqueIds
    <3>1. rest[i] \in ToSet(items) /\ rest[j] \in ToSet(items)
      BY <2>3 DEF ToSet
    <3>2. rest[i] = rest[j]
      BY <3>1 DEF ToSet, UniqueIds
    <3> QED BY <2>3, <3>2 DEF IsInjective
  <2> QED BY <2>3, <2>5, <2>7, <2>8 DEF rest
<1> QED BY <1>1, <1>2

LEMMA AppendedIds ==
  ASSUME NEW S, NEW items \in Seq(S), NEW item \in S, UniqueIds(items)
  PROVE  /\ Append(items, item) \in Seq(S) /\ Append(items, item) # <<>>
         /\ IdsOf(Append(items, item)) = IdsOf(items) \cup {item.id}
         /\ ToSet(Append(items, item)) = ToSet(items) \cup {item}
         /\ item.id \notin IdsOf(items) => UniqueIds(Append(items, item))
<1>1. Append(items, item) \in Seq(S) /\ DOMAIN Append(items, item) = 1..(Len(items) + 1)
  OBVIOUS
<1>2. /\ \A i \in 1..Len(items) : Append(items, item)[i] = items[i]
      /\ Append(items, item)[Len(items) + 1] = item
  OBVIOUS
<1>3. Len(items) \in Nat /\ DOMAIN items = 1..Len(items)
  OBVIOUS
<1> DEFINE longer == Append(items, item)
<1> HIDE DEF longer
<1>4. 1..(Len(items) + 1) = 1..Len(items) \cup {Len(items) + 1}
  BY <1>3
<1>5. longer \in Seq(S) /\ DOMAIN longer = DOMAIN items \cup {Len(items) + 1} /\ Len(items) + 1 \notin DOMAIN items
  BY <1>1, <1>3, <1>4 DEF longer
<1>6. (\A i \in DOMAIN items : longer[i] = items[i]) /\ longer[Len(items) + 1] = item
  BY <1>2, <1>3 DEF longer
<1>7. IdsOf(longer) = IdsOf(items) \cup {item.id}
  BY <1>5, <1>6 DEF IdsOf
<1>8. ToSet(longer) = ToSet(items) \cup {item}
  BY <1>5, <1>6 DEF ToSet
<1>9. ASSUME item.id \notin IdsOf(items) PROVE UniqueIds(longer)
  BY <1>5, <1>6, <1>9 DEF UniqueIds, IdsOf
<1>10. longer # <<>>
  BY <1>5
<1> QED BY <1>5, <1>7, <1>8, <1>9, <1>10 DEF longer

-----------------------------------------------------------------------------
(* Documents.                                                               *)

SetFits(set, ids) ==
  /\ set.profiles # <<>> /\ IsInjective(set.profiles)
  /\ ToSet(set.profiles) \subseteq ids
  /\ set.selected \in ToSet(set.profiles) \cup {None}

LEMMA Fits ==
  ASSUME NEW doc
  PROVE  WellFormed(doc) <=> /\ UniqueIds(doc.profiles) /\ UniqueIds(doc.sets)
                             /\ \A i \in DOMAIN doc.sets : SetFits(doc.sets[i], IdsOf(doc.profiles))
                             /\ doc.active \in IdsOf(doc.sets)
  BY DEF WellFormed, SetFits, ToSet

(* A document in which the sets are changed one by one, but not renamed.     *)
LEMMA SetsChanged ==
  ASSUME NEW doc \in Document, NEW sets, sets = [i \in DOMAIN doc.sets |-> sets[i]],
         \A i \in DOMAIN doc.sets : sets[i] \in AnySet /\ sets[i].id = doc.sets[i].id
  PROVE  /\ sets \in Seq(AnySet) /\ Len(sets) = Len(doc.sets) /\ IdsOf(sets) = IdsOf(doc.sets)
         /\ UniqueIds(doc.sets) => UniqueIds(sets)
<1>1. doc.sets \in Seq(AnySet) /\ DOMAIN doc.sets = 1..Len(doc.sets) /\ Len(doc.sets) \in Nat
  BY DEF Document
<1>2. sets \in Seq(AnySet) /\ Len(sets) = Len(doc.sets) /\ DOMAIN sets = DOMAIN doc.sets
  <2>1. sets \in [1..Len(doc.sets) -> AnySet]
    BY <1>1
  <2> QED BY <1>1, <2>1
<1>3. IdsOf(sets) = IdsOf(doc.sets)
  BY <1>2 DEF IdsOf
<1>4. ASSUME UniqueIds(doc.sets) PROVE UniqueIds(sets)
  <2> SUFFICES ASSUME NEW i \in DOMAIN doc.sets, NEW j \in DOMAIN doc.sets, sets[i].id = sets[j].id PROVE i = j
    BY <1>2 DEF UniqueIds
  <2> QED BY <1>4 DEF UniqueIds
<1> QED BY <1>2, <1>3, <1>4

(* The profile shown of a set is one of the document.                        *)
LEMMA ShowsOne ==
  ASSUME NEW doc \in Document, WellFormed(doc), NEW id \in IdsOf(doc.sets)
  PROVE  /\ WithId(doc.sets, id) \in AnySet /\ SetFits(WithId(doc.sets, id), IdsOf(doc.profiles))
         /\ ProfileToShow(WithId(doc.sets, id)) \in IdsOf(doc.profiles)
<1>1. PICK i \in DOMAIN doc.sets : doc.sets[i].id = id /\ WithId(doc.sets, id) = doc.sets[i]
  BY Found
<1>2. doc.sets[i] \in AnySet /\ SetFits(doc.sets[i], IdsOf(doc.profiles))
  BY Fits DEF Document
<1>3. 1 \in DOMAIN doc.sets[i].profiles
  BY <1>2 DEF SetFits, AnySet
<1> QED BY <1>1, <1>2, <1>3 DEF ProfileToShow, SetFits, ToSet

LEMMA EnsuredExists ==
  ASSUME NEW doc \in Document, WellFormed(doc), NEW sel
  PROVE  /\ Ensured(doc, sel).set \in IdsOf(doc.sets)
         /\ Ensured(doc, sel).profile \in IdsOf(doc.profiles)
<1>1. doc.sets[1].id \in IdsOf(doc.sets)
  <2>1. doc.sets \in Seq(AnySet) /\ doc.sets # <<>>
    BY DEF Document, WellFormed, IdsOf
  <2>2. 1 \in DOMAIN doc.sets
    BY <2>1
  <2> QED BY <2>2 DEF IdsOf
<1> DEFINE set == IF sel.set \in IdsOf(doc.sets) THEN sel.set ELSE doc.sets[1].id
<1>2. set \in IdsOf(doc.sets)
  BY <1>1
<1> HIDE DEF set
<1>3. ProfileToShow(WithId(doc.sets, set)) \in IdsOf(doc.profiles)
  BY <1>2, ShowsOne
<1> QED BY <1>2, <1>3 DEF Ensured, set

(* What an edit may do to the sets and leave a document.                     *)
LEMMA ShapeOf ==
  ASSUME NEW doc \in Document
  PROVE  /\ doc = [profiles |-> doc.profiles, sets |-> doc.sets, active |-> doc.active, keys |-> doc.keys]
         /\ doc.profiles \in Seq(AnyProfile) /\ doc.sets \in Seq(AnySet) /\ doc.active \in Nat
         /\ doc.keys \in Seq(Hotkeys)
  BY DEF Document

LEMMA IdsTyped ==
  ASSUME NEW doc \in Document
  PROVE  /\ IdsOf(doc.profiles) \subseteq Nat \ {None} /\ IdsOf(doc.sets) \subseteq Nat \ {None}
         /\ \A i \in DOMAIN doc.sets : doc.sets[i] \in AnySet /\ doc.sets[i].id \in Nat \ {None}
<1>1. \A i \in DOMAIN doc.sets : doc.sets[i] \in AnySet
  BY ShapeOf
<1>2. \A i \in DOMAIN doc.profiles : doc.profiles[i] \in AnyProfile
  BY ShapeOf
<1>3. \A i \in DOMAIN doc.sets : doc.sets[i].id \in Nat \ {None}
  BY <1>1 DEF AnySet
<1>4. \A i \in DOMAIN doc.profiles : doc.profiles[i].id \in Nat \ {None}
  BY <1>2 DEF AnyProfile
<1> QED BY <1>1, <1>3, <1>4 DEF IdsOf

LEMMA SetsKept ==
  ASSUME NEW id \in Nat, NEW doc, Sound(doc, id), NEW sets, sets = [i \in DOMAIN doc.sets |-> sets[i]],
         \A i \in DOMAIN doc.sets :
            sets[i] \in AnySet /\ sets[i].id = doc.sets[i].id /\ SetFits(sets[i], IdsOf(doc.profiles))
  PROVE  Sound([doc EXCEPT !.sets = sets], id)
<1>1. PICK changed : changed = [doc EXCEPT !.sets = sets]
  OBVIOUS
<1>2. doc \in Document /\ WellFormed(doc) /\ FitsLimits(doc) /\ Below(doc, id)
  BY DEF Sound
<1>3. sets \in Seq(AnySet) /\ Len(sets) = Len(doc.sets) /\ IdsOf(sets) = IdsOf(doc.sets) /\ UniqueIds(sets)
  BY <1>2, SetsChanged, Fits
<1>4. changed = [profiles |-> doc.profiles, sets |-> sets, active |-> doc.active, keys |-> doc.keys]
  BY <1>1, <1>2, ShapeOf
<1>5. changed \in Document
  BY <1>2, <1>3, <1>4, ShapeOf DEF Document
<1>6. changed.profiles = doc.profiles /\ changed.sets = sets /\ changed.active = doc.active
  BY <1>4
<1>7. DOMAIN sets = DOMAIN doc.sets
  OBVIOUS
<1>8. WellFormed(changed)
  BY <1>2, <1>3, <1>6, <1>7, Fits
<1>9. FitsLimits(changed) /\ Below(changed, id)
  BY <1>2, <1>3, <1>6 DEF FitsLimits, Below
<1> QED BY <1>1, <1>5, <1>8, <1>9 DEF Sound

LEMMA ActivationKept ==
  ASSUME NEW id \in Nat, NEW doc, Sound(doc, id), NEW chosen \in IdsOf(doc.sets)
  PROVE  Sound([doc EXCEPT !.active = chosen], id)
<1>1. PICK changed : changed = [doc EXCEPT !.active = chosen]
  OBVIOUS
<1>2. doc \in Document /\ WellFormed(doc) /\ FitsLimits(doc) /\ Below(doc, id)
  BY DEF Sound
<1>3. changed = [profiles |-> doc.profiles, sets |-> doc.sets, active |-> chosen, keys |-> doc.keys]
  BY <1>1, <1>2, ShapeOf
<1>4. chosen \in Nat
  BY <1>2, IdsTyped
<1>5. changed \in Document
  BY <1>2, <1>3, <1>4, ShapeOf DEF Document
<1>6. changed.profiles = doc.profiles /\ changed.sets = doc.sets /\ changed.active = chosen
  BY <1>3
<1>7. WellFormed(changed) /\ FitsLimits(changed) /\ Below(changed, id)
  BY <1>2, <1>6, Fits DEF FitsLimits, Below
<1> QED BY <1>1, <1>5, <1>7 DEF Sound

-----------------------------------------------------------------------------
(* The switches of scripts.                                                 *)

LEMMA NeighbourIn ==
  ASSUME NEW S, NEW seq \in Seq(S), NEW x \in ToSet(seq), NEW next \in BOOLEAN
  PROVE  Neighbour(seq, x, next) \in ToSet(seq)
<1>1. PICK i \in 1..Len(seq) : i = IndexOf(seq, x)
  BY DEF ToSet, IndexOf
<1>2. Len(seq) \in Nat \ {0} /\ DOMAIN seq = 1..Len(seq)
  BY <1>1
<1>3. PICK count \in Nat \ {0} : count = Len(seq)
  BY <1>2
<1>4. Wrapped(i - 1, count, next) \in 0..(count - 1)
  <2>1. \A a \in Nat : a % count \in 0..(count - 1)
    BY <1>3
  <2>2. (i - 1) + 1 \in Nat /\ (i - 1) + count - 1 \in Nat
    BY <1>1, <1>3
  <2> QED BY <2>1, <2>2 DEF Wrapped
<1>5. Wrapped(i - 1, count, next) + 1 \in DOMAIN seq
  BY <1>2, <1>3, <1>4
<1> QED BY <1>1, <1>3, <1>5 DEF Neighbour, ToSet

LEMMA SelectKept ==
  ASSUME NEW id \in Nat, NEW doc, Sound(doc, id),
         NEW target \in ToSet(WithId(doc.sets, doc.active).profiles)
  PROVE  Sound(Select(doc, target), id)
<1>1. doc \in Document /\ WellFormed(doc)
  BY DEF Sound
<1>2. PICK sets : sets = [i \in DOMAIN doc.sets |->
                            IF doc.sets[i].id = doc.active THEN [doc.sets[i] EXCEPT !.selected = target]
                            ELSE doc.sets[i]]
  OBVIOUS
<1>3. ASSUME NEW i \in DOMAIN doc.sets
      PROVE  sets[i] \in AnySet /\ sets[i].id = doc.sets[i].id /\ SetFits(sets[i], IdsOf(doc.profiles))
  <2>1. doc.sets[i] \in AnySet /\ SetFits(doc.sets[i], IdsOf(doc.profiles))
    BY <1>1, ShapeOf, Fits
  <2>2. CASE doc.sets[i].id # doc.active
    BY <1>2, <2>1, <2>2
  <2>3. CASE doc.sets[i].id = doc.active
    <3>1. WithId(doc.sets, doc.active) = doc.sets[i]
      BY <1>1, <2>3, FoundUnique, Fits
    <3>2. sets[i] = [doc.sets[i] EXCEPT !.selected = target]
      BY <1>2, <2>3
    <3>3. /\ sets[i] = [id |-> doc.sets[i].id, profiles |-> doc.sets[i].profiles, selected |-> target,
                          keys |-> doc.sets[i].keys]
          /\ doc.sets[i].profiles \in Seq(Nat \ {None})
      BY <2>1, <3>2 DEF AnySet
    <3>4. target \in ToSet(doc.sets[i].profiles) /\ target \in Nat
      BY <3>1, <3>3 DEF ToSet
    <3> QED BY <2>1, <3>3, <3>4 DEF AnySet, SetFits
  <2> QED BY <2>2, <2>3
<1>4. Sound([doc EXCEPT !.sets = sets], id)
  BY <1>2, <1>3, SetsKept
<1> QED BY <1>2, <1>4 DEF Select, Change

LEMMA RunKeeps ==
  ASSUME NEW id \in Nat, NEW doc, Sound(doc, id), NEW command \in Command
  PROVE  Run(doc, command) = NoDocument \/ Sound(Run(doc, command), id)
<1> DEFINE set == WithId(doc.sets, doc.active)
           R == Run(doc, command)
<1>1. doc \in Document /\ WellFormed(doc)
  BY DEF Sound
<1>2. doc.active \in IdsOf(doc.sets) /\ set \in AnySet
  BY <1>1, Fits, ShowsOne
<1> HIDE DEF set
<1>3. doc # NoDocument
  BY <1>1 DEF Document, NoDocument
<1>4. command.type \in {"switch_profile", "move_profile", "switch_profile_set", "move_profile_set"}
  BY DEF Command
<1>5. CASE command.type = "switch_profile"
  <2>1. R = IF MaySelect(doc, set, command.target) THEN Select(doc, command.target) ELSE NoDocument
    BY <1>3, <1>5 DEF Run, set
  <2> QED BY <2>1, SelectKept DEF MaySelect, set
<1>6. CASE command.type = "move_profile"
  <2>1. R = IF set.selected \in ToSet(set.profiles) THEN MoveProfile(doc, command.next) ELSE NoDocument
    BY <1>3, <1>6 DEF Run, set
  <2>2. PICK next \in BOOLEAN : next = command.next
    BY <1>6 DEF Command
  <2>3. ASSUME set.selected \in ToSet(set.profiles)
        PROVE  Neighbour(set.profiles, set.selected, next) \in ToSet(set.profiles)
    BY <1>2, <2>3, NeighbourIn DEF AnySet
  <2> QED BY <2>1, <2>2, <2>3, SelectKept DEF MoveProfile, set
<1>7. CASE command.type = "switch_profile_set"
  <2>1. R = IF command.target \in IdsOf(doc.sets) THEN [doc EXCEPT !.active = command.target] ELSE NoDocument
    BY <1>3, <1>7 DEF Run
  <2> QED BY <2>1, ActivationKept
<1>8. CASE command.type = "move_profile_set"
  <2>1. R = MoveProfileSet(doc, command.next)
    BY <1>3, <1>8 DEF Run
  <2>2. PICK next \in BOOLEAN : next = command.next
    BY <1>8 DEF Command
  <2>3. PICK ids : ids = [i \in DOMAIN doc.sets |-> doc.sets[i].id]
    OBVIOUS
  <2>4. ids \in Seq(Nat) /\ ToSet(ids) = IdsOf(doc.sets)
    <3>1. doc.sets \in Seq(AnySet) /\ \A i \in DOMAIN doc.sets : doc.sets[i].id \in Nat
      BY <1>1, ShapeOf, IdsTyped
    <3>2. ids \in [1..Len(doc.sets) -> Nat] /\ Len(doc.sets) \in Nat
      BY <2>3, <3>1
    <3> QED BY <2>3, <3>2 DEF ToSet, IdsOf
  <2>5. Neighbour(ids, doc.active, next) \in IdsOf(doc.sets)
    BY <1>2, <2>4, NeighbourIn
  <2> QED BY <2>1, <2>2, <2>3, <2>5, ActivationKept DEF MoveProfileSet
<1> QED BY <1>4, <1>5, <1>6, <1>7, <1>8

(* A callback leaves a document, whatever list of switches it asks for.       *)
LEMMA CommandsKeep ==
  ASSUME NEW id \in Nat, NEW doc, Sound(doc, id), NEW commands \in Seq(Command)
  PROVE  Commanded(doc, commands) = NoDocument \/ Sound(Commanded(doc, commands), id)
<1> DEFINE N == Len(commands)
           S == {d \in Document : Sound(d, id)} \cup {NoDocument}
           step == [p \in (1..N) \X S |-> Run(p[2], commands[p[1]])]
<1>1. N \in Nat /\ \A n \in 1..N : commands[n] \in Command
  OBVIOUS
<1>2. /\ \A d : d \in S <=> d = NoDocument \/ Sound(d, id)
      /\ \A command : Run(NoDocument, command) = NoDocument
  BY DEF Sound, Run
<1> HIDE DEF S
<1>3. \A d \in S : \A command \in Command : Run(d, command) \in S
  BY <1>2, RunKeeps
<1>4. doc \in S
  BY <1>2
<1>5. step \in [(1..N) \X S -> S]
  BY <1>1, <1>3
<1>6. \A n \in 1..N : \A d \in S : step[<<n, d>>] = Run(d, commands[n])
  OBVIOUS
<1> HIDE DEF step, N
<1>7. PICK f \in [0..N -> S] : Follows(f, N, doc, step)
  BY <1>1, <1>4, <1>5, StepsExist
<1>8. \A n \in 1..N : f[n] = Run(f[n - 1], commands[n])
  <2> TAKE n \in 1..N
  <2>1. n - 1 \in 0..N
    BY <1>1
  <2> QED BY <1>6, <1>7, <2>1 DEF Follows
<1>9. f = [n \in 0..N |-> IF n = 0 THEN doc ELSE Run(f[n - 1], commands[n])]
  <2>1. \A n \in 0..N : n # 0 => n \in 1..N
    BY <1>1
  <2>2. \A n \in 0..N : f[n] = IF n = 0 THEN doc ELSE Run(f[n - 1], commands[n])
    BY <1>7, <1>8, <2>1 DEF Follows
  <2> QED BY <1>7, <2>2
<1> DEFINE after == CHOOSE g : g = [n \in 0..N |-> IF n = 0 THEN doc ELSE Run(g[n - 1], commands[n])]
<1>10. after = [n \in 0..N |-> IF n = 0 THEN doc ELSE Run(after[n - 1], commands[n])]
  BY <1>9
<1>11. Commanded(doc, commands) = after[N]
  BY DEF Commanded, N
<1> HIDE DEF after
<1>12. after[0] = doc /\ \A n \in 1..N : after[n] = Run(after[n - 1], commands[n])
  <2>1. 0 \in 0..N /\ \A n \in 1..N : n \in 0..N /\ n # 0
    BY <1>1
  <2> QED BY <1>10, <2>1
<1>13. after[N] \in S
  <2> DEFINE G == {n \in 0..N : after[n] \in S}
  <2>1. 0 \in G
    BY <1>1, <1>4, <1>12
  <2>3. ASSUME NEW n \in 1..N, n - 1 \in G PROVE n \in G
    <3>1. n \in 0..N /\ commands[n] \in Command /\ after[n - 1] \in S
      BY <1>1, <2>3
    <3>2. Run(after[n - 1], commands[n]) \in S
      BY <1>3, <3>1
    <3> QED BY <1>12, <3>1, <3>2
  <2> HIDE DEF G
  <2>2. N \in G
    BY <1>1, <2>1, <2>3, EveryStep
  <2> QED BY <2>2 DEF G
<1> QED BY <1>2, <1>11, <1>13

-----------------------------------------------------------------------------
(* The merge of a package.                                                  *)

Extends(old, items) == \A i \in DOMAIN old : i \in DOMAIN items /\ items[i] = old[i]

LEMMA StillFound ==
  ASSUME NEW old, NEW items, Extends(old, items), UniqueIds(items), NEW id \in IdsOf(old)
  PROVE  id \in IdsOf(items) /\ WithId(items, id) = WithId(old, id)
<1>1. PICK i \in DOMAIN old : old[i].id = id /\ WithId(old, id) = old[i]
  BY Found
<1>2. i \in DOMAIN items /\ items[i] = old[i]
  BY DEF Extends
<1> QED BY <1>1, <1>2, FoundUnique

LEMMA Added ==
  ASSUME NEW S, NEW items \in Seq(S), NEW item \in S, UniqueIds(items), item.id \notin IdsOf(items),
         NEW old, Extends(old, items)
  PROVE  /\ UniqueIds(Append(items, item)) /\ Append(items, item) \in Seq(S)
         /\ IdsOf(Append(items, item)) = IdsOf(items) \cup {item.id}
         /\ ToSet(Append(items, item)) = ToSet(items) \cup {item}
         /\ Extends(old, Append(items, item))
         /\ \A id \in IdsOf(items) : WithId(Append(items, item), id) = WithId(items, id)
         /\ WithId(Append(items, item), item.id) = item
<1> DEFINE longer == Append(items, item)
<1>1. /\ UniqueIds(longer) /\ longer \in Seq(S) /\ IdsOf(longer) = IdsOf(items) \cup {item.id}
      /\ ToSet(longer) = ToSet(items) \cup {item}
  BY AppendedIds
<1>2. Extends(items, longer) /\ Len(items) + 1 \in DOMAIN longer /\ longer[Len(items) + 1] = item
  <2>1. DOMAIN items = 1..Len(items) /\ Len(items) \in Nat /\ DOMAIN longer = 1..(Len(items) + 1)
    OBVIOUS
  <2>2. (\A i \in 1..Len(items) : longer[i] = items[i]) /\ longer[Len(items) + 1] = item
    OBVIOUS
  <2> QED BY <2>1, <2>2 DEF Extends
<1> HIDE DEF longer
<1>3. Extends(old, longer)
  BY <1>2 DEF Extends
<1>4. \A id \in IdsOf(items) : WithId(longer, id) = WithId(items, id)
  BY <1>1, <1>2, StillFound
<1>5. WithId(longer, item.id) = item
  BY <1>1, <1>2, FoundUnique
<1> QED BY <1>1, <1>3, <1>4, <1>5 DEF longer

Results(package) ==
  [profiles : Seq(AnyProfile), sets : Seq(AnySet), next : Nat \ {None},
   renamed : [IdsOf(package.profiles) -> Nat \ {None}]]

LEMMA ResultShape ==
  ASSUME NEW package, NEW r \in Results(package)
  PROVE  /\ r = [profiles |-> r.profiles, sets |-> r.sets, next |-> r.next, renamed |-> r.renamed]
         /\ r.profiles \in Seq(AnyProfile) /\ r.sets \in Seq(AnySet) /\ r.next \in Nat \ {None}
         /\ r.renamed \in [IdsOf(package.profiles) -> Nat \ {None}]
  BY DEF Results

(* Every identifier was there, is new, or is one of the package's that have  *)
(* been merged.                                                              *)
Accounted(items, old, imported, n) ==
  \A id \in IdsOf(items) : id \in IdsOf(old) \/ fresh <= id \/ \E i \in 1..n : id = imported[i].id
Copied(r, profile) ==
  /\ r.renamed[profile.id] \in IdsOf(r.profiles)
  /\ WithId(r.profiles, r.renamed[profile.id]).content = profile.content
Renaming(r) ==
  /\ IsInjective(r.renamed)
  /\ \A id \in DOMAIN r.renamed : (r.renamed[id] = id \/ fresh <= r.renamed[id]) /\ r.renamed[id] < r.next
ProfilesMerged(package, r, n) ==
  /\ r.sets = document.sets /\ fresh <= r.next
  /\ UniqueIds(r.profiles) /\ Extends(document.profiles, r.profiles)
  /\ \A id \in IdsOf(r.profiles) : id < r.next
  /\ Accounted(r.profiles, document.profiles, package.profiles, n)
  /\ Renaming(r)
  /\ \A i \in DOMAIN package.profiles :
       IF i <= n THEN Copied(r, package.profiles[i])
       ELSE r.renamed[package.profiles[i].id] = package.profiles[i].id

LEMMA MergeProfileTyped ==
  ASSUME NEW package, Sound(package, fresh), NEW r \in Results(package), NEW n \in DOMAIN package.profiles
  PROVE  MergeProfile(r, package.profiles[n]) \in Results(package)
<1>1. package.profiles[n] \in AnyProfile
  BY ShapeOf DEF Sound
<1>2. PICK profile \in AnyProfile : profile = package.profiles[n]
  BY <1>1
<1>3. profile.id \in IdsOf(package.profiles)
  BY <1>2 DEF IdsOf
<1>4. Append(r.profiles, profile) \in Seq(AnyProfile)
  BY ResultShape
<1>5. [r EXCEPT !.profiles = Append(@, profile)] \in Results(package)
  BY <1>4, ResultShape DEF Results
<1>6. [profile EXCEPT !.id = r.next] \in AnyProfile
  BY ResultShape DEF AnyProfile
<1>7. Append(r.profiles, [profile EXCEPT !.id = r.next]) \in Seq(AnyProfile)
  BY <1>6, ResultShape
<1>8. [r.renamed EXCEPT ![profile.id] = r.next] \in [IdsOf(package.profiles) -> Nat \ {None}] /\ r.next + 1 \in Nat \ {None}
  <2>1. r.renamed \in [IdsOf(package.profiles) -> Nat \ {None}] /\ r.next \in Nat \ {None}
    BY ResultShape
  <2>2. r.next + 1 \in Nat \ {None}
    BY <2>1 DEF None
  <2> QED BY <1>3, <2>1, <2>2
<1>9. [r EXCEPT !.profiles = Append(@, [profile EXCEPT !.id = r.next]),
                !.renamed[profile.id] = r.next, !.next = @ + 1] \in Results(package)
  BY <1>7, <1>8, ResultShape DEF Results
<1> QED BY <1>2, <1>5, <1>9 DEF MergeProfile

LEMMA MergeProfileStep ==
  ASSUME Sound(document, fresh), fresh \in Nat \ {None}, NEW package, Sound(package, fresh),
         NEW r \in Results(package), NEW n \in DOMAIN package.profiles, ProfilesMerged(package, r, n - 1)
  PROVE  ProfilesMerged(package, MergeProfile(r, package.profiles[n]), n)
<1> DEFINE imported == package.profiles
           profile == imported[n]
           out == MergeProfile(r, profile)
<1>1. /\ imported \in Seq(AnyProfile) /\ DOMAIN imported = 1..Len(imported) /\ Len(imported) \in Nat
      /\ n \in 1..Len(imported) /\ profile \in AnyProfile /\ UniqueIds(imported)
  <2>1. imported \in Seq(AnyProfile) /\ WellFormed(package)
    BY ShapeOf DEF Sound
  <2> QED BY <2>1, Fits
<1>2. profile.id \in IdsOf(imported) /\ profile.id \in Nat \ {None} /\ profile.id < fresh
  BY <1>1 DEF IdsOf, AnyProfile, Sound, Below
<1>3. /\ r = [profiles |-> r.profiles, sets |-> r.sets, next |-> r.next, renamed |-> r.renamed]
      /\ r.profiles \in Seq(AnyProfile) /\ r.next \in Nat \ {None}
      /\ r.renamed \in [IdsOf(imported) -> Nat \ {None}]
  BY ResultShape
<1>4. r.renamed[profile.id] = profile.id
  BY <1>1 DEF ProfilesMerged
<1>5. \A i \in DOMAIN imported : (i <= n) <=> (i = n \/ i <= n - 1)
  BY <1>1
<1>6. \A i \in DOMAIN imported : imported[i].id = profile.id => i = n
  BY <1>1 DEF UniqueIds
<1>7. \A i \in DOMAIN imported : imported[i].id \in IdsOf(imported) /\ imported[i] \in AnyProfile
  BY <1>1 DEF IdsOf
<1> HIDE DEF imported, profile, out
<1>8. /\ r.sets = document.sets /\ fresh <= r.next
      /\ UniqueIds(r.profiles) /\ Extends(document.profiles, r.profiles)
      /\ \A id \in IdsOf(r.profiles) : id < r.next
      /\ Accounted(r.profiles, document.profiles, imported, n - 1)
      /\ Renaming(r)
      /\ \A i \in DOMAIN imported : IF i <= n - 1 THEN Copied(r, imported[i])
                                     ELSE r.renamed[imported[i].id] = imported[i].id
  BY DEF ProfilesMerged, imported
<1>9. SUFFICES /\ out.sets = document.sets /\ fresh <= out.next
               /\ UniqueIds(out.profiles) /\ Extends(document.profiles, out.profiles)
               /\ \A id \in IdsOf(out.profiles) : id < out.next
               /\ Accounted(out.profiles, document.profiles, imported, n)
               /\ Renaming(out)
               /\ \A i \in DOMAIN imported : IF i <= n THEN Copied(out, imported[i])
                                             ELSE out.renamed[imported[i].id] = imported[i].id
  BY DEF ProfilesMerged, imported, profile, out
<1>10. \A id : (\E i \in 1..(n - 1) : id = imported[i].id) => \E i \in 1..n : id = imported[i].id
  BY <1>1
<1>11. CASE profile.id \notin IdsOf(document.profiles)
  <2>1. out = [r EXCEPT !.profiles = Append(@, profile)]
    BY <1>11 DEF out, MergeProfile
  <2>2. /\ out.profiles = Append(r.profiles, profile) /\ out.sets = r.sets /\ out.next = r.next
        /\ out.renamed = r.renamed
    BY <1>3, <2>1
  <2>3. profile.id \notin IdsOf(r.profiles)
    <3> SUFFICES ASSUME profile.id \in IdsOf(r.profiles) PROVE FALSE
      OBVIOUS
    <3>1. PICK i \in 1..(n - 1) : profile.id = imported[i].id
      BY <1>2, <1>8, <1>11 DEF Accounted
    <3>2. i \in DOMAIN imported /\ i # n
      BY <1>1, <3>1
    <3> QED BY <1>6, <3>1, <3>2
  <2>4. /\ UniqueIds(out.profiles) /\ IdsOf(out.profiles) = IdsOf(r.profiles) \cup {profile.id}
        /\ Extends(document.profiles, out.profiles)
        /\ \A id \in IdsOf(r.profiles) : WithId(out.profiles, id) = WithId(r.profiles, id)
        /\ WithId(out.profiles, profile.id) = profile
    BY <1>1, <1>3, <1>8, <2>2, <2>3, Added
  <2>5. \A id \in IdsOf(out.profiles) : id < out.next
    BY <1>2, <1>3, <1>8, <2>2, <2>4
  <2>6. Accounted(out.profiles, document.profiles, imported, n)
    <3>1. n \in 1..n /\ profile.id = imported[n].id
      BY <1>1 DEF profile
    <3> QED BY <1>8, <1>10, <2>4, <3>1 DEF Accounted
  <2>7. Renaming(out)
    BY <1>8, <2>2 DEF Renaming
  <2>8. Copied(out, profile)
    BY <1>4, <2>2, <2>4 DEF Copied
  <2>9. \A i \in DOMAIN imported : i <= n - 1 => Copied(out, imported[i])
    BY <1>8, <2>2, <2>4 DEF Copied
  <2>10. \A i \in DOMAIN imported : IF i <= n THEN Copied(out, imported[i])
                                    ELSE out.renamed[imported[i].id] = imported[i].id
    BY <1>5, <1>8, <2>2, <2>8, <2>9 DEF profile
  <2> QED BY <1>8, <2>2, <2>4, <2>5, <2>6, <2>7, <2>10
<1>12. CASE profile.id \in IdsOf(document.profiles) /\ WithId(document.profiles, profile.id) = profile
  <2>1. out = r
    BY <1>12 DEF out, MergeProfile
  <2>2. Copied(r, profile)
    BY <1>4, <1>8, <1>12, StillFound DEF Copied
  <2>3. Accounted(r.profiles, document.profiles, imported, n)
    BY <1>8, <1>10 DEF Accounted
  <2>4. \A i \in DOMAIN imported : IF i <= n THEN Copied(r, imported[i])
                                   ELSE r.renamed[imported[i].id] = imported[i].id
    BY <1>5, <1>8, <2>2 DEF profile
  <2> QED BY <1>8, <2>1, <2>3, <2>4
<1>13. CASE profile.id \in IdsOf(document.profiles) /\ WithId(document.profiles, profile.id) # profile
  <2>1. PICK copy : copy = [profile EXCEPT !.id = r.next]
    OBVIOUS
  <2>2. copy \in AnyProfile /\ copy.id = r.next /\ copy.content = profile.content
    BY <1>1, <1>3, <2>1 DEF AnyProfile
  <2>3. out = [r EXCEPT !.profiles = Append(@, copy), !.renamed[profile.id] = r.next, !.next = @ + 1]
    BY <1>13, <2>1 DEF out, MergeProfile
  <2>4. /\ out.profiles = Append(r.profiles, copy) /\ out.sets = r.sets /\ out.next = r.next + 1
        /\ out.renamed = [r.renamed EXCEPT ![profile.id] = r.next]
    BY <1>3, <2>3
  <2>5. copy.id \notin IdsOf(r.profiles)
    BY <1>3, <1>8, <2>2
  <2>6. /\ UniqueIds(out.profiles) /\ IdsOf(out.profiles) = IdsOf(r.profiles) \cup {copy.id}
        /\ Extends(document.profiles, out.profiles)
        /\ \A id \in IdsOf(r.profiles) : WithId(out.profiles, id) = WithId(r.profiles, id)
        /\ WithId(out.profiles, copy.id) = copy
    BY <1>3, <1>8, <2>2, <2>4, <2>5, Added
  <2>7. IdsOf(r.profiles) \subseteq Nat
    <3>1. \A i \in DOMAIN r.profiles : r.profiles[i] \in AnyProfile
      BY <1>3
    <3> QED BY <3>1 DEF IdsOf, AnyProfile
  <2>8. \A id \in IdsOf(out.profiles) : id < out.next
    BY <1>3, <1>8, <2>2, <2>4, <2>6, <2>7
  <2>9. Accounted(out.profiles, document.profiles, imported, n)
    BY <1>8, <1>10, <2>2, <2>6 DEF Accounted
  <2>10. /\ out.renamed[profile.id] = r.next
         /\ \A id \in IdsOf(imported) : id # profile.id => out.renamed[id] = r.renamed[id]
         /\ DOMAIN out.renamed = IdsOf(imported) /\ DOMAIN r.renamed = IdsOf(imported)
    BY <1>2, <1>3, <2>4
  <2>11. \A id \in IdsOf(imported) : r.renamed[id] \in Nat /\ r.renamed[id] < r.next
    BY <1>3, <1>8, <2>10 DEF Renaming
  <2>12. Renaming(out)
    <3>1. IsInjective(out.renamed)
      <4> SUFFICES ASSUME NEW a \in IdsOf(imported), NEW b \in IdsOf(imported), out.renamed[a] = out.renamed[b]
                   PROVE  a = b
        BY <2>10 DEF IsInjective
      <4>1. ASSUME NEW c \in IdsOf(imported) PROVE r.renamed[c] # r.next
        BY <1>3, <2>11
      <4>2. IsInjective(r.renamed)
        BY <1>8 DEF Renaming
      <4>3. CASE a # profile.id /\ b # profile.id
        BY <2>10, <4>2, <4>3 DEF IsInjective
      <4>4. CASE a = profile.id \/ b = profile.id
        BY <2>10, <4>1, <4>4
      <4> QED BY <4>3, <4>4
    <3>2. ASSUME NEW id \in IdsOf(imported)
          PROVE  (out.renamed[id] = id \/ fresh <= out.renamed[id]) /\ out.renamed[id] < out.next
      <4>1. CASE id = profile.id
        BY <1>3, <1>8, <2>4, <2>10, <4>1
      <4>2. CASE id # profile.id
        <5>1. r.renamed[id] = id \/ fresh <= r.renamed[id]
          BY <1>8, <2>10 DEF Renaming
        <5> QED BY <1>3, <2>4, <2>10, <2>11, <4>2, <5>1
      <4> QED BY <4>1, <4>2
    <3> QED BY <2>10, <3>1, <3>2 DEF Renaming
  <2>13. Copied(out, profile)
    BY <2>2, <2>6, <2>10 DEF Copied
  <2>14. \A i \in DOMAIN imported : i # n => out.renamed[imported[i].id] = r.renamed[imported[i].id]
    BY <1>6, <1>7, <2>10
  <2>15. ASSUME NEW i \in DOMAIN imported, i <= n - 1 PROVE Copied(out, imported[i])
    <3>1. i # n
      BY <1>1, <2>15
    <3>2. Copied(r, imported[i])
      BY <1>8, <2>15
    <3> QED BY <2>6, <2>14, <3>1, <3>2 DEF Copied
  <2>16. ASSUME NEW i \in DOMAIN imported, ~(i <= n) PROVE out.renamed[imported[i].id] = imported[i].id
    <3>1. i # n /\ ~(i <= n - 1)
      BY <1>1, <2>16
    <3> QED BY <1>8, <2>14, <3>1
  <2>17. \A i \in DOMAIN imported : IF i <= n THEN Copied(out, imported[i])
                                    ELSE out.renamed[imported[i].id] = imported[i].id
    BY <1>5, <2>13, <2>15, <2>16 DEF profile
  <2>18. fresh <= out.next
    BY <1>3, <1>8, <2>4
  <2> QED BY <1>8, <2>4, <2>6, <2>8, <2>9, <2>12, <2>17, <2>18
<1> QED BY <1>11, <1>12, <1>13

LEMMA PackageSet ==
  ASSUME NEW package, Sound(package, fresh), NEW n \in DOMAIN package.sets
  PROVE  /\ package.sets[n] \in AnySet /\ SetFits(package.sets[n], IdsOf(package.profiles))
         /\ package.sets[n].id \in Nat \ {None} /\ package.sets[n].id < fresh
         /\ package.sets[n].profiles \in Seq(IdsOf(package.profiles))
         /\ package.sets[n].selected \in IdsOf(package.profiles) \cup {None}
<1>1. package \in Document /\ WellFormed(package) /\ Below(package, fresh)
  BY DEF Sound
<1>2. package.sets[n] \in AnySet /\ SetFits(package.sets[n], IdsOf(package.profiles))
  BY <1>1, ShapeOf, Fits
<1>3. package.sets[n].id \in Nat \ {None} /\ package.sets[n].id \in IdsOf(package.sets)
  BY <1>1, IdsTyped DEF IdsOf
<1>4. PICK ids \in Seq(Nat \ {None}) : ids = package.sets[n].profiles
  BY <1>2 DEF AnySet
<1>5. ids \in Seq(IdsOf(package.profiles))
  <2>1. \A i \in 1..Len(ids) : ids[i] \in IdsOf(package.profiles)
    BY <1>2, <1>4 DEF SetFits, ToSet
  <2>2. Len(ids) \in Nat /\ ids = [i \in 1..Len(ids) |-> ids[i]]
    OBVIOUS
  <2>3. ids \in [1..Len(ids) -> IdsOf(package.profiles)]
    BY <2>1, <2>2
  <2> QED BY <2>2, <2>3
<1>6. package.sets[n].selected \in IdsOf(package.profiles) \cup {None}
  BY <1>2 DEF SetFits
<1> QED BY <1>1, <1>2, <1>3, <1>4, <1>5, <1>6 DEF Below

LEMMA Remapped ==
  ASSUME NEW package, Sound(package, fresh), NEW r \in Results(package), NEW n \in DOMAIN package.sets
  PROVE  LET set == package.sets[n]
             copy == Remap(set, r.renamed)
         IN /\ copy \in AnySet /\ copy.id = set.id /\ copy.keys = set.keys
            /\ copy.profiles = [i \in DOMAIN set.profiles |-> r.renamed[set.profiles[i]]]
            /\ copy.selected = IF set.selected = None THEN None ELSE r.renamed[set.selected]
<1> DEFINE set == package.sets[n]
           copy == Remap(set, r.renamed)
           ids == [i \in DOMAIN set.profiles |-> r.renamed[set.profiles[i]]]
           selected == IF set.selected = None THEN None ELSE r.renamed[set.selected]
<1>1. /\ set \in AnySet /\ set.profiles \in Seq(IdsOf(package.profiles))
      /\ set.selected \in IdsOf(package.profiles) \cup {None}
  BY PackageSet
<1>2. r.renamed \in [IdsOf(package.profiles) -> Nat \ {None}]
  BY ResultShape
<1> HIDE DEF set
<1>3. ids \in Seq(Nat \ {None})
  <2>1. DOMAIN set.profiles = 1..Len(set.profiles) /\ Len(set.profiles) \in Nat
    BY <1>1
  <2>2. \A i \in DOMAIN set.profiles : set.profiles[i] \in IdsOf(package.profiles)
    BY <1>1
  <2>3. ids \in [1..Len(set.profiles) -> Nat \ {None}]
    BY <1>2, <2>1, <2>2
  <2> QED BY <2>1, <2>3
<1>4. selected \in Nat
  BY <1>1, <1>2 DEF None
<1> HIDE DEF ids, selected
<1>5. set = [id |-> set.id, profiles |-> set.profiles, selected |-> set.selected, keys |-> set.keys] /\ set.id \in Nat \ {None}
      /\ set.keys \in Seq(Hotkeys)
  BY <1>1 DEF AnySet
<1>6. copy = [set EXCEPT !.profiles = ids, !.selected = selected]
  BY DEF Remap, ids, selected
<1>7. copy = [id |-> set.id, profiles |-> ids, selected |-> selected, keys |-> set.keys]
  BY <1>5, <1>6
<1>8. copy \in AnySet /\ copy.id = set.id /\ copy.profiles = ids /\ copy.selected = selected
      /\ copy.keys = set.keys
  BY <1>3, <1>4, <1>5, <1>7 DEF AnySet
<1> QED BY <1>8 DEF ids, selected, set

LEMMA RemappedFits ==
  ASSUME NEW package, Sound(package, fresh), NEW r \in Results(package),
         ProfilesMerged(package, r, Len(package.profiles)), NEW n \in DOMAIN package.sets
  PROVE  SetFits(Remap(package.sets[n], r.renamed), IdsOf(r.profiles))
<1> DEFINE set == package.sets[n]
           copy == Remap(set, r.renamed)
<1>1. /\ copy.profiles = [i \in DOMAIN set.profiles |-> r.renamed[set.profiles[i]]]
      /\ copy.selected = IF set.selected = None THEN None ELSE r.renamed[set.selected]
  BY Remapped
<1>2. SetFits(set, IdsOf(package.profiles)) /\ set.profiles \in Seq(IdsOf(package.profiles))
  BY PackageSet
<1>3. \A id \in IdsOf(package.profiles) : r.renamed[id] \in IdsOf(r.profiles)
  <2>1. package.profiles \in Seq(AnyProfile)
    BY ShapeOf DEF Sound
  <2>2. \A i \in DOMAIN package.profiles : i <= Len(package.profiles)
    BY <2>1
  <2> QED BY <2>2 DEF ProfilesMerged, Copied, IdsOf
<1>4. IsInjective(r.renamed) /\ DOMAIN r.renamed = IdsOf(package.profiles)
  BY ResultShape DEF ProfilesMerged, Renaming
<1>5. r.renamed \in [IdsOf(package.profiles) -> Nat \ {None}]
  BY ResultShape
<1> HIDE DEF set, copy
<1>6. \A i \in DOMAIN set.profiles : set.profiles[i] \in IdsOf(package.profiles)
  BY <1>2
<1>7. DOMAIN copy.profiles = DOMAIN set.profiles
      /\ \A i \in DOMAIN set.profiles : copy.profiles[i] = r.renamed[set.profiles[i]]
  BY <1>1
<1>8. IsInjective(copy.profiles)
  <2> SUFFICES ASSUME NEW i \in DOMAIN set.profiles, NEW j \in DOMAIN set.profiles,
                      copy.profiles[i] = copy.profiles[j]
               PROVE  i = j
    BY <1>7 DEF IsInjective
  <2>1. set.profiles[i] = set.profiles[j]
    BY <1>4, <1>6, <1>7 DEF IsInjective
  <2> QED BY <1>2, <2>1 DEF SetFits, IsInjective
<1>9. ToSet(copy.profiles) \subseteq IdsOf(r.profiles)
  BY <1>3, <1>6, <1>7 DEF ToSet
<1>10. copy.profiles # <<>>
  <2>1. 1 \in DOMAIN set.profiles
    BY <1>2 DEF SetFits
  <2> QED BY <1>7, <2>1
<1>11. copy.selected \in ToSet(copy.profiles) \cup {None}
  <2>1. CASE set.selected = None
    BY <1>1, <2>1
  <2>2. CASE set.selected # None
    <3>1. PICK i \in DOMAIN set.profiles : set.selected = set.profiles[i]
      BY <1>2, <2>2 DEF SetFits, ToSet
    <3> QED BY <1>1, <1>7, <2>2, <3>1 DEF ToSet
  <2> QED BY <2>1, <2>2
<1> QED BY <1>8, <1>9, <1>10, <1>11 DEF SetFits, copy, set

LEMMA MergeSetTyped ==
  ASSUME NEW package, Sound(package, fresh), NEW r \in Results(package), NEW n \in DOMAIN package.sets
  PROVE  MergeSet(r, package.sets[n]) \in Results(package)
<1>1. PICK set : set = Remap(package.sets[n], r.renamed)
  OBVIOUS
<1>2. set \in AnySet
  BY <1>1, Remapped
<1>3. [set EXCEPT !.id = r.next] \in AnySet
  BY <1>2, ResultShape DEF AnySet
<1>4. Append(r.sets, set) \in Seq(AnySet) /\ Append(r.sets, [set EXCEPT !.id = r.next]) \in Seq(AnySet)
  BY <1>2, <1>3, ResultShape
<1>5. r.next + 1 \in Nat \ {None}
  <2>1. r.next \in Nat \ {None}
    BY ResultShape
  <2> QED BY <2>1 DEF None
<1>6. [r EXCEPT !.sets = Append(@, set)] \in Results(package)
  BY <1>4, ResultShape DEF Results
<1>7. [r EXCEPT !.sets = Append(@, [set EXCEPT !.id = r.next]), !.next = @ + 1] \in Results(package)
  BY <1>4, <1>5, ResultShape DEF Results
<1> QED BY <1>1, <1>6, <1>7 DEF MergeSet

HasCopy(sets, set) ==
  \E copy \in ToSet(sets) : copy.profiles = set.profiles /\ copy.selected = set.selected /\ copy.keys = set.keys
SetsMerged(package, base, r, n) ==
  /\ r.profiles = base.profiles /\ r.renamed = base.renamed /\ base.next <= r.next
  /\ UniqueIds(r.sets) /\ Extends(document.sets, r.sets)
  /\ \A id \in IdsOf(r.sets) : id < r.next
  /\ Accounted(r.sets, document.sets, package.sets, n)
  /\ \A set \in ToSet(r.sets) : SetFits(set, IdsOf(base.profiles))
  /\ \A i \in DOMAIN package.sets : i <= n => HasCopy(r.sets, Remap(package.sets[i], base.renamed))

LEMMA CopyStays ==
  ASSUME NEW set, NEW sets, NEW longer, HasCopy(sets, set), ToSet(sets) \subseteq ToSet(longer)
  PROVE  HasCopy(longer, set)
  BY DEF HasCopy

LEMMA MergeSetStep ==
  ASSUME Sound(document, fresh), fresh \in Nat \ {None}, NEW package, Sound(package, fresh),
         NEW base \in Results(package), ProfilesMerged(package, base, Len(package.profiles)),
         NEW r \in Results(package), NEW n \in DOMAIN package.sets, SetsMerged(package, base, r, n - 1)
  PROVE  SetsMerged(package, base, MergeSet(r, package.sets[n]), n)
<1> DEFINE imported == package.sets
           set == Remap(imported[n], r.renamed)
           out == MergeSet(r, imported[n])
<1>1. /\ DOMAIN imported = 1..Len(imported) /\ Len(imported) \in Nat /\ n \in 1..Len(imported)
      /\ UniqueIds(imported)
  <2>1. imported \in Seq(AnySet) /\ WellFormed(package)
    BY ShapeOf DEF Sound
  <2> QED BY <2>1, Fits
<1>2. /\ r = [profiles |-> r.profiles, sets |-> r.sets, next |-> r.next, renamed |-> r.renamed]
      /\ r.sets \in Seq(AnySet) /\ r.next \in Nat \ {None} /\ base.next \in Nat \ {None}
  BY ResultShape
<1>3. set \in AnySet /\ set.id = imported[n].id /\ set.id \in Nat \ {None} /\ set.id < fresh
  <2>1. set \in AnySet /\ set.id = imported[n].id
    BY Remapped
  <2>2. imported[n].id \in Nat \ {None} /\ imported[n].id < fresh
    BY PackageSet
  <2> HIDE DEF set, imported
  <2> QED BY <2>1, <2>2
<1>4. /\ r.profiles = base.profiles /\ r.renamed = base.renamed /\ base.next <= r.next
      /\ UniqueIds(r.sets) /\ Extends(document.sets, r.sets)
      /\ \A id \in IdsOf(r.sets) : id < r.next
      /\ Accounted(r.sets, document.sets, imported, n - 1)
      /\ \A s \in ToSet(r.sets) : SetFits(s, IdsOf(base.profiles))
      /\ \A i \in DOMAIN imported : i <= n - 1 => HasCopy(r.sets, Remap(imported[i], base.renamed))
  BY DEF SetsMerged
<1>5. fresh <= base.next
  BY DEF ProfilesMerged
<1>6. SetFits(set, IdsOf(base.profiles)) /\ set = Remap(imported[n], base.renamed)
  BY <1>4, RemappedFits
<1>7. \A i \in DOMAIN imported : imported[i].id = set.id => i = n
  BY <1>1, <1>3 DEF UniqueIds
<1> HIDE DEF imported, set, out
<1>8. SUFFICES /\ out.profiles = base.profiles /\ out.renamed = base.renamed /\ base.next <= out.next
               /\ UniqueIds(out.sets) /\ Extends(document.sets, out.sets)
               /\ \A id \in IdsOf(out.sets) : id < out.next
               /\ Accounted(out.sets, document.sets, imported, n)
               /\ \A s \in ToSet(out.sets) : SetFits(s, IdsOf(base.profiles))
               /\ \A i \in DOMAIN imported : i <= n => HasCopy(out.sets, Remap(imported[i], base.renamed))
  BY DEF SetsMerged, imported, out
<1>9. \A i \in DOMAIN imported : i <= n => i = n \/ i <= n - 1
  BY <1>1
<1>10. ASSUME NEW sets, ToSet(r.sets) \subseteq ToSet(sets), HasCopy(sets, set), NEW i \in DOMAIN imported, i <= n
       PROVE  HasCopy(sets, Remap(imported[i], base.renamed))
  <2>1. CASE i = n
    BY <1>6, <1>10, <2>1
  <2>2. CASE i <= n - 1
    BY <1>4, <1>10, <2>2, CopyStays
  <2> QED BY <1>9, <1>10, <2>1, <2>2
<1>11. ASSUME NEW items, Accounted(items, document.sets, imported, n - 1)
       PROVE  Accounted(items, document.sets, imported, n)
  <2>1. \A id : (\E i \in 1..(n - 1) : id = imported[i].id) => \E i \in 1..n : id = imported[i].id
    BY <1>1
  <2> QED BY <1>11, <2>1 DEF Accounted
<1>12. CASE set.id \notin IdsOf(document.sets)
  <2>1. out = [r EXCEPT !.sets = Append(@, set)]
    BY <1>12 DEF out, MergeSet, set
  <2>2. /\ out.sets = Append(r.sets, set) /\ out.profiles = r.profiles /\ out.next = r.next
        /\ out.renamed = r.renamed
    BY <1>2, <2>1
  <2>3. set.id \notin IdsOf(r.sets)
    <3> SUFFICES ASSUME set.id \in IdsOf(r.sets) PROVE FALSE
      OBVIOUS
    <3>1. PICK i \in 1..(n - 1) : set.id = imported[i].id
      BY <1>3, <1>4, <1>12 DEF Accounted
    <3>2. i \in DOMAIN imported /\ i # n
      BY <1>1, <3>1
    <3> QED BY <1>7, <3>1, <3>2
  <2>4. /\ UniqueIds(out.sets) /\ IdsOf(out.sets) = IdsOf(r.sets) \cup {set.id}
        /\ ToSet(out.sets) = ToSet(r.sets) \cup {set} /\ Extends(document.sets, out.sets)
    BY <1>2, <1>3, <1>4, <2>2, <2>3, Added
  <2>5. \A id \in IdsOf(out.sets) : id < out.next
    BY <1>2, <1>3, <1>4, <1>5, <2>2, <2>4
  <2>6. Accounted(out.sets, document.sets, imported, n)
    <3>1. n \in 1..n /\ set.id = imported[n].id
      BY <1>1, <1>3
    <3> QED BY <1>4, <1>11, <2>4, <3>1 DEF Accounted
  <2>7. HasCopy(out.sets, set)
    BY <2>4 DEF HasCopy
  <2> QED BY <1>4, <1>6, <1>10, <2>2, <2>4, <2>5, <2>6, <2>7
<1>13. CASE set.id \in IdsOf(document.sets) /\ WithId(document.sets, set.id) = set
  <2>1. out = r
    BY <1>13 DEF out, MergeSet, set
  <2>2. HasCopy(r.sets, set)
    <3>1. set.id \in IdsOf(r.sets) /\ WithId(r.sets, set.id) = set
      BY <1>4, <1>13, StillFound
    <3>2. set \in ToSet(r.sets)
      BY <3>1, Found DEF ToSet
    <3> QED BY <3>2 DEF HasCopy
  <2>3. Accounted(out.sets, document.sets, imported, n)
    BY <1>4, <1>11, <2>1
  <2> QED BY <1>4, <1>10, <2>1, <2>2, <2>3
<1>14. CASE set.id \in IdsOf(document.sets) /\ WithId(document.sets, set.id) # set
  <2>1. PICK copy : copy = [set EXCEPT !.id = r.next]
    OBVIOUS
  <2>2. copy \in AnySet /\ copy.id = r.next /\ copy.profiles = set.profiles /\ copy.selected = set.selected
        /\ copy.keys = set.keys
    BY <1>2, <1>3, <2>1 DEF AnySet
  <2>3. out = [r EXCEPT !.sets = Append(@, copy), !.next = @ + 1]
    BY <1>14, <2>1 DEF out, MergeSet, set
  <2>4. /\ out.sets = Append(r.sets, copy) /\ out.profiles = r.profiles /\ out.next = r.next + 1
        /\ out.renamed = r.renamed
    BY <1>2, <2>3
  <2>5. copy.id \notin IdsOf(r.sets)
    BY <1>2, <1>4, <2>2
  <2>6. /\ UniqueIds(out.sets) /\ IdsOf(out.sets) = IdsOf(r.sets) \cup {copy.id}
        /\ ToSet(out.sets) = ToSet(r.sets) \cup {copy} /\ Extends(document.sets, out.sets)
    BY <1>2, <1>4, <2>2, <2>4, <2>5, Added
  <2>7. \A id \in IdsOf(out.sets) : id < out.next
    <3>1. \A i \in DOMAIN r.sets : r.sets[i] \in AnySet
      BY <1>2
    <3>2. IdsOf(r.sets) \subseteq Nat
      BY <3>1 DEF IdsOf, AnySet
    <3> QED BY <1>2, <1>4, <2>2, <2>4, <2>6, <3>2
  <2>8. Accounted(out.sets, document.sets, imported, n)
    <3>1. fresh <= copy.id
      BY <1>2, <1>4, <1>5, <2>2
    <3> QED BY <1>4, <1>11, <2>6, <3>1 DEF Accounted
  <2>9. SetFits(copy, IdsOf(base.profiles))
    BY <1>6, <2>2 DEF SetFits
  <2>10. HasCopy(out.sets, set)
    BY <2>2, <2>6 DEF HasCopy
  <2>11. base.next <= out.next
    BY <1>2, <1>4, <2>4
  <2> QED BY <1>4, <1>10, <2>4, <2>6, <2>7, <2>8, <2>9, <2>10, <2>11
<1> QED BY <1>12, <1>13, <1>14

LEMMA ProfilesStart ==
  ASSUME Sound(document, fresh), fresh \in Nat \ {None}, NEW package, Sound(package, fresh),
         NEW start, start = [profiles |-> document.profiles, sets |-> document.sets, next |-> fresh,
                             renamed |-> [id \in IdsOf(package.profiles) |-> id]]
  PROVE  start \in Results(package) /\ ProfilesMerged(package, start, 0)
<1>1. document \in Document /\ WellFormed(document) /\ Below(document, fresh)
  BY DEF Sound
<1>2. package \in Document /\ Below(package, fresh)
  BY DEF Sound
<1>3. IdsOf(package.profiles) \subseteq Nat \ {None} /\ \A id \in IdsOf(package.profiles) : id < fresh
  BY <1>2, IdsTyped DEF Below
<1>4. start \in Results(package)
  BY <1>1, <1>3, ShapeOf DEF Results
<1>5. /\ start.profiles = document.profiles /\ start.sets = document.sets /\ start.next = fresh
      /\ start.renamed = [id \in IdsOf(package.profiles) |-> id]
  OBVIOUS
<1>6. UniqueIds(start.profiles) /\ Extends(document.profiles, start.profiles)
  BY <1>1, <1>5, Fits DEF Extends
<1>7. \A id \in IdsOf(start.profiles) : id < start.next
  BY <1>1, <1>5 DEF Below
<1>8. Accounted(start.profiles, document.profiles, package.profiles, 0)
  BY <1>5 DEF Accounted
<1>9. Renaming(start)
  BY <1>3, <1>5 DEF Renaming, IsInjective
<1>10. ASSUME NEW i \in DOMAIN package.profiles
       PROVE  ~(i <= 0) /\ start.renamed[package.profiles[i].id] = package.profiles[i].id
  <2>1. i \in 1..Len(package.profiles) /\ Len(package.profiles) \in Nat
    BY <1>2, ShapeOf
  <2>2. package.profiles[i].id \in IdsOf(package.profiles)
    BY DEF IdsOf
  <2> QED BY <1>5, <2>1, <2>2
<1> QED BY <1>4, <1>5, <1>6, <1>7, <1>8, <1>9, <1>10 DEF ProfilesMerged

LEMMA SetsStart ==
  ASSUME Sound(document, fresh), fresh \in Nat \ {None}, NEW package, Sound(package, fresh),
         NEW base \in Results(package), ProfilesMerged(package, base, Len(package.profiles))
  PROVE  SetsMerged(package, base, base, 0)
<1>1. document \in Document /\ WellFormed(document) /\ Below(document, fresh)
  BY DEF Sound
<1>2. base.sets = document.sets /\ fresh <= base.next /\ base.next \in Nat
  BY ResultShape DEF ProfilesMerged
<1>3. UniqueIds(base.sets) /\ Extends(document.sets, base.sets)
  BY <1>1, <1>2, Fits DEF Extends
<1>4. \A id \in IdsOf(base.sets) : id < base.next
  <2>1. \A id \in IdsOf(document.sets) : id \in Nat /\ id < fresh
    BY <1>1, IdsTyped DEF Below
  <2> QED BY <1>2, <2>1
<1>5. Accounted(base.sets, document.sets, package.sets, 0)
  BY <1>2 DEF Accounted
<1>6. IdsOf(document.profiles) \subseteq IdsOf(base.profiles)
  BY StillFound DEF ProfilesMerged
<1>7. \A set \in ToSet(base.sets) : SetFits(set, IdsOf(base.profiles))
  <2>1. \A i \in DOMAIN document.sets : SetFits(document.sets[i], IdsOf(document.profiles))
    BY <1>1, Fits
  <2>2. \A i \in DOMAIN document.sets : SetFits(document.sets[i], IdsOf(base.profiles))
    BY <1>6, <2>1 DEF SetFits
  <2> QED BY <1>2, <2>2 DEF ToSet
<1>8. \A i \in DOMAIN package.sets : ~(i <= 0)
  <2>1. DOMAIN package.sets = 1..Len(package.sets) /\ Len(package.sets) \in Nat
    BY ShapeOf DEF Sound
  <2> QED BY <2>1
<1> QED BY <1>2, <1>3, <1>4, <1>5, <1>7, <1>8 DEF SetsMerged

LEMMA MergeResult ==
  ASSUME Sound(document, fresh), fresh \in Nat \ {None}, NEW package, Sound(package, fresh)
  PROVE  \E base \in Results(package) :
           /\ ProfilesMerged(package, base, Len(package.profiles))
           /\ Merge(package) \in Results(package)
           /\ SetsMerged(package, base, Merge(package), Len(package.sets))
<1> DEFINE R == Results(package)
           P == package.profiles
           S == package.sets
           N == Len(P)
           M == Len(S)
           start == [profiles |-> document.profiles, sets |-> document.sets, next |-> fresh,
                     renamed |-> [id \in IdsOf(P) |-> id]]
           stepP == [p \in (1..N) \X R |-> MergeProfile(p[2], P[p[1]])]
           stepS == [p \in (1..M) \X R |-> MergeSet(p[2], S[p[1]])]
<1>1. N \in Nat /\ DOMAIN P = 1..N /\ M \in Nat /\ DOMAIN S = 1..M
  BY ShapeOf DEF Sound
<1>2. start \in R /\ ProfilesMerged(package, start, 0)
  BY ProfilesStart
<1>3. /\ \A r \in R : \A n \in 1..N : MergeProfile(r, P[n]) \in R
      /\ \A r \in R : \A n \in 1..M : MergeSet(r, S[n]) \in R
  BY <1>1, MergeProfileTyped, MergeSetTyped
<1>4. \A r \in R : \A n \in 1..N : ProfilesMerged(package, r, n - 1) => ProfilesMerged(package, MergeProfile(r, P[n]), n)
  BY <1>1, MergeProfileStep
<1> HIDE DEF R, N, M, start
<1>5. stepP \in [(1..N) \X R -> R] /\ stepS \in [(1..M) \X R -> R]
  BY <1>3
<1>6. /\ \A n \in 1..N : \A r \in R : stepP[<<n, r>>] = MergeProfile(r, P[n])
      /\ \A n \in 1..M : \A r \in R : stepS[<<n, r>>] = MergeSet(r, S[n])
  OBVIOUS
<1> HIDE DEF stepP, stepS
<1> DEFINE profiles == CHOOSE g : g = [n \in 0..N |-> IF n = 0 THEN start ELSE MergeProfile(g[n - 1], P[n])]
<1>7. profiles = [n \in 0..N |-> IF n = 0 THEN start ELSE MergeProfile(profiles[n - 1], P[n])]
  <2>1. PICK f \in [0..N -> R] : Follows(f, N, start, stepP)
    BY <1>1, <1>2, <1>5, StepsExist
  <2>2. ASSUME NEW n \in 0..N PROVE f[n] = IF n = 0 THEN start ELSE MergeProfile(f[n - 1], P[n])
    <3>1. CASE n = 0
      BY <2>1, <3>1 DEF Follows
    <3>2. CASE n # 0
      <4>1. n \in 1..N /\ n - 1 \in 0..N
        BY <1>1, <3>2
      <4>2. f[n] = stepP[<<n, f[n - 1]>>] /\ f[n - 1] \in R
        BY <2>1, <4>1 DEF Follows
      <4> QED BY <1>6, <3>2, <4>1, <4>2
    <3> QED BY <3>1, <3>2
  <2>3. f = [n \in 0..N |-> IF n = 0 THEN start ELSE MergeProfile(f[n - 1], P[n])]
    BY <2>1, <2>2
  <2> QED BY <2>3
<1> HIDE DEF profiles
<1>8. profiles[N] \in R /\ ProfilesMerged(package, profiles[N], N)
  <2> DEFINE G == {n \in 0..N : profiles[n] \in R /\ ProfilesMerged(package, profiles[n], n)}
  <2>1. 0 \in G
    BY <1>1, <1>2, <1>7
  <2>2. ASSUME NEW n \in 1..N, n - 1 \in G PROVE n \in G
    <3>1. n \in 0..N /\ profiles[n] = MergeProfile(profiles[n - 1], P[n])
      BY <1>1, <1>7
    <3>2. profiles[n - 1] \in R /\ ProfilesMerged(package, profiles[n - 1], n - 1)
      BY <2>2
    <3> QED BY <1>3, <1>4, <3>1, <3>2
  <2> HIDE DEF G
  <2>3. N \in G
    BY <1>1, <2>1, <2>2, EveryStep
  <2> QED BY <2>3 DEF G
<1>9. PICK base \in R : base = profiles[N]
  BY <1>8
<1>10. ProfilesMerged(package, base, Len(P))
  BY <1>8, <1>9 DEF N
<1>11. SetsMerged(package, base, base, 0)
  BY <1>9, <1>10, SetsStart DEF R
<1>12. \A r \in R : \A n \in 1..M : SetsMerged(package, base, r, n - 1) => SetsMerged(package, base, MergeSet(r, S[n]), n)
  BY <1>1, <1>9, <1>10, MergeSetStep DEF R
<1> DEFINE sets == CHOOSE g : g = [n \in 0..M |-> IF n = 0 THEN profiles[N] ELSE MergeSet(g[n - 1], S[n])]
<1>13. sets = [n \in 0..M |-> IF n = 0 THEN base ELSE MergeSet(sets[n - 1], S[n])]
  <2>1. PICK f \in [0..M -> R] : Follows(f, M, base, stepS)
    BY <1>1, <1>5, <1>9, StepsExist
  <2>2. ASSUME NEW n \in 0..M PROVE f[n] = IF n = 0 THEN base ELSE MergeSet(f[n - 1], S[n])
    <3>1. CASE n = 0
      BY <2>1, <3>1 DEF Follows
    <3>2. CASE n # 0
      <4>1. n \in 1..M /\ n - 1 \in 0..M
        BY <1>1, <3>2
      <4>2. f[n] = stepS[<<n, f[n - 1]>>] /\ f[n - 1] \in R
        BY <2>1, <4>1 DEF Follows
      <4> QED BY <1>6, <3>2, <4>1, <4>2
    <3> QED BY <3>1, <3>2
  <2>3. f = [n \in 0..M |-> IF n = 0 THEN base ELSE MergeSet(f[n - 1], S[n])]
    BY <2>1, <2>2
  <2> QED BY <1>9, <2>3
<1> HIDE DEF sets
<1>14. sets[M] \in R /\ SetsMerged(package, base, sets[M], M)
  <2> DEFINE G == {n \in 0..M : sets[n] \in R /\ SetsMerged(package, base, sets[n], n)}
  <2>1. 0 \in G
    BY <1>1, <1>11, <1>13
  <2>2. ASSUME NEW n \in 1..M, n - 1 \in G PROVE n \in G
    <3>1. n \in 0..M /\ sets[n] = MergeSet(sets[n - 1], S[n])
      BY <1>1, <1>13
    <3>2. sets[n - 1] \in R /\ SetsMerged(package, base, sets[n - 1], n - 1)
      BY <2>2
    <3> QED BY <1>3, <1>12, <3>1, <3>2
  <2> HIDE DEF G
  <2>3. M \in G
    BY <1>1, <2>1, <2>2, EveryStep
  <2> QED BY <2>3 DEF G
<1>15. Merge(package) = sets[M]
  BY DEF Merge, sets, profiles, N, M, start
<1> QED BY <1>9, <1>10, <1>14, <1>15 DEF R, M

LEMMA MergedShape ==
  ASSUME document \in Document, NEW package
  PROVE  Merged(package) = [profiles |-> Merge(package).profiles, sets |-> Merge(package).sets,
                            active |-> document.active, keys |-> document.keys]
<1>1. PICK merge : merge = Merge(package)
  OBVIOUS
<1>2. document = [profiles |-> document.profiles, sets |-> document.sets, active |-> document.active, keys |-> document.keys]
  BY ShapeOf
<1>3. Merged(package) = [document EXCEPT !.profiles = merge.profiles, !.sets = merge.sets]
  BY <1>1 DEF Merged
<1> QED BY <1>1, <1>2, <1>3

LEMMA MergedSound ==
  ASSUME Sound(document, fresh), fresh \in Nat \ {None}, NEW package, Sound(package, fresh)
  PROVE  /\ Merge(package).next \in Nat \ {None} /\ fresh <= Merge(package).next
         /\ Merged(package) \in Document /\ WellFormed(Merged(package))
         /\ Below(Merged(package), Merge(package).next)
         /\ Extends(document.profiles, Merged(package).profiles) /\ Extends(document.sets, Merged(package).sets)
<1>1. PICK base \in Results(package), r \in Results(package) :
        /\ r = Merge(package) /\ ProfilesMerged(package, base, Len(package.profiles))
        /\ SetsMerged(package, base, r, Len(package.sets))
  BY MergeResult
<1>2. /\ r.profiles \in Seq(AnyProfile) /\ r.sets \in Seq(AnySet)
      /\ r.next \in Nat \ {None} /\ base.next \in Nat \ {None}
  BY ResultShape
<1>3. document \in Document /\ WellFormed(document)
  BY DEF Sound
<1>4. PICK merged : merged = Merged(package)
  OBVIOUS
<1>5. merged = [profiles |-> r.profiles, sets |-> r.sets, active |-> document.active, keys |-> document.keys]
  BY <1>1, <1>3, <1>4, MergedShape
<1>6. merged \in Document
  BY <1>2, <1>3, <1>5, ShapeOf DEF Document
<1>7. /\ UniqueIds(r.profiles) /\ Extends(document.profiles, r.profiles)
      /\ \A id \in IdsOf(r.profiles) : id < base.next
  BY <1>1 DEF ProfilesMerged, SetsMerged
<1>8. /\ UniqueIds(r.sets) /\ Extends(document.sets, r.sets)
      /\ \A id \in IdsOf(r.sets) : id < r.next
      /\ \A set \in ToSet(r.sets) : SetFits(set, IdsOf(r.profiles))
  BY <1>1 DEF SetsMerged
<1>9. fresh <= base.next /\ base.next <= r.next
  BY <1>1 DEF ProfilesMerged, SetsMerged
<1>10. merged.active \in IdsOf(merged.sets)
  <2>1. document.active \in IdsOf(document.sets)
    BY <1>3, Fits
  <2> QED BY <1>5, <1>8, <2>1, StillFound
<1>11. WellFormed(merged)
  BY <1>5, <1>7, <1>8, <1>10, Fits DEF ToSet
<1>12. Below(merged, r.next)
  <2>1. IdsOf(merged.profiles) \subseteq Nat
    BY <1>6, IdsTyped
  <2>2. \A id \in IdsOf(merged.profiles) : id < r.next
    BY <1>2, <1>5, <1>7, <1>9, <2>1
  <2> QED BY <1>5, <1>8, <2>2 DEF Below
<1>13. fresh <= r.next
  BY <1>2, <1>9
<1> QED BY <1>1, <1>2, <1>4, <1>5, <1>6, <1>7, <1>8, <1>11, <1>12, <1>13

LEMMA PlaceOf ==
  ASSUME NEW seq, IsInjective(seq), NEW i \in DOMAIN seq
  PROVE  IndexOf(seq, seq[i]) = i
  BY DEF IndexOf, IsInjective

LEMMA CopyShown ==
  ASSUME Sound(document, fresh), fresh \in Nat \ {None}, NEW package, Sound(package, fresh),
         NEW n \in DOMAIN package.sets
  PROVE  \E copy \in ToSet(Merged(package).sets) :
            Shown(Merged(package).profiles, copy) = Shown(package.profiles, package.sets[n])
<1>1. PICK base \in Results(package), r \in Results(package) :
        /\ r = Merge(package) /\ ProfilesMerged(package, base, Len(package.profiles))
        /\ SetsMerged(package, base, r, Len(package.sets))
  BY MergeResult
<1>2. Merged(package).profiles = base.profiles /\ Merged(package).sets = r.sets
  <2>1. document \in Document
    BY DEF Sound
  <2>2. Merged(package) = [profiles |-> r.profiles, sets |-> r.sets, active |-> document.active, keys |-> document.keys]
    BY <1>1, <2>1, MergedShape
  <2> QED BY <1>1, <2>2 DEF SetsMerged
<1>3. PICK set : set = package.sets[n]
  OBVIOUS
<1>4. PICK copy \in ToSet(r.sets) :
        /\ copy.profiles = [i \in DOMAIN set.profiles |-> base.renamed[set.profiles[i]]]
        /\ copy.selected = IF set.selected = None THEN None ELSE base.renamed[set.selected]
        /\ copy.keys = set.keys
  <2>1. n <= Len(package.sets)
    BY ShapeOf DEF Sound
  <2>2. HasCopy(r.sets, Remap(set, base.renamed))
    BY <1>1, <1>3, <2>1 DEF SetsMerged
  <2>3. PICK remapped : remapped = Remap(set, base.renamed)
    OBVIOUS
  <2>4. /\ remapped.profiles = [i \in DOMAIN set.profiles |-> base.renamed[set.profiles[i]]]
        /\ remapped.selected = IF set.selected = None THEN None ELSE base.renamed[set.selected]
        /\ remapped.keys = set.keys
    BY <1>3, <2>3, Remapped
  <2> QED BY <2>2, <2>3, <2>4 DEF HasCopy
<1>5. /\ SetFits(set, IdsOf(package.profiles)) /\ set.profiles \in Seq(IdsOf(package.profiles))
      /\ package \in Document /\ UniqueIds(package.profiles)
  BY <1>3, PackageSet, Fits DEF Sound
<1>6. IsInjective(base.renamed) /\ base.renamed \in [IdsOf(package.profiles) -> Nat \ {None}]
  BY <1>1, ResultShape DEF ProfilesMerged, Renaming
<1>7. ASSUME NEW id \in IdsOf(package.profiles)
      PROVE  WithId(base.profiles, base.renamed[id]).content = WithId(package.profiles, id).content
  <2>1. PICK i \in DOMAIN package.profiles :
          package.profiles[i].id = id /\ WithId(package.profiles, id) = package.profiles[i]
    BY Found
  <2>2. i <= Len(package.profiles)
    BY <1>5, ShapeOf
  <2>3. Copied(base, package.profiles[i])
    BY <1>1, <2>2 DEF ProfilesMerged
  <2> QED BY <2>1, <2>3 DEF Copied
<1>8. \A i \in DOMAIN set.profiles : set.profiles[i] \in IdsOf(package.profiles)
  BY <1>5
<1>9. DOMAIN copy.profiles = DOMAIN set.profiles
      /\ \A i \in DOMAIN set.profiles : copy.profiles[i] = base.renamed[set.profiles[i]]
  BY <1>4
<1>10. [i \in DOMAIN copy.profiles |-> WithId(base.profiles, copy.profiles[i]).content]
         = [i \in DOMAIN set.profiles |-> WithId(package.profiles, set.profiles[i]).content]
  BY <1>7, <1>8, <1>9
<1>11. (IF copy.selected = None THEN None ELSE IndexOf(copy.profiles, copy.selected))
         = (IF set.selected = None THEN None ELSE IndexOf(set.profiles, set.selected))
  <2>1. CASE set.selected = None
    BY <1>4, <2>1
  <2>2. CASE set.selected # None
    <3>1. PICK i \in DOMAIN set.profiles : set.profiles[i] = set.selected
      BY <1>5, <2>2 DEF SetFits, ToSet
    <3>2. copy.selected = copy.profiles[i] /\ copy.selected # None
      BY <1>4, <1>6, <1>8, <1>9, <2>2, <3>1
    <3>3. IsInjective(copy.profiles)
      <4> SUFFICES ASSUME NEW j \in DOMAIN set.profiles, NEW k \in DOMAIN set.profiles,
                          copy.profiles[j] = copy.profiles[k]
                   PROVE  j = k
        BY <1>9 DEF IsInjective
      <4>1. set.profiles[j] = set.profiles[k]
        BY <1>6, <1>8, <1>9 DEF IsInjective
      <4> QED BY <1>5, <4>1 DEF SetFits, IsInjective
    <3>4. IndexOf(copy.profiles, copy.selected) = i
      BY <1>9, <3>2, <3>3, PlaceOf
    <3>5. IndexOf(set.profiles, set.selected) = i
      BY <1>5, <3>1, PlaceOf DEF SetFits
    <3> QED BY <2>2, <3>2, <3>4, <3>5
  <2> QED BY <2>1, <2>2
<1>12. Shown(base.profiles, copy) = Shown(package.profiles, set)
  BY <1>4, <1>10, <1>11 DEF Shown
<1> QED BY <1>2, <1>3, <1>4, <1>12

LEMMA IsPrefixOf ==
  ASSUME NEW S, NEW old \in Seq(S), NEW items \in Seq(S), Extends(old, items)
  PROVE  IsPrefix(old, items)
<1>1. Len(old) \in Nat /\ Len(items) \in Nat /\ DOMAIN old = 1..Len(old) /\ DOMAIN items = 1..Len(items)
  OBVIOUS
<1>2. Len(old) <= Len(items)
  <2>1. CASE Len(old) = 0
    BY <1>1, <2>1
  <2>2. CASE Len(old) # 0
    <3>1. Len(old) \in DOMAIN old
      BY <1>1, <2>2
    <3> QED BY <1>1, <3>1 DEF Extends
  <2> QED BY <2>1, <2>2
<1>3. SubSeq(old, 1, Len(old)) = [i \in 1..Len(old) |-> old[i]]
  BY <1>1
<1>4. SubSeq(items, 1, Len(old)) = [i \in 1..Len(old) |-> items[i]]
  BY <1>1, <1>2
<1>5. \A i \in 1..Len(old) : items[i] = old[i]
  BY <1>1 DEF Extends
<1> QED BY <1>2, <1>3, <1>4, <1>5 DEF IsPrefix

-----------------------------------------------------------------------------
(* The invariant: wherever a document is kept or under way it is one the      *)
(* validator takes, and the set that is selected is one of the workspace's.  *)

Good(doc, id) == Sound(doc, id) /\ KeysAreDistinct(doc)
Selections == [set : Nat \ {None}, profile : Nat \ {None}]
Held(doc) == doc = NoDocument \/ Good(doc, fresh)
ProfilesInv ==
  /\ fresh \in Nat \ {None} /\ FirstId <= fresh
  /\ selection \in Selections /\ selection.set \in IdsOf(document.sets)
  /\ Good(document, fresh) /\ Good(accepted, fresh) /\ Good(host, fresh)
  /\ Held(preview) /\ Held(toHost) /\ Held(toUi)
SelectionKept == SelectedExists /\ ~SelectedExists' => refused' /\ document' = document

LEMMA SoundLater ==
  ASSUME NEW a \in Nat, NEW b \in Nat, a <= b, NEW doc, Sound(doc, a)
  PROVE  Sound(doc, b)
<1>1. doc \in Document /\ Below(doc, a)
  BY DEF Sound
<1>2. IdsOf(doc.profiles) \cup IdsOf(doc.sets) \subseteq Nat
  BY <1>1, IdsTyped
<1>3. Below(doc, b)
  BY <1>1, <1>2 DEF Below
<1> QED BY <1>3 DEF Sound

LEMMA Later ==
  ASSUME NEW a \in Nat, NEW b \in Nat, a <= b, NEW doc, Good(doc, a)
  PROVE  Good(doc, b)
  BY SoundLater DEF Good

(* An edit publishes its candidate or leaves the document alone.             *)
Decided(candidate) ==
  \/ Valid(candidate) /\ document' = candidate /\ toHost' = candidate
  \/ UNCHANGED <<document, toHost>>

LEMMA AfterEdit ==
  ASSUME ProfilesInv, NEW ids \in {0, 1}, Edit(ids), NEW candidate \in Document,
         Below(candidate, fresh + ids), Decided(candidate)
  PROVE  /\ fresh' \in Nat \ {None} /\ fresh <= fresh'
         /\ Good(document', fresh') /\ (toHost' = toHost \/ Good(toHost', fresh'))
<1>1. fresh \in Nat \ {None} /\ Good(document, fresh) /\ fresh' = fresh + ids
  BY DEF ProfilesInv, Edit
<1>2. PICK next \in Nat \ {None} : next = fresh' /\ fresh <= next
  BY <1>1 DEF None
<1>3. Good(document, next)
  BY <1>1, <1>2, Later
<1>4. CASE Valid(candidate) /\ document' = candidate /\ toHost' = candidate
  BY <1>1, <1>2, <1>4 DEF Good, Sound, Valid
<1>5. CASE UNCHANGED <<document, toHost>>
  BY <1>2, <1>3, <1>5
<1> QED BY <1>4, <1>5 DEF Decided

LEMMA EditKeeps ==
  ASSUME ProfilesInv, NEW ids \in {0, 1}, Edit(ids), NEW candidate \in Document,
         Below(candidate, fresh + ids), Decided(candidate),
         selection' \in Selections, selection'.set \in IdsOf(document'.sets)
  PROVE  ProfilesInv'
<1>1. /\ fresh' \in Nat \ {None} /\ fresh <= fresh'
      /\ Good(document', fresh') /\ (toHost' = toHost \/ Good(toHost', fresh'))
  BY AfterEdit
<1>2. accepted' = accepted /\ host' = host /\ preview' = preview /\ toUi' = toUi
  BY DEF Edit
<1>3. /\ fresh \in Nat \ {None} /\ FirstId <= fresh /\ Good(accepted, fresh) /\ Good(host, fresh)
      /\ Held(preview) /\ Held(toHost) /\ Held(toUi)
  BY DEF ProfilesInv
<1>4. PICK next \in Nat \ {None} : next = fresh' /\ fresh <= next
  BY <1>1
<1>5. \A doc : Good(doc, fresh) => Good(doc, next)
  BY <1>3, <1>4, Later
<1>6. FirstId <= next
  BY <1>3, <1>4, Constants DEF ProfilesAssumption
<1>7. /\ Good(accepted', next) /\ Good(host', next) /\ Good(document', next)
      /\ preview' = NoDocument \/ Good(preview', next)
      /\ toHost' = NoDocument \/ Good(toHost', next)
      /\ toUi' = NoDocument \/ Good(toUi', next)
  BY <1>1, <1>2, <1>3, <1>4, <1>5 DEF Held
<1> QED BY <1>4, <1>6, <1>7 DEF ProfilesInv, Held

LEMMA ShowKeeps ==
  ASSUME NEW doc \in Document, WellFormed(doc), document' = doc, NEW id \in IdsOf(doc.sets), Show(id)
  PROVE  selection' \in Selections /\ selection'.set \in IdsOf(document'.sets) /\ SelectedExists'
<1>1. selection' = [set |-> id, profile |-> ProfileToShow(WithId(doc.sets, id))]
  BY DEF Show
<1>2. ProfileToShow(WithId(doc.sets, id)) \in IdsOf(doc.profiles)
  BY ShowsOne
<1>3. id \in Nat \ {None} /\ ProfileToShow(WithId(doc.sets, id)) \in Nat \ {None}
  BY <1>2, IdsTyped
<1> QED BY <1>1, <1>2, <1>3 DEF Selections, SelectedExists

LEMMA EnsuredKeeps ==
  ASSUME NEW doc \in Document, WellFormed(doc), document' = doc, selection' = Ensured(doc, selection)
  PROVE  selection' \in Selections /\ selection'.set \in IdsOf(document'.sets) /\ SelectedExists'
<1>1. PICK sel : sel = Ensured(doc, selection)
  OBVIOUS
<1>2. sel.set \in IdsOf(doc.sets) /\ sel.profile \in IdsOf(doc.profiles)
  BY <1>1, EnsuredExists
<1>3. sel = [set |-> sel.set, profile |-> sel.profile]
  BY <1>1 DEF Ensured
<1>4. sel.set \in Nat \ {None} /\ sel.profile \in Nat \ {None}
  BY <1>2, IdsTyped
<1>5. sel \in Selections
  BY <1>3, <1>4 DEF Selections
<1> QED BY <1>1, <1>2, <1>5 DEF SelectedExists

(* Edits of the sets that rename none of them, and of the profiles.           *)
LEMMA Regrouped ==
  ASSUME NEW id \in Nat, NEW doc \in Document, Below(doc, id), NEW sets, sets = [i \in DOMAIN doc.sets |-> sets[i]],
         \A i \in DOMAIN doc.sets : sets[i] \in AnySet /\ sets[i].id = doc.sets[i].id,
         NEW candidate, candidate = [doc EXCEPT !.sets = sets]
  PROVE  candidate \in Document /\ Below(candidate, id)
<1>1. candidate = [profiles |-> doc.profiles, sets |-> sets, active |-> doc.active, keys |-> doc.keys]
  BY ShapeOf
<1>2. sets \in Seq(AnySet) /\ IdsOf(sets) = IdsOf(doc.sets)
  BY SetsChanged
<1> QED BY <1>1, <1>2, ShapeOf DEF Document, Below

(* An edit that lets Publish look after the selection.                       *)
LEMMA EnsuringEdit ==
  ASSUME ProfilesInv, Edit(0), NEW candidate \in Document, Below(candidate, fresh),
         Update(candidate, TRUE), EnsureSelection
  PROVE  ProfilesInv' /\ SelectionKept
<1>1. fresh + 0 = fresh /\ selection \in Selections /\ selection.set \in IdsOf(document.sets)
  BY DEF ProfilesInv
<1>2. CASE refused'
  <2>1. UNCHANGED <<document, toHost>> /\ selection' = selection
    BY <1>2 DEF Update, EnsureSelection
  <2>2. Decided(candidate) /\ SelectionKept
    BY <2>1 DEF Decided, SelectionKept, SelectedExists
  <2> QED BY <1>1, <2>1, <2>2, EditKeeps
<1>3. CASE ~refused'
  <2>1. Valid(candidate) /\ document' = candidate /\ toHost' = candidate /\ selection' = Ensured(candidate, selection)
    BY <1>3 DEF Update, EnsureSelection
  <2>2. selection' \in Selections /\ selection'.set \in IdsOf(document'.sets) /\ SelectedExists'
    BY <2>1, EnsuredKeeps DEF Valid
  <2>3. Decided(candidate) /\ SelectionKept
    BY <2>1, <2>2 DEF Decided, SelectionKept
  <2> QED BY <1>1, <2>2, <2>3, EditKeeps
<1> QED BY <1>2, <1>3

LEMMA SelectedSetTyped ==
  ASSUME ProfilesInv
  PROVE  /\ document \in Document /\ WellFormed(document) /\ Below(document, fresh) /\ fresh \in Nat \ {None}
         /\ selection = [set |-> selection.set, profile |-> selection.profile]
         /\ selection.set \in Nat \ {None} /\ selection.profile \in Nat \ {None}
         /\ selection.set \in IdsOf(document.sets)
         /\ SelectedSet \in AnySet /\ SetFits(SelectedSet, IdsOf(document.profiles))
<1>1. document \in Document /\ WellFormed(document) /\ Below(document, fresh) /\ fresh \in Nat \ {None}
  BY DEF ProfilesInv, Good, Sound, Valid
<1>2. selection \in Selections /\ selection.set \in IdsOf(document.sets)
  BY DEF ProfilesInv
<1>3. SelectedSet \in AnySet /\ SetFits(SelectedSet, IdsOf(document.profiles))
  BY <1>1, <1>2, ShowsOne DEF SelectedSet
<1> QED BY <1>1, <1>2, <1>3 DEF Selections

LEMMA SelectProfileSetStep ==
  ASSUME ProfilesInv, NEW id \in IdsOf(document.sets), SelectProfileSet(id)
  PROVE  ProfilesInv' /\ SelectionKept
<1>1. PICK doc : doc = document
  OBVIOUS
<1>2. doc \in Document /\ WellFormed(doc) /\ Below(doc, fresh) /\ fresh + 0 = fresh
  BY <1>1, SelectedSetTyped
<1>3. Edit(0) /\ document' = doc /\ Decided(doc) /\ Show(id)
  BY <1>1 DEF SelectProfileSet, Decided
<1>4. selection' \in Selections /\ selection'.set \in IdsOf(document'.sets) /\ SelectedExists'
  BY <1>1, <1>2, <1>3, ShowKeeps
<1> QED BY <1>2, <1>3, <1>4, EditKeeps DEF SelectionKept

LEMMA SelectProfileStep ==
  ASSUME ProfilesInv, NEW id \in IdsOf(document.profiles), SelectProfile(id)
  PROVE  ProfilesInv' /\ SelectionKept
<1>1. PICK doc : doc = document
  OBVIOUS
<1>2. doc \in Document /\ WellFormed(doc) /\ Below(doc, fresh) /\ fresh + 0 = fresh /\ fresh \in Nat
  BY <1>1, SelectedSetTyped
<1>3. PICK sets : sets = [i \in DOMAIN doc.sets |->
                            IF doc.sets[i].id = selection.set THEN [doc.sets[i] EXCEPT !.selected = id]
                            ELSE doc.sets[i]]
  OBVIOUS
<1>4. id \in Nat \ {None}
  BY <1>1, <1>2, IdsTyped
<1>5. \A i \in DOMAIN doc.sets : sets[i] \in AnySet /\ sets[i].id = doc.sets[i].id
  BY <1>2, <1>3, <1>4, IdsTyped DEF AnySet
<1>6. PICK candidate : candidate = [doc EXCEPT !.sets = sets]
  OBVIOUS
<1>7. /\ candidate \in Document /\ Below(candidate, fresh)
      /\ candidate.profiles = doc.profiles /\ IdsOf(candidate.sets) = IdsOf(doc.sets)
  <2>1. sets = [i \in DOMAIN doc.sets |-> sets[i]]
    BY <1>3
  <2>2. candidate \in Document /\ Below(candidate, fresh)
    BY <1>2, <1>5, <1>6, <2>1, Regrouped
  <2>3. IdsOf(sets) = IdsOf(doc.sets)
    BY <1>2, <1>5, <2>1, SetsChanged
  <2>4. candidate.profiles = doc.profiles /\ candidate.sets = sets
    BY <1>2, <1>6, ShapeOf
  <2> QED BY <2>2, <2>3, <2>4
<1>8. Edit(0) /\ Decided(candidate) /\ selection' = [selection EXCEPT !.profile = id]
  BY <1>1, <1>3, <1>6 DEF SelectProfile, Update, Change, Decided
<1>9. document' = doc \/ document' = candidate
  BY <1>1, <1>8 DEF Decided
<1>10. selection' = [set |-> selection.set, profile |-> id]
  BY <1>8, SelectedSetTyped
<1>11. selection' \in Selections /\ selection'.set \in IdsOf(document'.sets) /\ SelectedExists'
  BY <1>1, <1>4, <1>7, <1>9, <1>10, SelectedSetTyped DEF Selections, SelectedExists
<1> QED BY <1>2, <1>7, <1>8, <1>11, EditKeeps DEF SelectionKept

LEMMA ActivateProfileSetStep ==
  ASSUME ProfilesInv, ActivateProfileSet
  PROVE  ProfilesInv' /\ SelectionKept
<1>1. PICK doc, id : doc = document /\ id = selection.set
  OBVIOUS
<1>2. Good(doc, fresh) /\ fresh + 0 = fresh /\ fresh \in Nat /\ id \in IdsOf(doc.sets)
  BY <1>1 DEF ProfilesInv
<1>3. PICK candidate : candidate = [doc EXCEPT !.active = id]
  OBVIOUS
<1>4. Sound(candidate, fresh)
  BY <1>2, <1>3, ActivationKept DEF Good
<1>5. candidate.sets = doc.sets /\ candidate \in Document /\ Below(candidate, fresh)
  BY <1>2, <1>3, <1>4 DEF Good, Sound, Valid, Document
<1>6. Edit(0) /\ Decided(candidate) /\ Show(id)
  BY <1>1, <1>3 DEF ActivateProfileSet, Update, Decided
<1>7. PICK after \in {doc, candidate} : after = document'
  BY <1>1, <1>6 DEF Decided
<1>8. after \in Document /\ WellFormed(after) /\ id \in IdsOf(after.sets)
  BY <1>2, <1>4, <1>5 DEF Good, Sound, Valid
<1>9. selection' \in Selections /\ selection'.set \in IdsOf(document'.sets) /\ SelectedExists'
  BY <1>6, <1>7, <1>8, ShowKeeps
<1> QED BY <1>2, <1>5, <1>6, <1>9, EditKeeps DEF SelectionKept

LEMMA UpdateSelectedProfileStep ==
  ASSUME ProfilesInv, NEW content \in Contents, UpdateSelectedProfile(content)
  PROVE  ProfilesInv' /\ SelectionKept
<1>1. PICK doc : doc = document
  OBVIOUS
<1>2. doc \in Document /\ WellFormed(doc) /\ Below(doc, fresh) /\ fresh + 0 = fresh /\ fresh \in Nat
  BY <1>1, SelectedSetTyped
<1>3. PICK profiles : profiles = [i \in DOMAIN doc.profiles |->
                                    IF doc.profiles[i].id = selection.profile
                                    THEN [doc.profiles[i] EXCEPT !.content = content] ELSE doc.profiles[i]]
  OBVIOUS
<1>4. doc.profiles \in Seq(AnyProfile) /\ DOMAIN doc.profiles = 1..Len(doc.profiles) /\ Len(doc.profiles) \in Nat
  BY <1>2, ShapeOf
<1>5. \A i \in DOMAIN doc.profiles : profiles[i] \in AnyProfile /\ profiles[i].id = doc.profiles[i].id
  <2> TAKE i \in DOMAIN doc.profiles
  <2>1. doc.profiles[i] \in AnyProfile
    BY <1>4
  <2> QED BY <1>3, <2>1 DEF AnyProfile
<1>6. profiles \in Seq(AnyProfile) /\ IdsOf(profiles) = IdsOf(doc.profiles)
  <2>1. profiles \in [1..Len(doc.profiles) -> AnyProfile]
    BY <1>3, <1>4, <1>5
  <2>2. DOMAIN profiles = DOMAIN doc.profiles
    BY <1>3
  <2> QED BY <1>4, <1>5, <2>1, <2>2 DEF IdsOf
<1>7. PICK candidate : candidate = [doc EXCEPT !.profiles = profiles]
  OBVIOUS
<1>8. candidate = [profiles |-> profiles, sets |-> doc.sets, active |-> doc.active, keys |-> doc.keys]
  BY <1>2, <1>7, ShapeOf
<1>9. candidate \in Document /\ Below(candidate, fresh)
  BY <1>2, <1>6, <1>8, ShapeOf DEF Document, Below
<1>10. Edit(0) /\ Update(candidate, TRUE) /\ EnsureSelection
  BY <1>1, <1>3, <1>7 DEF UpdateSelectedProfile, Change
<1> QED BY <1>9, <1>10, EnsuringEdit

LEMMA AddProfileStep ==
  ASSUME ProfilesInv, NEW nameFits \in BOOLEAN, AddProfile(nameFits)
  PROVE  ProfilesInv' /\ SelectionKept
<1>1. PICK doc, new : doc = document /\ new = fresh
  OBVIOUS
<1>2. doc \in Document /\ WellFormed(doc) /\ Below(doc, new) /\ new \in Nat \ {None}
  BY <1>1, SelectedSetTyped
<1>3. PICK copy : copy = [WithId(doc.profiles, selection.profile) EXCEPT !.id = new]
  OBVIOUS
<1>4. copy \in AnyProfile /\ copy.id = new
  <2>1. PICK i \in DOMAIN doc.profiles : WithId(doc.profiles, selection.profile) = doc.profiles[i]
    BY <1>1, Found DEF AddProfile, SelectedExists
  <2>2. doc.profiles[i] \in AnyProfile
    BY <1>2, ShapeOf
  <2> QED BY <1>2, <1>3, <2>1, <2>2 DEF AnyProfile
<1>5. PICK sets : sets = [i \in DOMAIN doc.sets |->
                            IF doc.sets[i].id = selection.set
                            THEN [doc.sets[i] EXCEPT !.profiles = Append(@, new), !.selected = new]
                            ELSE doc.sets[i]]
  OBVIOUS
<1>6. \A i \in DOMAIN doc.sets : sets[i] \in AnySet /\ sets[i].id = doc.sets[i].id
  <2> TAKE i \in DOMAIN doc.sets
  <2>1. doc.sets[i] \in AnySet
    BY <1>2, IdsTyped
  <2>2. Append(doc.sets[i].profiles, new) \in Seq(Nat \ {None})
    <3>1. doc.sets[i].profiles \in Seq(Nat \ {None})
      BY <2>1 DEF AnySet
    <3> QED BY <1>2, <3>1
  <2> QED BY <1>2, <1>5, <2>1, <2>2 DEF AnySet
<1>7. sets \in Seq(AnySet) /\ IdsOf(sets) = IdsOf(doc.sets)
  <2>1. sets = [i \in DOMAIN doc.sets |-> sets[i]]
    BY <1>5
  <2> QED BY <1>2, <1>6, <2>1, SetsChanged
<1>8. PICK profiles : profiles = Append(doc.profiles, copy)
  OBVIOUS
<1>9. profiles \in Seq(AnyProfile) /\ IdsOf(profiles) = IdsOf(doc.profiles) \cup {new}
  BY <1>2, <1>4, <1>8, ShapeOf, AppendedIds, Fits
<1>10. PICK candidate : candidate = [doc EXCEPT !.profiles = profiles, !.sets = sets]
  OBVIOUS
<1>11. candidate = [profiles |-> profiles, sets |-> sets, active |-> doc.active, keys |-> doc.keys]
  <2>1. doc = [profiles |-> doc.profiles, sets |-> doc.sets, active |-> doc.active, keys |-> doc.keys]
    BY <1>2, ShapeOf
  <2> QED BY <1>10, <2>1
<1>12. candidate \in Document /\ Below(candidate, new + 1)
  <2>1. candidate \in Document
    BY <1>2, <1>7, <1>9, <1>11, ShapeOf DEF Document
  <2>2. \A id \in IdsOf(doc.profiles) \cup IdsOf(doc.sets) : id \in Nat /\ id < new
    BY <1>2, IdsTyped DEF Below
  <2>3. \A id \in IdsOf(doc.profiles) \cup IdsOf(doc.sets) \cup {new} : id < new + 1
    BY <1>2, <2>2
  <2> QED BY <1>7, <1>9, <1>11, <2>1, <2>3 DEF Below
<1>13. /\ Edit(1) /\ selection' = [selection EXCEPT !.profile = new]
       /\ (refused' /\ document' = doc) \/ document' = candidate
       /\ Decided(candidate)
  BY <1>1, <1>3, <1>5, <1>8, <1>10 DEF AddProfile, Update, Change, Decided
<1>14. selection' = [set |-> selection.set, profile |-> new]
  BY <1>13, SelectedSetTyped
<1>15. selection' \in Selections /\ selection'.set \in IdsOf(document'.sets)
  BY <1>1, <1>2, <1>7, <1>11, <1>13, <1>14, SelectedSetTyped DEF Selections
<1>16. SelectionKept
  BY <1>1, <1>9, <1>11, <1>13, <1>14 DEF SelectionKept, SelectedExists
<1> QED BY <1>1, <1>12, <1>13, <1>15, <1>16, EditKeeps

LEMMA AddProfileSetStep ==
  ASSUME ProfilesInv, AddProfileSet
  PROVE  ProfilesInv' /\ SelectionKept
<1>1. PICK doc, new : doc = document /\ new = fresh
  OBVIOUS
<1>2. doc \in Document /\ WellFormed(doc) /\ Below(doc, new) /\ new \in Nat \ {None}
  BY <1>1, SelectedSetTyped
<1>3. PICK set : set = [id |-> new, profiles |-> <<selection.profile>>, selected |-> selection.profile, keys |-> <<>>]
  OBVIOUS
<1>4. set \in AnySet /\ set.id = new
  <2>1. <<selection.profile>> \in Seq(Nat \ {None}) /\ selection.profile \in Nat
    BY SelectedSetTyped
  <2> QED BY <1>2, <1>3, <2>1 DEF AnySet
<1>5. PICK sets : sets = Append(doc.sets, set)
  OBVIOUS
<1>6. sets \in Seq(AnySet) /\ IdsOf(sets) = IdsOf(doc.sets) \cup {new}
  BY <1>2, <1>4, <1>5, ShapeOf, AppendedIds, Fits
<1>7. PICK candidate : candidate = [doc EXCEPT !.sets = sets]
  OBVIOUS
<1>8. candidate = [profiles |-> doc.profiles, sets |-> sets, active |-> doc.active, keys |-> doc.keys]
  BY <1>2, <1>7, ShapeOf
<1>9. candidate \in Document /\ Below(candidate, new + 1)
  <2>1. candidate \in Document
    BY <1>2, <1>6, <1>8, ShapeOf DEF Document
  <2>2. \A id \in IdsOf(doc.profiles) \cup IdsOf(doc.sets) : id \in Nat /\ id < new
    BY <1>2, IdsTyped DEF Below
  <2>3. \A id \in IdsOf(doc.profiles) \cup IdsOf(doc.sets) \cup {new} : id < new + 1
    BY <1>2, <2>2
  <2> QED BY <1>6, <1>8, <2>1, <2>3 DEF Below
<1>10. /\ Edit(1) /\ Decided(candidate)
       /\ \/ selection' = selection /\ document' = doc
          \/ Show(new) /\ Valid(candidate) /\ document' = candidate
  BY <1>1, <1>3, <1>5, <1>7 DEF AddProfileSet, Update, Decided
<1>11. CASE selection' = selection /\ document' = doc
  <2>1. selection' \in Selections /\ selection'.set \in IdsOf(document'.sets)
    BY <1>1, <1>11 DEF ProfilesInv
  <2>2. SelectionKept
    BY <1>1, <1>11 DEF SelectionKept, SelectedExists
  <2> QED BY <1>1, <1>9, <1>10, <2>1, <2>2, EditKeeps
<1>12. CASE Show(new) /\ Valid(candidate) /\ document' = candidate
  <2>1. new \in IdsOf(candidate.sets) /\ WellFormed(candidate)
    BY <1>6, <1>8, <1>12 DEF Valid
  <2>2. selection' \in Selections /\ selection'.set \in IdsOf(document'.sets) /\ SelectedExists'
    BY <1>9, <1>12, <2>1, ShowKeeps
  <2> QED BY <1>1, <1>9, <1>10, <2>2, EditKeeps DEF SelectionKept
<1> QED BY <1>10, <1>11, <1>12

LEMMA AssignProfileStep ==
  ASSUME ProfilesInv, NEW set \in IdsOf(document.sets), NEW profile \in 1..(fresh - 1), AssignProfile(set, profile)
  PROVE  ProfilesInv' /\ SelectionKept
<1>1. PICK doc : doc = document
  OBVIOUS
<1>2. doc \in Document /\ WellFormed(doc) /\ Below(doc, fresh) /\ fresh + 0 = fresh /\ fresh \in Nat
  BY <1>1, SelectedSetTyped
<1>3. PICK sets : sets = [i \in DOMAIN doc.sets |->
                            IF doc.sets[i].id = set
                            THEN IF profile \in ToSet(doc.sets[i].profiles) THEN doc.sets[i]
                                 ELSE [doc.sets[i] EXCEPT !.profiles = Append(@, profile)]
                            ELSE doc.sets[i]]
  OBVIOUS
<1>4. profile \in Nat \ {None}
  BY <1>2 DEF None
<1>5. \A i \in DOMAIN doc.sets : sets[i] \in AnySet /\ sets[i].id = doc.sets[i].id
  <2> TAKE i \in DOMAIN doc.sets
  <2>1. doc.sets[i] \in AnySet
    BY <1>2, IdsTyped
  <2>2. Append(doc.sets[i].profiles, profile) \in Seq(Nat \ {None})
    <3>1. doc.sets[i].profiles \in Seq(Nat \ {None})
      BY <2>1 DEF AnySet
    <3> QED BY <1>4, <3>1
  <2> QED BY <1>3, <2>1, <2>2 DEF AnySet
<1>6. PICK candidate : candidate = [doc EXCEPT !.sets = sets]
  OBVIOUS
<1>7. candidate \in Document /\ Below(candidate, fresh)
  <2>1. sets = [i \in DOMAIN doc.sets |-> sets[i]]
    BY <1>3
  <2> QED BY <1>2, <1>5, <1>6, <2>1, Regrouped
<1>8. Edit(0) /\ Update(candidate, TRUE) /\ EnsureSelection
  BY <1>1, <1>3, <1>6 DEF AssignProfile, Change
<1> QED BY <1>7, <1>8, EnsuringEdit

LEMMA ConfigureGlobalScriptsStep ==
  ASSUME ProfilesInv, NEW keys \in KeyLists, ConfigureGlobalScripts(keys)
  PROVE  ProfilesInv' /\ SelectionKept
<1>1. PICK doc, candidate : doc = document /\ candidate = [doc EXCEPT !.keys = keys]
  OBVIOUS
<1>2. doc \in Document /\ Below(doc, fresh) /\ keys \in Seq(Hotkeys)
  BY <1>1, SelectedSetTyped, Constants DEF ProfilesAssumption
<1>3. candidate = [profiles |-> doc.profiles, sets |-> doc.sets, active |-> doc.active, keys |-> keys]
  BY <1>1, <1>2, ShapeOf
<1>4. candidate \in Document /\ Below(candidate, fresh)
  BY <1>2, <1>3, ShapeOf DEF Document, Below
<1>5. Edit(0) /\ Update(candidate, TRUE) /\ EnsureSelection
  BY <1>1 DEF ConfigureGlobalScripts
<1> QED BY <1>4, <1>5, EnsuringEdit

LEMMA ConfigureSetScriptsStep ==
  ASSUME ProfilesInv, NEW keys \in KeyLists, ConfigureSetScripts(keys)
  PROVE  ProfilesInv' /\ SelectionKept
<1>1. PICK doc : doc = document
  OBVIOUS
<1>2. doc \in Document /\ Below(doc, fresh) /\ fresh \in Nat /\ keys \in Seq(Hotkeys)
  BY <1>1, SelectedSetTyped, Constants DEF ProfilesAssumption
<1>3. PICK sets : sets = [i \in DOMAIN doc.sets |->
                            IF doc.sets[i].id = selection.set THEN [doc.sets[i] EXCEPT !.keys = keys]
                            ELSE doc.sets[i]]
  OBVIOUS
<1>4. \A i \in DOMAIN doc.sets : sets[i] \in AnySet /\ sets[i].id = doc.sets[i].id
  <2> TAKE i \in DOMAIN doc.sets
  <2>1. doc.sets[i] \in AnySet
    BY <1>2, IdsTyped
  <2> QED BY <1>2, <1>3, <2>1 DEF AnySet
<1>5. PICK candidate : candidate = [doc EXCEPT !.sets = sets]
  OBVIOUS
<1>6. candidate \in Document /\ Below(candidate, fresh)
  <2>1. sets = [i \in DOMAIN doc.sets |-> sets[i]]
    BY <1>3
  <2> QED BY <1>2, <1>4, <1>5, <2>1, Regrouped
<1>7. Edit(0) /\ Update(candidate, TRUE) /\ EnsureSelection
  BY <1>1, <1>3, <1>5 DEF ConfigureSetScripts, Change
<1> QED BY <1>6, <1>7, EnsuringEdit

(* What is left of a set when a profile is taken out of it.                  *)
Reselected(set, ids, removed) ==
  [set EXCEPT !.profiles = ids, !.selected = IF @ = removed THEN ids[1] ELSE @]

LEMMA ReselectedFits ==
  ASSUME NEW set \in AnySet, NEW ids \in Seq(Nat \ {None}), ids # <<>>, IsInjective(ids), NEW kept,
         ToSet(ids) \subseteq kept, NEW removed, ToSet(set.profiles) \ {removed} \subseteq ToSet(ids),
         set.selected \in ToSet(set.profiles) \cup {None}
  PROVE  /\ Reselected(set, ids, removed) \in AnySet /\ Reselected(set, ids, removed).id = set.id
         /\ SetFits(Reselected(set, ids, removed), kept) /\ Reselected(set, ids, removed).keys = set.keys
<1>1. ids[1] \in ToSet(ids) /\ ids[1] \in Nat
  <2>1. 1 \in DOMAIN ids
    OBVIOUS
  <2>2. ids[1] \in Nat \ {None}
    BY <2>1
  <2> QED BY <2>1, <2>2 DEF ToSet
<1>2. set = [id |-> set.id, profiles |-> set.profiles, selected |-> set.selected, keys |-> set.keys] /\ set.selected \in Nat
      /\ set.id \in Nat \ {None} /\ set.keys \in Seq(Hotkeys)
  BY DEF AnySet
<1>3. PICK selected : selected = IF set.selected = removed THEN ids[1] ELSE set.selected
  OBVIOUS
<1>4. selected \in Nat /\ selected \in ToSet(ids) \cup {None}
  BY <1>1, <1>2, <1>3
<1>5. PICK repaired : repaired = Reselected(set, ids, removed)
  OBVIOUS
<1>6. repaired = [id |-> set.id, profiles |-> ids, selected |-> selected, keys |-> set.keys]
  BY <1>2, <1>3, <1>5 DEF Reselected
<1>7. repaired \in AnySet
  BY <1>2, <1>4, <1>6 DEF AnySet
<1>8. SetFits(repaired, kept)
  BY <1>4, <1>6 DEF SetFits
<1>9. repaired.id = set.id /\ repaired.keys = set.keys
  BY <1>6
<1> QED BY <1>5, <1>7, <1>8, <1>9

(* Where the same profile is active and says the same, its keys and those of  *)
(* the scripts that are in force are the same.                               *)
LEMMA KeysStay ==
  ASSUME NEW doc \in Document, WellFormed(doc), NEW left \in Document, WellFormed(left),
         ActiveChoice(left) = ActiveChoice(doc), left.keys = doc.keys,
         WithId(left.sets, left.active).keys = WithId(doc.sets, doc.active).keys,
         \A id \in IdsOf(left.profiles) \cap IdsOf(doc.profiles) : WithId(left.profiles, id) = WithId(doc.profiles, id)
  PROVE  KeysAreDistinct(left) <=> KeysAreDistinct(doc)
<1>1. PICK set, old : set = WithId(left.sets, left.active) /\ old = WithId(doc.sets, doc.active)
  OBVIOUS
<1>2. set.selected = old.selected /\ set.keys = old.keys
  BY <1>1 DEF ActiveChoice
<1>3. SetFits(set, IdsOf(left.profiles)) /\ SetFits(old, IdsOf(doc.profiles))
  <2>1. left.active \in IdsOf(left.sets) /\ doc.active \in IdsOf(doc.sets)
    BY Fits
  <2> QED BY <1>1, <2>1, ShowsOne
<1>4. None \notin IdsOf(left.profiles) /\ None \notin IdsOf(doc.profiles)
  BY IdsTyped
<1>5. KeysOfProfile(left, set.selected) = KeysOfProfile(doc, old.selected)
  <2>1. CASE set.selected = None
    BY <1>2, <1>4, <2>1 DEF KeysOfProfile
  <2>2. CASE set.selected # None
    <3>1. set.selected \in IdsOf(left.profiles) /\ set.selected \in IdsOf(doc.profiles)
      BY <1>2, <1>3, <2>2 DEF SetFits
    <3> QED BY <1>2, <3>1 DEF KeysOfProfile
  <2> QED BY <2>1, <2>2
<1>6. ActiveKeys(left) = ActiveKeys(doc)
  BY <1>1, <1>2, <1>5 DEF ActiveKeys
<1> QED BY <1>6 DEF KeysAreDistinct

LEMMA RestFound ==
  ASSUME NEW items, UniqueIds(items), NEW rest, ToSet(rest) \subseteq ToSet(items), NEW id \in IdsOf(rest)
  PROVE  WithId(rest, id) = WithId(items, id)
<1>1. PICK i \in DOMAIN rest : rest[i].id = id /\ WithId(rest, id) = rest[i]
  BY Found
<1>2. PICK j \in DOMAIN items : items[j] = rest[i]
  BY <1>1 DEF ToSet
<1> QED BY <1>1, <1>2, FoundUnique

(* What a repair leaves: sound, and with distinct keys unless it makes        *)
(* something else active.                                                    *)
LeavesSound(left) ==
  Sound(left, fresh) /\ (ActiveChoice(left) = ActiveChoice(document) => KeysAreDistinct(left))
RefusalExplained(left) == refused' => KeysTakenBy(left)

LEMMA RepairDecided ==
  ASSUME ProfilesInv, Edit(0), NEW left, LeavesSound(left), Update(left, TRUE)
  PROVE  /\ Decided(left) /\ RefusalExplained(left) /\ fresh + 0 = fresh
         /\ left \in Document /\ WellFormed(left) /\ Below(left, fresh)
         /\ (document' = document \/ document' = left)
<1>1. fresh + 0 = fresh
  BY DEF ProfilesInv
<1>2. left \in Document /\ WellFormed(left) /\ FitsLimits(left) /\ Below(left, fresh)
  BY DEF LeavesSound, Sound
<1>3. refused' = ~Valid(left) /\ IF refused' THEN UNCHANGED <<document, toHost>> ELSE document' = left /\ toHost' = left
  BY DEF Update
<1>4. RefusalExplained(left)
  BY <1>2, <1>3 DEF RefusalExplained, KeysTakenBy, LeavesSound, Valid
<1>5. Decided(left) /\ (document' = document \/ document' = left)
  BY <1>3 DEF Decided
<1> QED BY <1>1, <1>2, <1>4, <1>5

LEMMA DeleteSelectedProfileStep ==
  ASSUME ProfilesInv, DeleteSelectedProfile
  PROVE  ProfilesInv' /\ SelectionKept /\ RefusalExplained(ProfileDeleted)
<1>1. PICK doc, removed : doc = document /\ removed = selection.profile
  OBVIOUS
<1>2. doc \in Document /\ WellFormed(doc) /\ FitsLimits(doc) /\ Below(doc, fresh)
      /\ fresh \in Nat \ {None} /\ Len(doc.profiles) > 1
  BY <1>1 DEF ProfilesInv, Good, Sound, Valid, DeleteSelectedProfile
<1>3. PICK profiles : profiles = WithoutId(doc.profiles, removed)
  OBVIOUS
<1>4. /\ profiles \in Seq(AnyProfile) /\ ToSet(profiles) \subseteq ToSet(doc.profiles) /\ UniqueIds(profiles) /\ Len(profiles) <= Len(doc.profiles)
      /\ IdsOf(profiles) = IdsOf(doc.profiles) \ {removed} /\ profiles # <<>>
  BY <1>2, <1>3, RestById, ShapeOf, Fits
<1>5. PICK replacement : replacement = profiles[1].id
  OBVIOUS
<1>6. replacement \in IdsOf(profiles) /\ replacement \in Nat \ {None}
  <2>1. 1 \in DOMAIN profiles
    BY <1>4
  <2>2. replacement \in IdsOf(profiles)
    BY <1>5, <2>1 DEF IdsOf
  <2> QED BY <1>2, <1>4, <2>2, IdsTyped
<1>7. PICK sets :
        sets = [i \in DOMAIN doc.sets |->
                  [doc.sets[i] EXCEPT
                     !.profiles = Refilled(Without(doc.sets[i].profiles, removed), replacement),
                     !.selected = IF @ = removed /\ Refilled(Without(doc.sets[i].profiles, removed), replacement) # <<>>
                                  THEN Refilled(Without(doc.sets[i].profiles, removed), replacement)[1] ELSE @]]
  OBVIOUS
<1>8. \A i \in DOMAIN doc.sets :
        sets[i] \in AnySet /\ sets[i].id = doc.sets[i].id /\ SetFits(sets[i], IdsOf(profiles))
        /\ sets[i].keys = doc.sets[i].keys
  <2> TAKE i \in DOMAIN doc.sets
  <2>1. PICK set : set = doc.sets[i] /\ set \in AnySet /\ SetFits(set, IdsOf(doc.profiles))
    BY <1>2, IdsTyped, Fits
  <2>2. PICK left : left = Without(set.profiles, removed)
    OBVIOUS
  <2>3. left \in Seq(Nat \ {None}) /\ IsInjective(left) /\ ToSet(left) = ToSet(set.profiles) \ {removed}
    <3>1. set.profiles \in Seq(Nat \ {None}) /\ IsInjective(set.profiles)
      BY <2>1 DEF AnySet, SetFits
    <3> QED BY <2>2, <3>1, Rest
  <2>4. PICK ids : ids = Refilled(left, replacement)
    OBVIOUS
  <2>5. /\ ids \in Seq(Nat \ {None}) /\ ids # <<>> /\ IsInjective(ids) /\ ToSet(ids) \subseteq IdsOf(profiles)
        /\ ToSet(set.profiles) \ {removed} \subseteq ToSet(ids)
    <3>1. CASE left = <<>>
      <4>1. ids = <<replacement>>
        BY <2>4, <3>1 DEF Refilled
      <4>2. ToSet(ids) = {replacement} /\ IsInjective(ids) /\ ids \in Seq(Nat \ {None}) /\ ids # <<>>
        BY <1>6, <4>1 DEF ToSet, IsInjective
      <4>3. ToSet(left) = {}
        BY <3>1 DEF ToSet
      <4> QED BY <1>6, <2>3, <4>2, <4>3
    <3>2. CASE left # <<>>
      <4>1. ids = left
        BY <2>4, <3>2 DEF Refilled
      <4> QED BY <1>4, <2>1, <2>3, <3>2, <4>1 DEF SetFits
    <3> QED BY <3>1, <3>2
  <2>6. sets[i] = Reselected(set, ids, removed)
    BY <1>7, <2>1, <2>2, <2>4, <2>5 DEF Reselected
  <2>7. set.selected \in ToSet(set.profiles) \cup {None}
    BY <2>1 DEF SetFits
  <2>8. PICK kept : kept = IdsOf(profiles)
    OBVIOUS
  <2>9. /\ Reselected(set, ids, removed) \in AnySet /\ Reselected(set, ids, removed).id = set.id
        /\ SetFits(Reselected(set, ids, removed), kept) /\ Reselected(set, ids, removed).keys = set.keys
    <3>1. ToSet(ids) \subseteq kept
      BY <2>5, <2>8
    <3> QED BY ONLY <2>1, <2>5, <2>7, <3>1, ReselectedFits
  <2> QED BY <2>1, <2>6, <2>8, <2>9
<1>9. sets \in Seq(AnySet) /\ Len(sets) = Len(doc.sets) /\ IdsOf(sets) = IdsOf(doc.sets) /\ UniqueIds(sets)
      /\ DOMAIN sets = DOMAIN doc.sets
  <2>1. sets = [i \in DOMAIN doc.sets |-> sets[i]]
    BY <1>7
  <2> QED BY <1>2, <1>8, <2>1, SetsChanged, Fits
<1>10. PICK candidate : candidate = [doc EXCEPT !.profiles = profiles, !.sets = sets]
  OBVIOUS
<1>11. candidate = [profiles |-> profiles, sets |-> sets, active |-> doc.active, keys |-> doc.keys]
  <2>1. doc = [profiles |-> doc.profiles, sets |-> doc.sets, active |-> doc.active, keys |-> doc.keys]
    BY <1>2, ShapeOf
  <2> QED BY <1>10, <2>1
<1>12. Sound(candidate, fresh)
  <2>1. candidate \in Document
    BY <1>2, <1>4, <1>9, <1>11, ShapeOf DEF Document
  <2>2. WellFormed(candidate)
    BY <1>2, <1>4, <1>8, <1>9, <1>11, Fits
  <2>3. FitsLimits(candidate)
    <3>1. MaxProfiles \in Nat /\ Len(profiles) \in Nat /\ Len(doc.profiles) \in Nat
      BY <1>2, <1>4, Constants, ShapeOf DEF ProfilesAssumption
    <3> QED BY <1>2, <1>4, <1>9, <1>11, <3>1 DEF FitsLimits
  <2>4. Below(candidate, fresh)
    BY <1>2, <1>4, <1>9, <1>11 DEF Below
  <2> QED BY <2>1, <2>2, <2>3, <2>4 DEF Sound
<1>13. ASSUME ActiveChoice(candidate) = ActiveChoice(doc) PROVE KeysAreDistinct(candidate)
  <2>1. candidate \in Document /\ WellFormed(candidate) /\ KeysAreDistinct(doc)
    BY <1>1, <1>12 DEF Sound, ProfilesInv, Good
  <2>2. WithId(candidate.sets, candidate.active).keys = WithId(doc.sets, doc.active).keys
    <3>1. PICK i \in DOMAIN doc.sets : doc.sets[i].id = doc.active /\ WithId(doc.sets, doc.active) = doc.sets[i]
      BY <1>2, Found, Fits
    <3>2. WithId(sets, doc.active) = sets[i]
      BY <1>8, <1>9, <3>1, FoundUnique
    <3> QED BY <1>8, <1>11, <3>1, <3>2
  <2>3. \A id \in IdsOf(candidate.profiles) : WithId(candidate.profiles, id) = WithId(doc.profiles, id)
    BY <1>2, <1>4, <1>11, RestFound, Fits
  <2>4. candidate.keys = doc.keys
    BY <1>11
  <2> QED BY <1>2, <1>13, <2>1, <2>2, <2>3, <2>4, KeysStay
<1>14. Edit(0) /\ Update(candidate, TRUE) /\ selection' = [selection EXCEPT !.profile = replacement]
       /\ ProfileDeleted = candidate
  BY <1>1, <1>3, <1>5, <1>7, <1>10 DEF DeleteSelectedProfile, ProfileDeleted, Replacement
<1>15. LeavesSound(candidate)
  BY <1>1, <1>12, <1>13 DEF LeavesSound
<1>16. /\ Decided(candidate) /\ RefusalExplained(candidate) /\ (document' = doc \/ document' = candidate)
       /\ candidate \in Document /\ Below(candidate, fresh + 0)
  BY <1>1, <1>14, <1>15, RepairDecided
<1>17. selection' = [set |-> selection.set, profile |-> replacement]
  BY <1>14, SelectedSetTyped
<1>18. selection' \in Selections /\ selection'.set \in IdsOf(document'.sets) /\ SelectedExists'
  BY <1>1, <1>4, <1>6, <1>9, <1>11, <1>16, <1>17, SelectedSetTyped DEF Selections, SelectedExists
<1> QED BY <1>14, <1>16, <1>18, EditKeeps DEF SelectionKept

LEMMA DeleteSelectedProfileSetStep ==
  ASSUME ProfilesInv, DeleteSelectedProfileSet
  PROVE  ProfilesInv' /\ SelectionKept /\ RefusalExplained(SetDeleted)
<1>1. PICK doc, removed : doc = document /\ removed = selection.set
  OBVIOUS
<1>2. doc \in Document /\ WellFormed(doc) /\ FitsLimits(doc) /\ Below(doc, fresh)
      /\ fresh \in Nat \ {None} /\ Len(doc.sets) > 1
  BY <1>1 DEF ProfilesInv, Good, Sound, Valid, DeleteSelectedProfileSet
<1>3. PICK rest : rest = WithoutId(doc.sets, removed)
  OBVIOUS
<1>4. /\ rest \in Seq(AnySet) /\ UniqueIds(rest) /\ Len(rest) <= Len(doc.sets)
      /\ ToSet(rest) = {set \in ToSet(doc.sets) : set.id # removed}
      /\ IdsOf(rest) = IdsOf(doc.sets) \ {removed} /\ rest # <<>>
  BY <1>2, <1>3, RestById, ShapeOf, Fits
<1>5. PICK first : first = rest[1].id
  OBVIOUS
<1>6. first \in IdsOf(rest) /\ first \in Nat \ {None}
  <2>1. 1 \in DOMAIN rest
    BY <1>4
  <2>2. first \in IdsOf(rest)
    BY <1>5, <2>1 DEF IdsOf
  <2> QED BY <1>2, <1>4, <2>2, IdsTyped
<1>7. PICK chosen : chosen = IF doc.active = removed THEN first ELSE doc.active
  OBVIOUS
<1>8. chosen \in IdsOf(rest) /\ chosen \in Nat
  BY <1>2, <1>4, <1>6, <1>7, Fits, ShapeOf
<1>9. PICK candidate :
        candidate = [doc EXCEPT !.sets = rest, !.active = IF @ = removed THEN first ELSE @]
  OBVIOUS
<1>10. candidate = [profiles |-> doc.profiles, sets |-> rest, active |-> chosen, keys |-> doc.keys]
  <2>1. doc = [profiles |-> doc.profiles, sets |-> doc.sets, active |-> doc.active, keys |-> doc.keys]
    BY <1>2, ShapeOf
  <2> QED BY <1>7, <1>9, <2>1
<1>11. Sound(candidate, fresh)
  <2>1. candidate \in Document
    BY <1>2, <1>4, <1>8, <1>10, ShapeOf DEF Document
  <2>2. \A i \in DOMAIN rest : SetFits(rest[i], IdsOf(doc.profiles))
    <3> TAKE i \in DOMAIN rest
    <3>1. rest[i] \in ToSet(doc.sets)
      BY <1>4 DEF ToSet
    <3> QED BY <1>2, <3>1, Fits DEF ToSet
  <2>3. WellFormed(candidate)
    BY <1>2, <1>4, <1>8, <1>10, <2>2, Fits
  <2>4. FitsLimits(candidate)
    <3>1. MaxSets \in Nat /\ Len(rest) \in Nat /\ Len(doc.sets) \in Nat
      BY <1>2, <1>4, Constants, ShapeOf DEF ProfilesAssumption
    <3> QED BY <1>2, <1>4, <1>10, <3>1 DEF FitsLimits
  <2>5. Below(candidate, fresh)
    BY <1>2, <1>4, <1>10 DEF Below
  <2> QED BY <2>1, <2>3, <2>4, <2>5 DEF Sound
<1>12. ASSUME ActiveChoice(candidate) = ActiveChoice(doc) PROVE KeysAreDistinct(candidate)
  <2>1. candidate \in Document /\ WellFormed(candidate) /\ KeysAreDistinct(doc)
    BY <1>1, <1>11 DEF Sound, ProfilesInv, Good
  <2>2. candidate.active = doc.active /\ candidate.active \in IdsOf(rest) /\ UniqueIds(doc.sets)
    BY <1>2, <1>8, <1>10, <1>12, Fits DEF ActiveChoice
  <2>3. WithId(candidate.sets, candidate.active) = WithId(doc.sets, doc.active)
    <3>1. ToSet(rest) \subseteq ToSet(doc.sets)
      BY <1>4
    <3>2. WithId(rest, candidate.active) = WithId(doc.sets, candidate.active)
      BY <2>2, <3>1, RestFound
    <3> QED BY <1>10, <2>2, <3>2
  <2>4. candidate.keys = doc.keys /\ candidate.profiles = doc.profiles
    BY <1>10
  <2> QED BY <1>2, <1>12, <2>1, <2>3, <2>4, KeysStay
<1>13. Edit(0) /\ Update(candidate, TRUE) /\ Show(first) /\ SetDeleted = candidate
  BY <1>1, <1>3, <1>5, <1>9 DEF DeleteSelectedProfileSet, SetDeleted, OtherSets
<1>14. LeavesSound(candidate)
  BY <1>1, <1>11, <1>12 DEF LeavesSound
<1>15. /\ Decided(candidate) /\ RefusalExplained(candidate)
       /\ candidate \in Document /\ WellFormed(candidate) /\ Below(candidate, fresh + 0)
  BY <1>13, <1>14, RepairDecided
<1>16. PICK after \in {doc, candidate} : after = document' /\ after \in Document /\ WellFormed(after)
  BY <1>1, <1>2, <1>13, <1>14, RepairDecided
<1>17. first \in IdsOf(after.sets)
  BY <1>4, <1>6, <1>10
<1>18. selection' \in Selections /\ selection'.set \in IdsOf(document'.sets) /\ SelectedExists'
  BY <1>13, <1>16, <1>17, ShowKeeps
<1> QED BY <1>13, <1>15, <1>18, EditKeeps DEF SelectionKept

LEMMA RemoveProfileFromSelectedSetStep ==
  ASSUME ProfilesInv, RemoveProfileFromSelectedSet
  PROVE  ProfilesInv' /\ SelectionKept /\ RefusalExplained(ProfileUnassigned)
<1>1. PICK doc, chosen, removed : doc = document /\ chosen = selection.set /\ removed = selection.profile
  OBVIOUS
<1>2. Good(doc, fresh) /\ doc \in Document /\ WellFormed(doc) /\ fresh \in Nat
  BY <1>1 DEF ProfilesInv, Good, Sound, Valid
<1>3. PICK sets :
        sets = [i \in DOMAIN doc.sets |->
                  IF doc.sets[i].id = chosen
                  THEN [doc.sets[i] EXCEPT !.profiles = Without(doc.sets[i].profiles, removed),
                                           !.selected = IF @ = removed
                                                        THEN Without(doc.sets[i].profiles, removed)[1] ELSE @]
                  ELSE doc.sets[i]]
  OBVIOUS
<1>4. \A i \in DOMAIN doc.sets :
        sets[i] \in AnySet /\ sets[i].id = doc.sets[i].id /\ SetFits(sets[i], IdsOf(doc.profiles))
        /\ sets[i].keys = doc.sets[i].keys
  <2> TAKE i \in DOMAIN doc.sets
  <2>1. PICK set : set = doc.sets[i] /\ set \in AnySet /\ SetFits(set, IdsOf(doc.profiles))
    BY <1>2, IdsTyped, Fits
  <2>2. CASE set.id # chosen
    BY <1>3, <2>1, <2>2
  <2>3. CASE set.id = chosen
    <3>1. Len(set.profiles) > 1
      <4>1. UniqueIds(doc.sets)
        BY <1>2, Fits
      <4>2. WithId(doc.sets, chosen) = set
        BY <2>1, <2>3, <4>1, FoundUnique
      <4> QED BY <1>1, <4>2 DEF RemoveProfileFromSelectedSet, SelectedSet
    <3>2. PICK ids : ids = Without(set.profiles, removed)
      OBVIOUS
    <3>3. /\ ids \in Seq(Nat \ {None}) /\ ids # <<>> /\ IsInjective(ids)
          /\ ToSet(ids) = ToSet(set.profiles) \ {removed}
      <4>1. set.profiles \in Seq(Nat \ {None}) /\ IsInjective(set.profiles)
        BY <2>1 DEF AnySet, SetFits
      <4> QED BY <3>1, <3>2, <4>1, Rest
    <3>4. ToSet(ids) \subseteq IdsOf(doc.profiles) /\ set.selected \in ToSet(set.profiles) \cup {None}
      BY <2>1, <3>3 DEF SetFits
    <3>5. sets[i] = Reselected(set, ids, removed)
      BY <1>3, <2>1, <2>3, <3>2 DEF Reselected
    <3>6. /\ Reselected(set, ids, removed) \in AnySet /\ Reselected(set, ids, removed).id = set.id
          /\ SetFits(Reselected(set, ids, removed), IdsOf(doc.profiles))
          /\ Reselected(set, ids, removed).keys = set.keys
      <4>1. ToSet(set.profiles) \ {removed} \subseteq ToSet(ids)
        BY <3>3
      <4>2. PICK kept : kept = IdsOf(doc.profiles)
        OBVIOUS
      <4>3. ToSet(ids) \subseteq kept
        BY <3>4, <4>2
      <4>4. /\ Reselected(set, ids, removed) \in AnySet /\ Reselected(set, ids, removed).id = set.id
            /\ SetFits(Reselected(set, ids, removed), kept) /\ Reselected(set, ids, removed).keys = set.keys
        <5>1. /\ ids \in Seq(Nat \ {None}) /\ ids # <<>> /\ IsInjective(ids)
              /\ set.selected \in ToSet(set.profiles) \cup {None}
          BY <3>3, <3>4
        <5>2. set \in AnySet
          BY <2>1
        <5> QED BY ONLY <5>1, <5>2, <4>1, <4>3, ReselectedFits
      <4> QED BY <4>2, <4>4
    <3> QED BY <2>1, <3>5, <3>6
  <2> QED BY <2>2, <2>3
<1>5. PICK candidate : candidate = [doc EXCEPT !.sets = sets]
  OBVIOUS
<1>6. sets = [i \in DOMAIN doc.sets |-> sets[i]]
  BY <1>3
<1>7. Sound(candidate, fresh)
  BY <1>2, <1>4, <1>5, <1>6, SetsKept DEF Good
<1>8. ASSUME ActiveChoice(candidate) = ActiveChoice(doc) PROVE KeysAreDistinct(candidate)
  <2>1. candidate \in Document /\ WellFormed(candidate) /\ KeysAreDistinct(doc)
    BY <1>2, <1>7 DEF Sound, Good
  <2>2. candidate = [profiles |-> doc.profiles, sets |-> sets, active |-> doc.active, keys |-> doc.keys]
    BY <1>2, <1>5, ShapeOf
  <2>3. WithId(candidate.sets, candidate.active).keys = WithId(doc.sets, doc.active).keys
    <3>1. PICK i \in DOMAIN doc.sets : doc.sets[i].id = doc.active /\ WithId(doc.sets, doc.active) = doc.sets[i]
      BY <1>2, Found, Fits
    <3>2. UniqueIds(sets) /\ DOMAIN sets = DOMAIN doc.sets
      BY <1>6, <2>1, <2>2, Fits
    <3>3. WithId(sets, doc.active) = sets[i]
      BY <1>4, <3>1, <3>2, FoundUnique
    <3> QED BY <1>4, <2>2, <3>1, <3>3
  <2>4. candidate.keys = doc.keys /\ candidate.profiles = doc.profiles
    BY <2>2
  <2> QED BY <1>2, <1>8, <2>1, <2>3, <2>4, KeysStay
<1>9. Edit(0) /\ Update(candidate, TRUE) /\ EnsureSelection /\ ProfileUnassigned = candidate
  BY <1>1, <1>3, <1>5 DEF RemoveProfileFromSelectedSet, ProfileUnassigned, Change
<1>10. LeavesSound(candidate)
  BY <1>1, <1>7, <1>8 DEF LeavesSound
<1>11. RefusalExplained(candidate) /\ candidate \in Document /\ Below(candidate, fresh)
  BY <1>9, <1>10, RepairDecided
<1> QED BY <1>9, <1>11, EnsuringEdit

LEMMA PackagesSound ==
  ASSUME ProfilesInv, NEW package \in Packages
  PROVE  Sound(package, fresh)
<1>1. Sound(package, FirstId) /\ FirstId \in Nat
  BY Constants DEF ProfilesAssumption
<1>2. fresh \in Nat /\ FirstId <= fresh
  BY DEF ProfilesInv
<1> QED BY <1>1, <1>2, SoundLater

LEMMA PreviewImportStep ==
  ASSUME ProfilesInv, NEW package \in Packages, PreviewImport(package)
  PROVE  ProfilesInv' /\ SelectionKept
<1>1. PICK next, merged : next = Merge(package).next /\ merged = Merged(package)
  OBVIOUS
<1>2. /\ fresh \in Nat \ {None} /\ FirstId <= fresh /\ Good(document, fresh) /\ Good(accepted, fresh)
      /\ Good(host, fresh) /\ Held(toHost) /\ Held(toUi)
      /\ selection \in Selections /\ selection.set \in IdsOf(document.sets)
  BY DEF ProfilesInv
<1>3. next \in Nat \ {None} /\ fresh <= next /\ merged \in Document /\ Below(merged, next)
  BY <1>1, <1>2, PackagesSound, MergedSound DEF Good
<1>4. /\ fresh' = next /\ preview' \in {NoDocument} \cup {doc \in {merged} : Valid(doc)}
      /\ UNCHANGED <<workspaceVars, linkVars>>
  BY <1>1 DEF PreviewImport
<1>5. UNCHANGED <<document, selection, accepted, toHost, toUi, host>>
  BY <1>4 DEF workspaceVars, linkVars
<1>6. \A doc : Good(doc, fresh) => Good(doc, next)
  BY <1>2, <1>3, Later
<1>7. preview' = NoDocument \/ Good(preview', next)
  BY <1>3, <1>4 DEF Good, Sound, Valid
<1>8. FirstId <= next
  BY <1>2, <1>3, Constants DEF ProfilesAssumption
<1>9. /\ Good(accepted', next) /\ Good(host', next) /\ Good(document', next)
      /\ toHost' = NoDocument \/ Good(toHost', next)
      /\ toUi' = NoDocument \/ Good(toUi', next)
  BY <1>2, <1>5, <1>6 DEF Held
<1>10. ProfilesInv'
  BY <1>2, <1>3, <1>4, <1>5, <1>7, <1>8, <1>9 DEF ProfilesInv, Held
<1>11. SelectionKept
  BY <1>5 DEF SelectionKept, SelectedExists
<1> QED BY <1>10, <1>11

LEMMA ConfirmImportStep ==
  ASSUME ProfilesInv, ConfirmImport
  PROVE  ProfilesInv' /\ SelectionKept
<1>1. PICK doc : doc = preview
  OBVIOUS
<1>2. Good(doc, fresh) /\ doc \in Document /\ WellFormed(doc) /\ Valid(doc)
  BY <1>1 DEF ConfirmImport, ProfilesInv, Held, Good, Sound, Valid
<1>3. document' = doc /\ toHost' = doc /\ ~refused' /\ selection' = Ensured(doc, selection)
  BY <1>1, <1>2 DEF ConfirmImport, Update, EnsureSelection
<1>4. selection' \in Selections /\ selection'.set \in IdsOf(document'.sets) /\ SelectedExists'
  BY <1>2, <1>3, EnsuredKeeps
<1>5. preview' = NoDocument /\ UNCHANGED <<accepted, toUi, host, fresh>>
  BY <1>3 DEF ConfirmImport
<1> QED BY <1>2, <1>3, <1>4, <1>5 DEF ProfilesInv, Held, SelectionKept

LEMMA CancelImportStep ==
  ASSUME ProfilesInv, CancelImport
  PROVE  ProfilesInv' /\ SelectionKept
<1>1. preview' = NoDocument /\ UNCHANGED <<document, selection, accepted, toHost, toUi, host, fresh>>
  BY DEF CancelImport, workspaceVars, linkVars
<1> QED BY <1>1 DEF ProfilesInv, Held, SelectionKept, SelectedExists

LEMMA ApplyScriptCommandsStep ==
  ASSUME ProfilesInv, NEW commands \in Commands, ApplyScriptCommands(commands)
  PROVE  ProfilesInv' /\ SelectionKept
<1>1. PICK candidate : candidate = Commanded(host, commands)
  OBVIOUS
<1>2. candidate # NoDocument /\ HostMayRun(candidate) /\ host' = candidate /\ toUi' = candidate
      /\ UNCHANGED <<document, selection, accepted, toHost, preview, fresh>>
  BY <1>1 DEF ApplyScriptCommands, workspaceVars
<1>3. Sound(candidate, fresh)
  <2>1. commands \in Seq(Command)
    BY Constants DEF ProfilesAssumption
  <2>2. fresh \in Nat /\ Sound(host, fresh)
    BY DEF ProfilesInv, Good
  <2> QED BY <1>1, <1>2, <2>1, <2>2, CommandsKeep
<1>4. Good(candidate, fresh)
  BY <1>2, <1>3 DEF Good, HostMayRun
<1> QED BY <1>2, <1>4 DEF ProfilesInv, Held, SelectionKept, SelectedExists

LEMMA HostAnswersStep ==
  ASSUME ProfilesInv, NEW accepts \in BOOLEAN, HostAnswers(accepts)
  PROVE  ProfilesInv' /\ SelectionKept
<1>1. Good(toHost, fresh) /\ toHost' = NoDocument /\ UNCHANGED <<toUi, preview, fresh>>
  BY DEF ProfilesInv, HostAnswers, Held
<1>2. CASE UNCHANGED <<document, selection>>
  <2>1. /\ host' = host \/ host' = toHost
        /\ accepted' = accepted \/ accepted' = toHost
    BY DEF HostAnswers
  <2> QED BY <1>1, <1>2, <2>1 DEF ProfilesInv, Held, SelectionKept, SelectedExists
<1>3. CASE ~(UNCHANGED <<document, selection>>)
  <2>1. PICK doc : doc = accepted
    OBVIOUS
  <2>2. document' = doc /\ selection' = Ensured(doc, selection) /\ UNCHANGED <<host, accepted>>
    BY <1>3, <2>1 DEF HostAnswers
  <2>3. Good(doc, fresh) /\ doc \in Document /\ WellFormed(doc)
    BY <2>1 DEF ProfilesInv, Good, Sound, Valid
  <2>4. selection' \in Selections /\ selection'.set \in IdsOf(document'.sets) /\ SelectedExists'
    BY <2>2, <2>3, EnsuredKeeps
  <2> QED BY <1>1, <2>2, <2>3, <2>4 DEF ProfilesInv, Held, SelectionKept
<1> QED BY <1>2, <1>3

LEMMA HostStateChangedStep ==
  ASSUME ProfilesInv, HostStateChanged
  PROVE  ProfilesInv' /\ SelectionKept
<1>1. PICK doc : doc = toUi
  OBVIOUS
<1>2. Good(doc, fresh) /\ doc \in Document /\ WellFormed(doc) /\ Valid(doc)
  BY <1>1 DEF HostStateChanged, ProfilesInv, Held, Good, Sound, Valid
<1>3. /\ document' = doc /\ accepted' = doc /\ selection' = Ensured(doc, selection) /\ toUi' = NoDocument
      /\ UNCHANGED <<toHost, host, preview, fresh>>
  BY <1>1, <1>2 DEF HostStateChanged
<1>4. selection' \in Selections /\ selection'.set \in IdsOf(document'.sets) /\ SelectedExists'
  BY <1>2, <1>3, EnsuredKeeps
<1> QED BY <1>2, <1>3, <1>4 DEF ProfilesInv, Held, SelectionKept

LEMMA ProfilesStutter ==
  ASSUME ProfilesInv, UNCHANGED profilesVars
  PROVE  ProfilesInv' /\ SelectionKept
<1>1. UNCHANGED <<document, selection, accepted, toHost, toUi, host, fresh, preview>>
  BY DEF profilesVars, workspaceVars, linkVars
<1> QED BY <1>1 DEF ProfilesInv, Held, SelectionKept, SelectedExists

LEMMA RepairsStep ==
  ASSUME ProfilesInv, Repairs
  PROVE  ProfilesInv' /\ SelectionKept
  BY DeleteSelectedProfileStep, DeleteSelectedProfileSetStep, RemoveProfileFromSelectedSetStep DEF Repairs

LEMMA UserEditsStep ==
  ASSUME ProfilesInv, UserEdits
  PROVE  ProfilesInv' /\ SelectionKept
<1>1. CASE \E id \in IdsOf(document.sets) : SelectProfileSet(id)
  BY <1>1, SelectProfileSetStep
<1>2. CASE \E id \in IdsOf(document.profiles) : SelectProfile(id)
  BY <1>2, SelectProfileStep
<1>3. CASE ActivateProfileSet
  BY <1>3, ActivateProfileSetStep
<1>4. CASE \E content \in Contents : UpdateSelectedProfile(content)
  BY <1>4, UpdateSelectedProfileStep
<1>5. CASE \E nameFits \in BOOLEAN : AddProfile(nameFits)
  BY <1>5, AddProfileStep
<1>6. CASE AddProfileSet
  BY <1>6, AddProfileSetStep
<1>7. CASE \E set \in IdsOf(document.sets) : \E id \in 1..fresh - 1 : AssignProfile(set, id)
  BY <1>7, AssignProfileStep
<1>8. CASE Repairs
  BY <1>8, RepairsStep
<1>9. CASE \E keys \in KeyLists : ConfigureGlobalScripts(keys) \/ ConfigureSetScripts(keys)
  BY <1>9, ConfigureGlobalScriptsStep, ConfigureSetScriptsStep
<1> QED BY <1>1, <1>2, <1>3, <1>4, <1>5, <1>6, <1>7, <1>8, <1>9 DEF UserEdits

LEMMA ProfilesStep ==
  ASSUME ProfilesInv, [ProfilesNext]_profilesVars
  PROVE  ProfilesInv' /\ SelectionKept
<1>1. CASE Imports
  <2>1. CASE \E package \in Packages : PreviewImport(package)
    BY <2>1, PreviewImportStep
  <2>2. CASE ConfirmImport
    BY <2>2, ConfirmImportStep
  <2>3. CASE CancelImport
    BY <2>3, CancelImportStep
  <2> QED BY <1>1, <2>1, <2>2, <2>3 DEF Imports
<1>2. CASE HostSteps
  <2>1. CASE \E commands \in Commands : ApplyScriptCommands(commands)
    BY <2>1, ApplyScriptCommandsStep
  <2>2. CASE \E accepts \in BOOLEAN : HostAnswers(accepts)
    BY <2>2, HostAnswersStep
  <2> QED BY <1>2, <2>1, <2>2 DEF HostSteps
<1>3. CASE UserEdits
  BY <1>3, UserEditsStep
<1>4. CASE HostStateChanged
  BY <1>4, HostStateChangedStep
<1>5. CASE UNCHANGED profilesVars
  BY <1>5, ProfilesStutter
<1> QED BY <1>1, <1>2, <1>3, <1>4, <1>5 DEF ProfilesNext

LEMMA ProfilesInitially ==
  ASSUME ProfilesInit
  PROVE  ProfilesInv
<1>1. PICK doc : doc = document
  OBVIOUS
<1>2. /\ doc \in InitialDocuments /\ accepted = doc /\ host = doc /\ fresh = FirstId
      /\ preview = NoDocument /\ toHost = NoDocument /\ toUi = NoDocument
      /\ selection = [set |-> doc.active, profile |-> ProfileToShow(WithId(doc.sets, doc.active))]
  BY <1>1 DEF ProfilesInit
<1>3. Good(doc, FirstId) /\ FirstId \in Nat \ {None} /\ doc \in Document /\ WellFormed(doc)
  BY <1>2, Constants DEF ProfilesAssumption, Good, Sound, Valid
<1>4. doc.active \in IdsOf(doc.sets)
  BY <1>3, Fits
<1>5. ProfileToShow(WithId(doc.sets, doc.active)) \in IdsOf(doc.profiles)
  BY <1>3, <1>4, ShowsOne
<1>6. selection \in Selections /\ selection.set \in IdsOf(doc.sets)
  BY <1>2, <1>3, <1>4, <1>5, IdsTyped DEF Selections
<1> QED BY <1>1, <1>2, <1>3, <1>6 DEF ProfilesInv, Held

(* Whatever the user, the packages, the scripts and the Host do, every        *)
(* document that is kept or under way is one ConfigurationValidator takes,   *)
(* no identifier in it is made a second time, and the selected set exists.   *)
THEOREM ProfilesInvariance == ProfilesSpec => []ProfilesInv
<1>1. ProfilesInit => ProfilesInv
  BY ProfilesInitially
<1>2. ProfilesInv /\ [ProfilesNext]_profilesVars => ProfilesInv'
  BY ProfilesStep
<1> QED BY <1>1, <1>2, PTL DEF ProfilesSpec

(* No list of switches, also of identifiers that are long gone, makes the     *)
(* Host publish a document the user interface refuses                        *)
(* (apply_script_commands, OnHostStateChanged).                               *)
THEOREM SwitchesAreTaken == ProfilesSpec => []CommandsKeepDocument
<1>1. ProfilesInv => CommandsKeepDocument
  BY DEF ProfilesInv, Held, Good, Sound, Valid, CommandsKeepDocument
<1> QED BY <1>1, ProfilesInvariance, PTL

LEMMA MergeKeeps ==
  ASSUME ProfilesInv
  PROVE  MergeKeepsBoth
<1> SUFFICES ASSUME NEW package \in Packages
             PROVE  /\ WellFormed(Merged(package)) /\ KeysAreDistinct(Merged(package))
                    /\ IsPrefix(document.profiles, Merged(package).profiles)
                    /\ IsPrefix(document.sets, Merged(package).sets)
                    /\ \A set \in ToSet(package.sets) : \E copy \in ToSet(Merged(package).sets) :
                         Shown(Merged(package).profiles, copy) = Shown(package.profiles, set)
  BY DEF MergeKeepsBoth
<1>1. Sound(document, fresh) /\ fresh \in Nat \ {None} /\ Sound(package, fresh)
  BY PackagesSound DEF ProfilesInv, Good
<1>2. PICK merged : merged = Merged(package)
  OBVIOUS
<1>3. /\ merged \in Document /\ WellFormed(merged)
      /\ Extends(document.profiles, merged.profiles) /\ Extends(document.sets, merged.sets)
  BY <1>1, <1>2, MergedSound
<1>4. document.profiles \in Seq(AnyProfile) /\ document.sets \in Seq(AnySet)
      /\ merged.profiles \in Seq(AnyProfile) /\ merged.sets \in Seq(AnySet)
  BY <1>1, <1>3, ShapeOf DEF Good, Sound, Valid
<1>5. IsPrefix(document.profiles, merged.profiles) /\ IsPrefix(document.sets, merged.sets)
  BY <1>3, <1>4, IsPrefixOf
<1>6. \A set \in ToSet(package.sets) : \E copy \in ToSet(merged.sets) :
         Shown(merged.profiles, copy) = Shown(package.profiles, set)
  <2> TAKE set \in ToSet(package.sets)
  <2>1. PICK n \in DOMAIN package.sets : set = package.sets[n]
    BY DEF ToSet
  <2>2. \E copy \in ToSet(Merged(package).sets) :
          Shown(Merged(package).profiles, copy) = Shown(package.profiles, package.sets[n])
    BY <1>1, CopyShown
  <2> QED BY <1>2, <2>1, <2>2
<1>7. KeysAreDistinct(merged)
  <2>1. document \in Document /\ WellFormed(document) /\ KeysAreDistinct(document)
    BY DEF ProfilesInv, Good, Sound
  <2>2. PICK doc : doc = document
    OBVIOUS
  <2>3. merged.active = doc.active /\ merged.keys = doc.keys
    BY <1>2, <2>1, <2>2, MergedShape
  <2>4. UniqueIds(merged.profiles) /\ UniqueIds(merged.sets) /\ doc.active \in IdsOf(doc.sets)
    BY <1>3, <2>1, <2>2, Fits
  <2>5. WithId(merged.sets, merged.active) = WithId(doc.sets, doc.active)
    BY <1>3, <2>2, <2>3, <2>4, StillFound
  <2>6. \A id \in IdsOf(doc.profiles) : WithId(merged.profiles, id) = WithId(doc.profiles, id)
    BY <1>3, <2>2, <2>4, StillFound
  <2>7. ActiveChoice(merged) = ActiveChoice(doc)
    BY <2>3, <2>5 DEF ActiveChoice
  <2> QED BY <1>3, <2>1, <2>2, <2>3, <2>5, <2>6, <2>7, KeysStay
<1> QED BY <1>2, <1>3, <1>5, <1>6, <1>7

(* ConfigurationMerger.Merge keeps what was there, and each set of the        *)
(* package with the profiles it had, whatever identifiers were taken.        *)
THEOREM ImportsKeepBoth == ProfilesSpec => []MergeKeepsBoth
  BY MergeKeeps, ProfilesInvariance, PTL

(* DeleteSelectedProfile, DeleteSelectedProfileSet and                        *)
(* RemoveProfileFromSelectedSet repair every document: the validator refuses *)
(* what is left only where another profile or set has become active and its  *)
(* keys are taken.                                                           *)
THEOREM RepairsRefusedOnlyForKeys == ProfilesSpec => RepairsRefusedForKeysOnly
<1>1. ProfilesInv => (DeleteSelectedProfile => RefusalExplained(ProfileDeleted))
  BY DeleteSelectedProfileStep
<1>2. ProfilesInv => (DeleteSelectedProfileSet => RefusalExplained(SetDeleted))
  BY DeleteSelectedProfileSetStep
<1>3. ProfilesInv => (RemoveProfileFromSelectedSet => RefusalExplained(ProfileUnassigned))
  BY RemoveProfileFromSelectedSetStep
<1> QED BY <1>1, <1>2, <1>3, ProfilesInvariance, PTL DEF RepairsRefusedForKeysOnly, RefusalExplained

(* The selection is lost to a refused addition of a profile and to nothing    *)
(* else: every other edit, import, answer or switch leaves a profile to show.*)
THEOREM SelectionLostOnlyByRefusal == ProfilesSpec => SelectionLostByRefusedAddition
<1>1. ProfilesInv /\ [ProfilesNext]_profilesVars => SelectionKept
  BY ProfilesStep
<1> QED BY <1>1, ProfilesInvariance, PTL DEF SelectionLostByRefusedAddition, SelectionKept, ProfilesSpec
=============================================================================
