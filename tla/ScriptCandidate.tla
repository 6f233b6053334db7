-------------------------- MODULE ScriptCandidate --------------------------
(***************************************************************************)
(* What script_coordinator.cpp makes of a configuration: the answer to      *)
(* "validate this source", and the candidate runtime of a whole document.   *)
(* A stored script is                                                       *)
(*   [id, enabled, api, source, hash, bindings, settings, layout],          *)
(* its bindings [title, pressed, released, enabled, key] and its settings   *)
(* [title, type, value, options, low, high] being functions of their        *)
(* identifiers: the validator of the user interface lets no identifier in   *)
(* twice.  A document is a stack of scripts for each target and, for each   *)
(* profile, whether Lua controls it.                                        *)
(***************************************************************************)
EXTENDS ScriptDeclarations

CONSTANTS
  Sources,                      \* the texts of scripts
  Descriptor,                   \* what running each one returns; not a table when it fails
  BadStart,                     \* sources whose on_start fails or asks to switch
  Profiles                      \* the profiles of the one profile set
ASSUME CandidateAssumption == BadStart \subseteq Sources /\ Profiles \cap {"set", "global"} = {}

Targets == Profiles \cup {"set", "global"}

(* LuaScript::LuaScript, for a text: what it declares if its descriptor is   *)
(* taken, and whether the values stored with it fit.                        *)
Declarations ==
  [source \in {s \in DOMAIN Descriptor : ValidDescriptor(Descriptor[s])} |-> DeclarationsOf(Descriptor[source])]
Loads(source, values) ==
  source \in DOMAIN Declarations /\ MergeAccepts(Descriptor[source], Declarations[source].settings, values)

(* SHA-256, taken to be without collisions.                                 *)
Hash(source) == [hashOf |-> source]

(* Modifiers are written in one order, and read back in any, each once.     *)
ModifiersName(modifiers) ==
  SelectSeq(<<"ctrl", "alt", "shift", "win">>, LAMBDA name : name \in modifiers)
ValidModifiersName(names) ==
  /\ \A i \in DOMAIN names : names[i] \in Modifiers
  /\ \A i, j \in DOMAIN names : names[i] = names[j] => i = j
KeyJson(key) == [key EXCEPT !.modifiers = ModifiersName(@)]
NoKeyJson == KeyJson(NoKey)

ParsesKey(key) ==
  /\ key.device \in {"keyboard", "mouse"}
  /\ ValidModifiersName(key.modifiers)
ParseKey(key) == [key EXCEPT !.modifiers = {key.modifiers[i] : i \in DOMAIN key.modifiers}]

ValuesOf(settings) == [id \in DOMAIN settings |-> settings[id].value]

-----------------------------------------------------------------------------
(* validate_request_json: the source is loaded with the values, never       *)
(* started, and its declarations are sent back.                             *)

RequestAccepted(source, values) == Loads(source, values)
DeclarationsJson(source) ==
  LET declared == Declarations[source]
  IN [declared EXCEPT !.bindings =
       [id \in DOMAIN declared.bindings |-> [declared.bindings[id] EXCEPT !.key = KeyJson(@)]]]

-----------------------------------------------------------------------------
(* parse_script and load_script.                                            *)

(* The bindings of the input thread: enabled slots that have a key.         *)
Bound(script) ==
  {id \in DOMAIN script.bindings : script.bindings[id].enabled /\ script.bindings[id].key # NoKeyJson}
InputBindings(script, scope) ==
  {[key |-> ParseKey(script.bindings[id].key), scope |-> scope, script |-> script.id, binding |-> id,
    pressed |-> script.bindings[id].pressed, released |-> script.bindings[id].released]
   : id \in Bound(script)}
ScriptParses(script) ==
  /\ script.api \in ApiVersions
  /\ script.hash = Hash(script.source)
  /\ \A id \in Bound(script) : ParsesKey(script.bindings[id].key)

(* The stored declarations are those of the source, whatever the user has   *)
(* chosen: values, keys and what is enabled are his.                        *)
BindingMatches(stored, actual) ==
  stored.title = actual.title /\ stored.pressed = actual.pressed /\ stored.released = actual.released
SettingMatches(stored, actual) ==
  /\ stored.title = actual.title /\ stored.type = actual.type /\ stored.options = actual.options
  /\ stored.low = actual.low /\ stored.high = actual.high
DeclarationsMatch(script, actual) ==
  /\ script.api = actual.api /\ script.layout = actual.layout
  /\ Cardinality(DOMAIN script.bindings) = Cardinality(DOMAIN actual.bindings)
  /\ Cardinality(DOMAIN script.settings) = Cardinality(DOMAIN actual.settings)
  /\ \A id \in DOMAIN script.bindings :
       id \in DOMAIN actual.bindings /\ BindingMatches(script.bindings[id], actual.bindings[id])
  /\ \A id \in DOMAIN script.settings :
       id \in DOMAIN actual.settings /\ SettingMatches(script.settings[id], actual.settings[id])

ScriptLoads(script) ==
  /\ ScriptParses(script)
  /\ Loads(script.source, ValuesOf(script.settings))
  /\ DeclarationsMatch(script, Declarations[script.source])
StartsQuietly(script) == script.source \notin BadStart

-----------------------------------------------------------------------------
(* parse_candidate: the stacks of the active configuration; disabled        *)
(* scripts are left out, and one script that does not load leaves no        *)
(* candidate at all, so that their order does not show.                     *)

EnabledIn(stack) == {i \in DOMAIN stack : stack[i].enabled}
ActiveTargets(profile, lua) == IF lua THEN {"global", "set", profile} ELSE {"global", "set"}
CandidateInputs(scripts, profile, lua) ==
  UNION {UNION {InputBindings(scripts[target][i], target) : i \in EnabledIn(scripts[target])}
         : target \in ActiveTargets(profile, lua)}
CandidateAccepted(scripts, profile, lua) ==
  /\ \A target \in ActiveTargets(profile, lua) : \A i \in EnabledIn(scripts[target]) :
       ScriptLoads(scripts[target][i])
  /\ lua => EnabledIn(scripts[profile]) # {}
=============================================================================
