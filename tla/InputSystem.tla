----------------------------- MODULE InputSystem -----------------------------
(***************************************************************************)
(* The Host's input thread (input_system.cpp): keys arrive as Raw Input, as *)
(* messages the low-level hooks post, as WM_HOTKEY and from a polling       *)
(* timer; InputTransitionMerger joins them into one state per key, which    *)
(* drives the two logical switches (HotkeyStateMachine) and the scripts'    *)
(* bindings (ScriptInputStateMachine); ApplySnapshot replaces the bindings  *)
(* between two messages.                                                    *)
(*                                                                         *)
(* The thread takes posted messages before Raw Input and Raw Input before   *)
(* timers, as GetMessage does.  The hooks run in the same thread, before    *)
(* the system produces the Raw Input of the event they saw.  A poll works   *)
(* on the samples it took at its start, one per step; keys move between     *)
(* two messages, which is when their effects can first be noticed.          *)
(***************************************************************************)
EXTENDS Integers, Sequences, FiniteSets

CONSTANTS Keys, Mice,           \* physical keys; those that are mouse buttons
          Masks,                \* modifier masks
          ModifierOf,           \* modifier_for_key
          NoModifier,
          RawAvailable, HookAvailable,
          Configurations,       \* the input configurations the UI may send
          MaxPresses, MaxLosses, MaxResets, MaxApplies    \* bounds

Switches == {"a", "b"}
Identities == [key : Keys, modifiers : SUBSET Masks]
Modes == {"unbound", "toggle", "independent", "hold", "invalid"}
SwitchBindings == [mode : Modes, first : Identities, second : Identities]
ScriptBindings == [id : Nat, on : Identities, pressed : BOOLEAN, released : BOOLEAN]
Rules == {"a", "b", "both", "either"}

ASSUME InputAssumption ==
  /\ Mice \subseteq Keys
  /\ ModifierOf \in [Keys -> Masks \cup {NoModifier}] /\ NoModifier \notin Masks
  /\ RawAvailable \in BOOLEAN /\ HookAvailable \in BOOLEAN
  /\ RawAvailable \/ HookAvailable
  /\ Configurations \subseteq [switches : [Switches -> SwitchBindings],
                               scripts : SUBSET ScriptBindings,
                               rule : Rules, initial : [Switches -> BOOLEAN],
                               backend : {"raw", "hook"}]
  /\ {MaxPresses, MaxLosses, MaxResets, MaxApplies} \subseteq Nat

VARIABLES
  down,                         \* keys that are physically down
  posted, rawInput,             \* messages of the thread, Raw Input apart
  samples,                      \* what is left of the poll under way
  captured, polled,             \* InputTransitionMerger: keys down per source
  modifierKeys,                 \* modifier_keys_
  rawBindings, pressedKeys, activeHolds, switches, visibilityRule,
  scriptBindings, activeInputs,
  plan, activeBackend, configured,
  osHotkeys,                    \* hotkeys the system has for this window
  published,                    \* last state given to state_changed_
  scriptDown,                   \* ghost: scripts told "pressed", not yet "released"
  presses, lostPresses, lostReleases, resets, applies   \* ghosts for the bounds

mergerVars == <<captured, polled>>
machineVars == <<modifierKeys, pressedKeys, activeHolds, switches, activeInputs,
                 published, scriptDown>>
bindingVars == <<rawBindings, visibilityRule, scriptBindings, plan, activeBackend,
                 configured, osHotkeys>>
worldVars == <<down, posted, rawInput>>
losses == <<lostPresses, lostReleases>>
countVars == <<presses, losses, resets, applies>>
vars == <<worldVars, samples, mergerVars, machineVars, bindingVars, countVars>>

-----------------------------------------------------------------------------
(* build_input_binding_plan.                                                *)

(* add_switch_binding: the actions of one switch, in the order of slots.    *)
Action(slot, on, target, operation) ==
  [slot |-> slot, on |-> on, target |-> target, operation |-> operation]
SwitchActions(target, binding) ==
  LET slot == IF target = "a" THEN 1 ELSE 3
  IN CASE binding.mode = "toggle" -> {Action(slot, binding.first, target, "toggle")}
       [] binding.mode = "hold" -> {Action(slot, binding.first, target, "hold")}
       [] binding.mode = "independent" ->
            {Action(slot, binding.first, target, "enable"),
             Action(slot + 1, binding.second, target, "disable")}
       [] OTHER -> {}
Actions(config) == UNION {SwitchActions(t, config.switches[t]) : t \in Switches}

IsModifier(key) == ModifierOf[key] # NoModifier

(* add_action: what RegisterHotKey cannot deliver becomes a raw binding.    *)
RequiresRawInput(action, backend) ==
  \/ backend = "hook"
  \/ action.on.key \in Mice
  \/ action.operation = "hold"
  \/ action.on.modifiers = {}
RawBindings(config, backend) == {x \in Actions(config) : RequiresRawInput(x, backend)}

(* Identifiers are numbered from the same first value in every plan.        *)
Identifier(action, chosen) == Cardinality({y \in chosen : y.slot <= action.slot})
Registered(config, backend) ==
  LET chosen == Actions(config) \ RawBindings(config, backend)
  IN {[id |-> Identifier(x, chosen), on |-> x.on, target |-> x.target, operation |-> x.operation] :
        x \in chosen}

(* Keys with a raw or script binding are polled, and every key of the       *)
(* modifiers these bindings ask for.                                        *)
PollingKeys(config, backend) ==
  LET bound == {x.on : x \in RawBindings(config, backend)} \cup {x.on : x \in config.scripts}
      watched == {i \in bound : i.key \notin Mice}
  IN {i.key : i \in watched}
       \cup {k \in Keys : \E i \in watched : ModifierOf[k] \in i.modifiers}

PlanFails(config, backend) ==
  \/ \E t \in Switches : config.switches[t].mode = "invalid"
  \/ \E x, y \in Actions(config) : x.slot # y.slot /\ x.on = y.on
  \/ \E x \in Actions(config), s \in config.scripts : x.on = s.on
  \/ \E r, s \in config.scripts : r # s /\ r.on = s.on
  \/ \E s \in config.scripts : ~s.pressed /\ ~s.released
  \/ \E h \in Registered(config, backend) : IsModifier(h.on.key)

PlanOf(config, backend) == [registered |-> Registered(config, backend),
                            polling |-> PollingKeys(config, backend)]
EmptyPlan == [registered |-> {}, polling |-> {}]

EffectiveBackend(config) == IF RawAvailable THEN config.backend ELSE "hook"

(* evaluate_input_visibility                                                *)
Visible(rule, state) ==
  CASE rule = "a" -> state["a"]
    [] rule = "b" -> state["b"]
    [] rule = "both" -> state["a"] /\ state["b"]
    [] OTHER -> state["a"] \/ state["b"]
Snapshot(rule, state, isConfigured) ==
  [switches |-> state, visible |-> Visible(rule, state), configured |-> isConfigured]

-----------------------------------------------------------------------------
KeyMessage(key, pressed) == [kind |-> "key", key |-> key, pressed |-> pressed]
HotkeyMessage(id) == [kind |-> "hotkey", id |-> id]

AllPlans == {PlanOf(c, b) : c \in Configurations, b \in {"raw", "hook"}} \cup {EmptyPlan}
AllRawBindings == {RawBindings(c, b) : c \in Configurations, b \in {"raw", "hook"}} \cup {{}}

Messages == [kind : {"key"}, key : Keys, pressed : BOOLEAN]
HotkeyMessages == [kind : {"hotkey"}, id : Nat]

WorldTypeOK ==
  /\ down \subseteq Keys
  /\ posted \in Seq(Messages \cup HotkeyMessages)
  /\ rawInput \in Seq(Messages)
  /\ samples \subseteq [key : Keys, pressed : BOOLEAN]

MachineTypeOK ==
  /\ captured \subseteq Keys /\ polled \subseteq Keys
  /\ modifierKeys \subseteq Keys /\ pressedKeys \subseteq Keys
  /\ activeHolds \subseteq [key : Keys, target : Switches]
  /\ switches \in [Switches -> BOOLEAN]
  /\ activeInputs \subseteq ScriptBindings /\ scriptDown \subseteq ScriptBindings

BindingTypeOK ==
  /\ visibilityRule \in Rules /\ scriptBindings \subseteq ScriptBindings
  /\ plan \in AllPlans /\ rawBindings \in AllRawBindings
  /\ activeBackend \in {"raw", "hook"} /\ configured \in BOOLEAN

InputInit ==
  /\ down = {} /\ posted = <<>> /\ rawInput = <<>> /\ samples = {}
  /\ captured = {} /\ polled = {} /\ modifierKeys = {} /\ pressedKeys = {}
  /\ activeHolds = {} /\ activeInputs = {} /\ scriptDown = {}
  /\ switches = [s \in Switches |-> FALSE] /\ visibilityRule = "a"
  /\ rawBindings = {} /\ scriptBindings = {}
  /\ plan = EmptyPlan /\ activeBackend = "raw" /\ configured = FALSE
  /\ osHotkeys = {}
  /\ published = Snapshot("a", switches, FALSE)
  /\ presses = 0 /\ lostPresses = 0 /\ lostReleases = 0 /\ resets = 0 /\ applies = 0

-----------------------------------------------------------------------------
(* The keyboard, the mouse and the system.                                  *)

Sources(key) == (IF RawAvailable THEN {"raw"} ELSE {}) \cup (IF HookAvailable THEN {"hook"} ELSE {})

HotkeysHit(key) ==
  LET held == {ModifierOf[k] : k \in down} \ {NoModifier}
  IN {h \in osHotkeys : h.on.key = key /\ h.on.modifiers = held}

(* What an event posts to the thread: the hook's message, then WM_HOTKEY.    *)
PostedBy(key, pressed, reached, hits) ==
  (IF "hook" \in reached THEN <<KeyMessage(key, pressed)>> ELSE <<>>)
    \o (IF hits = {} THEN <<>> ELSE <<HotkeyMessage((CHOOSE h \in hits : TRUE).id)>>)

(* An event reaches every source, or misses some of them.                   *)
CountLoss(key, pressed, reached) ==
  IF reached = Sources(key) THEN UNCHANGED losses
  ELSE /\ lostPresses + lostReleases < MaxLosses
       /\ IF pressed THEN lostPresses' = lostPresses + 1 /\ lostReleases' = lostReleases
          ELSE lostReleases' = lostReleases + 1 /\ lostPresses' = lostPresses

Deliver(key, pressed, hits) ==
  \E reached \in SUBSET Sources(key) :
    /\ CountLoss(key, pressed, reached)
    /\ posted' = posted \o PostedBy(key, pressed, reached, hits)
    /\ rawInput' = IF "raw" \in reached THEN Append(rawInput, KeyMessage(key, pressed)) ELSE rawInput

Press(key) ==
  /\ samples = {} /\ key \notin down /\ presses < MaxPresses
  /\ presses' = presses + 1
  /\ down' = down \cup {key}
  /\ Deliver(key, TRUE, HotkeysHit(key))
  /\ UNCHANGED <<samples, mergerVars, modifierKeys, pressedKeys, activeHolds, switches, activeInputs,
                 published, scriptDown, bindingVars, resets, applies>>

Release(key) ==
  /\ samples = {} /\ key \in down
  /\ down' = down \ {key}
  /\ Deliver(key, FALSE, {})
  /\ UNCHANGED <<samples, mergerVars, machineVars, bindingVars, presses, resets, applies>>

-----------------------------------------------------------------------------
(* HotkeyStateMachine and ScriptInputStateMachine.                          *)

(* Mutated forms of the helpers below.                                      *)
MutSetTo(keys, key, pressed) == IF pressed THEN keys \cup {key} ELSE keys
MutTurnsOn(operation, before) == operation = "enable" \/ (operation = "toggle" /\ ~before)

SetTo(keys, key, pressed) == IF pressed THEN keys \cup {key} ELSE keys \ {key}

TurnsOn(operation, before) ==
  operation \in {"enable", "hold"} \/ (operation = "toggle" /\ ~before)
SwitchesAfter(fired) ==
  [s \in Switches |-> IF \E x \in fired : x.target = s
                      THEN \E x \in fired : x.target = s /\ TurnsOn(x.operation, switches[s])
                      ELSE switches[s]]
PublishIfChanged ==
  published' = IF switches' = switches THEN published
               ELSE Snapshot(visibilityRule, switches', configured)

MutMergedCaptured(key, fromCaptured, fromPolled) == key \in fromCaptured

(* The modifiers of an event leave out the key's own.                       *)
EventModifiers(key) == {ModifierOf[k] : k \in modifierKeys} \ {NoModifier, ModifierOf[key]}

(* A key that is released ends the hold it began, whatever the modifiers.   *)
HoldReleases(key) ==
  {[target |-> h.target, operation |-> "disable"] : h \in {x \in activeHolds : x.key = key}}

HandleSwitchKey(key, identity, pressed) ==
  LET fired == IF ~pressed THEN HoldReleases(key)
               ELSE IF key \in pressedKeys THEN {}
               ELSE {x \in rawBindings : x.on = identity}
  IN /\ pressedKeys' = SetTo(pressedKeys, key, pressed)
     /\ activeHolds' = IF pressed
                       THEN activeHolds \cup {[key |-> key, target |-> x.target] :
                                                x \in {y \in fired : y.operation = "hold"}}
                       ELSE {h \in activeHolds : h.key # key}
     /\ switches' = SwitchesAfter(fired)
     /\ PublishIfChanged

HandleScriptKey(key, identity, pressed) ==
  LET ended == {s \in activeInputs : s.on.key = key}
      begun == IF ended = {} THEN {s \in scriptBindings : s.on = identity} ELSE {}
  IN IF pressed
     THEN /\ activeInputs' = activeInputs \cup begun
          /\ scriptDown' = scriptDown \cup {s \in begun : s.pressed /\ s.released}
     ELSE /\ activeInputs' = activeInputs \ ended
          /\ scriptDown' = scriptDown \ {s \in ended : s.released}

(* handle_input_transition, once the merger reports a change of the key.    *)
KeyChanged(key, pressed) ==
  LET identity == [key |-> key, modifiers |-> EventModifiers(key)]
  IN /\ modifierKeys' = IF IsModifier(key) THEN SetTo(modifierKeys, key, pressed) ELSE modifierKeys
     /\ HandleSwitchKey(key, identity, pressed)
     /\ HandleScriptKey(key, identity, pressed)

(* InputTransitionMerger::handle: a key is down while some source says so.  *)
Merged(key, fromCaptured, fromPolled) == key \in fromCaptured \/ key \in fromPolled

Transition(key, pressed, source) ==
  /\ captured' = IF source = "captured" THEN SetTo(captured, key, pressed) ELSE captured
  /\ polled' = IF source = "polled" THEN SetTo(polled, key, pressed) ELSE polled
  /\ LET before == Merged(key, captured, polled)
         after == Merged(key, captured', polled')
     IN IF before = after THEN UNCHANGED machineVars ELSE KeyChanged(key, after)

MutScriptReleases == {}

(* Scripts that hear releases are told of one for every key they hold.      *)
ScriptReleases == {s \in activeInputs : s.released}

(* reset_pressed_keys, of the service and of both machines.                 *)
ResetPressedKeys ==
  /\ captured' = {} /\ polled' = {} /\ modifierKeys' = {} /\ pressedKeys' = {}
  /\ switches' = [s \in Switches |-> switches[s] /\ \A h \in activeHolds : h.target # s]
  /\ activeHolds' = {} /\ activeInputs' = {}
  /\ scriptDown' = scriptDown \ ScriptReleases

-----------------------------------------------------------------------------
(* The messages of the input thread.                                        *)

Idle == samples = {}

HandleHotkey(message) ==
  LET fired == IF activeBackend = "raw" THEN {h \in plan.registered : h.id = message.id} ELSE {}
  IN /\ switches' = SwitchesAfter(fired)
     /\ PublishIfChanged
     /\ UNCHANGED <<mergerVars, modifierKeys, pressedKeys, activeHolds, activeInputs, scriptDown>>

(* The keyboard hook counts in both backends, the mouse hook in its own.    *)
HandlePosted ==
  /\ Idle /\ posted # <<>>
  /\ posted' = Tail(posted)
  /\ LET message == Head(posted)
     IN IF message.kind = "hotkey" THEN HandleHotkey(message)
        ELSE IF message.key \in Mice /\ activeBackend = "raw" THEN UNCHANGED <<mergerVars, machineVars>>
        ELSE Transition(message.key, message.pressed, "captured")
  /\ UNCHANGED <<down, rawInput, samples, bindingVars, countVars>>

HandleRaw ==
  /\ Idle /\ posted = <<>> /\ rawInput # <<>>
  /\ rawInput' = Tail(rawInput)
  /\ IF activeBackend = "raw" THEN Transition(Head(rawInput).key, Head(rawInput).pressed, "captured")
     ELSE UNCHANGED <<mergerVars, machineVars>>
  /\ UNCHANGED <<down, posted, samples, bindingVars, countVars>>

(* The Raw Input of an event could not be read.                             *)
RawInputFails ==
  /\ Idle /\ posted = <<>> /\ rawInput # <<>> /\ activeBackend = "raw"
  /\ resets < MaxResets /\ resets' = resets + 1
  /\ rawInput' = Tail(rawInput)
  /\ ResetPressedKeys /\ PublishIfChanged
  /\ UNCHANGED <<down, posted, samples, bindingVars, presses, losses, applies>>

(* A device is removed or the session changes.                              *)
DeviceOrSessionChanges ==
  /\ Idle /\ resets < MaxResets /\ resets' = resets + 1
  /\ ResetPressedKeys /\ PublishIfChanged
  /\ UNCHANGED <<worldVars, samples, bindingVars, presses, losses, applies>>

PollStart ==
  /\ Idle /\ posted = <<>> /\ rawInput = <<>> /\ plan.polling # {}
  /\ samples' = {[key |-> k, pressed |-> k \in down] : k \in plan.polling}
  /\ UNCHANGED <<worldVars, mergerVars, machineVars, bindingVars, countVars>>

(* poll_keyboard_state: modifiers that are down, then the other keys, then  *)
(* modifiers that are up.                                                   *)
Rank(sample) == IF ~IsModifier(sample.key) THEN 2 ELSE IF sample.pressed THEN 1 ELSE 3

PollStep ==
  \E sample \in samples :
    /\ \A other \in samples : Rank(sample) <= Rank(other)
    /\ samples' = samples \ {sample}
    /\ Transition(sample.key, sample.pressed, "polled")
    /\ UNCHANGED <<worldVars, bindingVars, countVars>>

-----------------------------------------------------------------------------
(* apply_configuration_on_thread.                                           *)

MutUnregister(os, hotkeys) == os
Unregister(os, hotkeys) == {h \in os : \A x \in hotkeys : x.id # h.id}
InitialSwitches(config) == config.initial

Attempt == Idle /\ applies < MaxApplies /\ applies' = applies + 1

(* The hooks are missing, the plan cannot be built or the timer not started. *)
Refuse(config) ==
  /\ Attempt
  /\ \/ config.backend = "hook" /\ ~HookAvailable
     \/ PlanFails(config, EffectiveBackend(config))
     \/ PollingKeys(config, EffectiveBackend(config)) # {}
  /\ UNCHANGED <<worldVars, samples, mergerVars, machineVars, bindingVars, presses, losses, resets>>

Usable(config) == (config.backend = "hook" => HookAvailable) /\ ~PlanFails(config, EffectiveBackend(config))

Replace(config) ==
  LET backend == EffectiveBackend(config)
  IN /\ Attempt /\ Usable(config)
     /\ osHotkeys' = Unregister(osHotkeys, plan.registered) \cup Registered(config, backend)
     /\ plan' = PlanOf(config, backend) /\ activeBackend' = backend /\ configured' = TRUE
     /\ rawBindings' = RawBindings(config, backend)
     /\ visibilityRule' = config.rule
     /\ scriptBindings' = config.scripts
     /\ captured' = {} /\ polled' = {} /\ modifierKeys' = {} /\ pressedKeys' = {}
     /\ activeHolds' = {} /\ activeInputs' = {}
     /\ scriptDown' = scriptDown \ ScriptReleases
     /\ switches' = InitialSwitches(config)
     /\ published' = Snapshot(config.rule, switches', TRUE)
     /\ UNCHANGED <<worldVars, samples, presses, losses, resets>>

(* Another program owns a hotkey: those registered so far are taken back.   *)
HotkeysAfterFailure(config, failing) ==
  LET candidate == Registered(config, EffectiveBackend(config))
  IN Unregister(Unregister(osHotkeys, plan.registered)
                  \cup {h \in candidate : h.id < failing.id}, candidate)

RollBack(config) ==
  /\ Attempt /\ Usable(config)
  /\ \E failing \in Registered(config, EffectiveBackend(config)) :
       osHotkeys' = HotkeysAfterFailure(config, failing) \cup plan.registered
  /\ UNCHANGED <<worldVars, samples, mergerVars, machineVars, rawBindings, visibilityRule,
                 scriptBindings, plan, activeBackend, configured, presses, losses, resets>>

(* The old hotkeys cannot be restored either.  The state machine keeps its  *)
(* raw bindings, and the state is published only when a hold ended.         *)
LoseHotkeys(config) ==
  /\ Attempt /\ Usable(config)
  /\ \E failing \in Registered(config, EffectiveBackend(config)), lost \in plan.registered :
       osHotkeys' = Unregister(HotkeysAfterFailure(config, failing)
                                 \cup {h \in plan.registered : h.id < lost.id}, plan.registered)
  /\ plan' = EmptyPlan /\ scriptBindings' = {} /\ configured' = FALSE
  /\ ResetPressedKeys
  /\ published' = IF switches' = switches THEN published
                  ELSE Snapshot(visibilityRule, switches', FALSE)
  /\ UNCHANGED <<worldVars, samples, rawBindings, visibilityRule, activeBackend, presses, losses, resets>>

Apply(config) == Refuse(config) \/ Replace(config) \/ RollBack(config) \/ LoseHotkeys(config)

InputThread == HandlePosted \/ HandleRaw \/ PollStart \/ PollStep

InputNext ==
  \/ \E k \in Keys : Press(k) \/ Release(k)
  \/ InputThread
  \/ RawInputFails
  \/ DeviceOrSessionChanges
  \/ \E c \in Configurations : Apply(c)

InputSpec == InputInit /\ [][InputNext]_vars
(* The thread's message loop and its timer run for ever.                    *)
FairInputSpec == InputSpec /\ WF_vars(InputThread)

-----------------------------------------------------------------------------
(* The merger and both state machines keep their own record of the keys     *)
(* that are down; a key one of them forgot could never be pressed again, or *)
(* released.                                                                *)
PressedAgree ==
  /\ pressedKeys = captured \cup polled
  /\ modifierKeys = {k \in pressedKeys : IsModifier(k)}
  /\ \A h \in activeHolds : h.key \in pressedKeys
  /\ \A s \in activeInputs : s.on.key \in pressedKeys

(* A switch driven by a hold is on for as long as the hold lasts.           *)
HoldDrivesSwitch == \A h \in activeHolds : switches[h.target]

(* A script that was told of a press is told of the release, also when its  *)
(* binding is replaced, the session changes or the hotkeys are lost.        *)
ScriptsArePaired ==
  /\ scriptDown = {s \in activeInputs : s.pressed /\ s.released}
  /\ activeInputs \subseteq scriptBindings

(* The system holds exactly the hotkeys of the active plan, whichever       *)
(* registration failed on the way.                                          *)
HotkeysMatchPlan == osHotkeys = plan.registered

(* What was last published are the switches and their visibility.           *)
PublishedIsCurrent ==
  /\ published.switches = switches
  /\ published.visible = Visible(visibilityRule, switches)

(* What the inductive invariant adds: raw bindings and plan come from one    *)
(* configuration, or the plan was lost, and an active hold belongs to a      *)
(* binding in force.                                                        *)
OnePlan ==
  \/ rawBindings = {} /\ plan = EmptyPlan
  \/ \E c \in Configurations, b \in {"raw", "hook"} :
       rawBindings = RawBindings(c, b) /\ plan \in {PlanOf(c, b), EmptyPlan}
HoldsAreBound ==
  \A h \in activeHolds :
    \E x \in rawBindings : x.operation = "hold" /\ x.target = h.target /\ x.on.key = h.key

MachineInv == /\ MachineTypeOK /\ PressedAgree /\ HoldDrivesSwitch /\ HoldsAreBound
              /\ ScriptsArePaired /\ PublishedIsCurrent
BindingInv == BindingTypeOK /\ OnePlan /\ HotkeysMatchPlan
InputInv == WorldTypeOK /\ MachineInv /\ BindingInv

(* A hold ends once its key is up, however the press became known, as long  *)
(* as no release missed a source of events.                                 *)
HoldsEnd ==
  \A k \in Keys :
    (k \notin down) ~> (k \in down \/ lostReleases > 0 \/ \A h \in activeHolds : h.key # k)
=============================================================================
