-------------------------- MODULE InputSystemProofs --------------------------
(***************************************************************************)
(* Proofs about InputSystem for every set of keys, modifiers and            *)
(* configurations.  InputInv is inductive; its conjuncts are the safety     *)
(* invariants the runs check.                                               *)
(***************************************************************************)
EXTENDS InputSystem, FiniteSetTheorems, TLAPS

Operations == {"toggle", "enable", "disable", "hold"}
ActionSet == [slot : Nat, on : Identities, target : Switches, operation : Operations]

LEMMA BindingOfConfig ==
  ASSUME NEW c \in Configurations, NEW t \in Switches
  PROVE  c.switches[t] \in SwitchBindings
BY InputAssumption

LEMMA ActionsTyped ==
  ASSUME NEW c \in Configurations
  PROVE  Actions(c) \subseteq ActionSet
<1> SUFFICES ASSUME NEW t \in Switches, NEW x \in SwitchActions(t, c.switches[t])
             PROVE  x \in ActionSet
  BY DEF Actions
<1>1. c.switches[t] \in SwitchBindings
  BY BindingOfConfig
<1> DEFINE binding == c.switches[t]
<1>2. binding.first \in Identities /\ binding.second \in Identities
  BY <1>1 DEF SwitchBindings
<1> HIDE DEF binding
<1>3. x \in SwitchActions(t, binding)
  BY DEF binding
<1> QED BY <1>2, <1>3 DEF SwitchActions, Action, ActionSet, Operations

(* A switch that a hold drives has no other action.                         *)
LEMMA HoldIsAlone ==
  ASSUME NEW c \in Configurations, NEW x \in Actions(c), NEW y \in Actions(c),
         x.operation = "hold", x.target = y.target
  PROVE  x = y
<1>1. PICK s \in Switches : x \in SwitchActions(s, c.switches[s])
  BY DEF Actions
<1>2. PICK t \in Switches : y \in SwitchActions(t, c.switches[t])
  BY DEF Actions
<1>3. x.target = s /\ y.target = t
  BY <1>1, <1>2 DEF SwitchActions, Action
<1>4. c.switches[s].mode = "hold"
  BY <1>1 DEF SwitchActions, Action
<1> QED BY <1>1, <1>2, <1>3, <1>4 DEF SwitchActions

LEMMA SwitchActionsFinite ==
  ASSUME NEW t, NEW binding
  PROVE  IsFiniteSet(SwitchActions(t, binding))
<1>1. ASSUME NEW x, NEW y
      PROVE  IsFiniteSet({x}) /\ IsFiniteSet({x, y})
  <2>1. IsFiniteSet({x}) /\ IsFiniteSet({y})
    BY FS_Singleton
  <2>2. IsFiniteSet({x} \cup {y})
    BY <2>1, FS_Union
  <2>3. {x, y} = {x} \cup {y}
    OBVIOUS
  <2> QED BY <2>1, <2>2, <2>3
<1>2. IsFiniteSet({})
  BY FS_EmptySet
<1> QED BY <1>1, <1>2 DEF SwitchActions

LEMMA HotkeyIdentifiers ==
  ASSUME NEW c \in Configurations, NEW b, NEW h \in Registered(c, b)
  PROVE  h.id \in Nat
<1>1. IsFiniteSet(Actions(c))
  <2>1. Actions(c) = SwitchActions("a", c.switches["a"]) \cup SwitchActions("b", c.switches["b"])
    BY DEF Actions, Switches
  <2> QED BY <2>1, SwitchActionsFinite, FS_Union
<1> DEFINE chosen == Actions(c) \ RawBindings(c, b)
<1>2. PICK x \in chosen : h.id = Identifier(x, chosen)
  BY DEF Registered
<1>3. IsFiniteSet({y \in chosen : y.slot <= x.slot})
  BY <1>1, FS_Subset
<1> QED BY <1>2, <1>3, FS_CardinalityType DEF Identifier

LEMMA PlanTyped ==
  ASSUME NEW p \in AllPlans
  PROVE  /\ \A h \in p.registered : h.id \in Nat
         /\ p.polling \subseteq Keys
<1>1. CASE p = EmptyPlan
  BY <1>1 DEF EmptyPlan
<1>2. ASSUME NEW c \in Configurations, NEW b \in {"raw", "hook"}, p = PlanOf(c, b)
      PROVE  /\ \A h \in p.registered : h.id \in Nat
             /\ p.polling \subseteq Keys
  <2>1. \A h \in p.registered : h.id \in Nat
    BY <1>2, HotkeyIdentifiers DEF PlanOf
  <2>2. \A x \in RawBindings(c, b) : x.on.key \in Keys
    BY ActionsTyped DEF RawBindings, ActionSet, Identities
  <2>3. c.scripts \subseteq ScriptBindings
    BY InputAssumption
  <2>4. \A x \in c.scripts : x.on.key \in Keys
    BY <2>3 DEF ScriptBindings, Identities
  <2>5. PollingKeys(c, b) \subseteq Keys
    BY <2>2, <2>4 DEF PollingKeys
  <2> QED BY <1>2, <2>1, <2>5 DEF PlanOf
<1> QED BY <1>1, <1>2 DEF AllPlans

LEMMA RawBindingsTyped ==
  ASSUME BindingInv, NEW x \in rawBindings
  PROVE  /\ x \in ActionSet
         /\ \A y \in rawBindings : x.operation = "hold" /\ x.target = y.target => x = y
         /\ \A h \in plan.registered : x.operation = "hold" => x.target # h.target
<1>1. PICK c \in Configurations, b \in {"raw", "hook"} :
        rawBindings = RawBindings(c, b) /\ plan \in {PlanOf(c, b), EmptyPlan}
  BY DEF BindingInv, OnePlan
<1>2. rawBindings \subseteq Actions(c)
  BY <1>1 DEF RawBindings
<1>3. x \in ActionSet
  BY <1>2, ActionsTyped
<1>4. \A y \in rawBindings : x.operation = "hold" /\ x.target = y.target => x = y
  BY <1>2, HoldIsAlone
<1>5. ASSUME NEW h \in plan.registered, x.operation = "hold", x.target = h.target
      PROVE  FALSE
  <2>1. h \in Registered(c, b)
    BY <1>1 DEF PlanOf, EmptyPlan
  <2>2. PICK y \in Actions(c) \ RawBindings(c, b) : h.target = y.target
    BY <2>1 DEF Registered
  <2>3. x = y
    BY <1>2, <1>5, <2>2, HoldIsAlone
  <2> QED BY <1>1, <2>2, <2>3
<1> QED BY <1>3, <1>4, <1>5

-----------------------------------------------------------------------------
LEMMA InitInv == InputInit => InputInv
<1> SUFFICES ASSUME InputInit PROVE InputInv
  OBVIOUS
<1> USE DEF InputInit
<1>1. WorldTypeOK
  BY DEF WorldTypeOK
<1>2. MachineTypeOK
  BY DEF MachineTypeOK
<1>3. PressedAgree /\ HoldDrivesSwitch /\ HoldsAreBound /\ ScriptsArePaired
  BY DEF PressedAgree, HoldDrivesSwitch, HoldsAreBound, ScriptsArePaired
<1>4. PublishedIsCurrent
  BY DEF PublishedIsCurrent, Snapshot
<1>5. BindingInv
  <2>1. plan \in AllPlans /\ rawBindings \in AllRawBindings
    BY DEF AllPlans, AllRawBindings
  <2>2. HotkeysMatchPlan
    BY DEF HotkeysMatchPlan, EmptyPlan
  <2> QED BY <2>1, <2>2 DEF BindingInv, BindingTypeOK, OnePlan, Rules
<1> QED BY <1>1, <1>2, <1>3, <1>4, <1>5 DEF InputInv, MachineInv

(* BindingInv speaks of the bindings only.                                  *)
LEMMA SameBindings ==
  ASSUME BindingInv, UNCHANGED bindingVars
  PROVE  BindingInv'
BY DEF BindingInv, bindingVars, BindingTypeOK, OnePlan, HotkeysMatchPlan

LEMMA SameMachines ==
  ASSUME MachineInv, UNCHANGED <<mergerVars, machineVars, bindingVars>>
  PROVE  MachineInv'
BY DEF MachineInv, mergerVars, machineVars, bindingVars, MachineTypeOK, PressedAgree,
       HoldDrivesSwitch, HoldsAreBound, ScriptsArePaired, PublishedIsCurrent

(* Whatever fires, switches stay typed and the state published stays current. *)
LEMMA SwitchesStayTyped ==
  ASSUME MachineTypeOK, NEW fired, switches' = SwitchesAfter(fired)
  PROVE  switches' \in [Switches -> BOOLEAN]
BY DEF SwitchesAfter, MachineTypeOK

LEMMA PublishingStaysCurrent ==
  ASSUME PublishedIsCurrent, PublishIfChanged, visibilityRule' = visibilityRule
  PROVE  PublishedIsCurrent'
BY DEF PublishedIsCurrent, PublishIfChanged, Snapshot

-----------------------------------------------------------------------------
(* The merger reports a change of a key: all machines follow it.            *)
LEMMA KeyChangedPreserves ==
  ASSUME MachineInv, BindingInv, UNCHANGED bindingVars,
         NEW key \in Keys, NEW pressed \in BOOLEAN,
         captured' \subseteq Keys, polled' \subseteq Keys,
         captured' \cup polled' = SetTo(captured \cup polled, key, pressed),
         pressed <=> key \notin captured \cup polled,
         KeyChanged(key, pressed)
  PROVE  MachineInv'
<1> DEFINE identity == [key |-> key, modifiers |-> EventModifiers(key)]
           fired == IF ~pressed THEN HoldReleases(key)
                    ELSE IF key \in pressedKeys THEN {}
                    ELSE {x \in rawBindings : x.on = identity}
<1>1. /\ modifierKeys' = IF IsModifier(key) THEN SetTo(modifierKeys, key, pressed) ELSE modifierKeys
      /\ HandleSwitchKey(key, identity, pressed)
      /\ HandleScriptKey(key, identity, pressed)
  BY DEF KeyChanged
<1>2. /\ pressedKeys' = SetTo(pressedKeys, key, pressed)
      /\ activeHolds' = IF pressed
                        THEN activeHolds \cup {[key |-> key, target |-> x.target] :
                                                 x \in {y \in fired : y.operation = "hold"}}
                        ELSE {h \in activeHolds : h.key # key}
      /\ switches' = SwitchesAfter(fired)
      /\ PublishIfChanged
  BY <1>1 DEF HandleSwitchKey
<1>3. /\ rawBindings' = rawBindings /\ plan' = plan /\ scriptBindings' = scriptBindings
      /\ visibilityRule' = visibilityRule
  BY DEF bindingVars
<1>4. pressedKeys = captured \cup polled
  BY DEF MachineInv, PressedAgree
<1>5. \A x \in rawBindings : x \in ActionSet
  BY RawBindingsTyped
<1>6. identity.key = key
  OBVIOUS
<1> HIDE DEF identity, fired
<1>7. ASSUME NEW h \in activeHolds', h \notin activeHolds
      PROVE  /\ pressed /\ h.key = key /\ h.target \in Switches
             /\ h = [key |-> h.key, target |-> h.target]
             /\ \E x \in rawBindings : x.operation = "hold" /\ x.target = h.target /\ x.on.key = key
  <2>1. pressed /\ \E x \in fired : x.operation = "hold" /\ h = [key |-> key, target |-> x.target]
    BY <1>2, <1>7
  <2>2. PICK x \in fired : x.operation = "hold" /\ h = [key |-> key, target |-> x.target]
    BY <2>1
  <2>3. x \in rawBindings /\ x.on = identity
    BY <2>1, <2>2, <1>4 DEF fired
  <2>4. x.target \in Switches
    BY <2>3, <1>5 DEF ActionSet
  <2> QED BY <2>1, <2>2, <2>3, <2>4, <1>6
<1>8. MachineTypeOK'
  <2>1. switches' \in [Switches -> BOOLEAN]
    BY <1>2, SwitchesStayTyped DEF MachineInv
  <2>2. modifierKeys' \subseteq Keys /\ pressedKeys' \subseteq Keys
    BY <1>1, <1>2 DEF SetTo, MachineInv, MachineTypeOK
  <2>3. activeHolds' \subseteq [key : Keys, target : Switches]
    BY <1>2, <1>7 DEF MachineInv, MachineTypeOK
  <2>4. activeInputs' \subseteq ScriptBindings /\ scriptDown' \subseteq ScriptBindings
    BY <1>1 DEF HandleScriptKey, MachineInv, MachineTypeOK, BindingInv, BindingTypeOK
  <2> QED BY <2>1, <2>2, <2>3, <2>4 DEF MachineTypeOK
<1>9. PressedAgree'
  <2>1. pressedKeys' = (captured \cup polled)'
    BY <1>2, <1>4
  <2>2. modifierKeys' = {k \in pressedKeys' : IsModifier(k)}
    BY <1>1, <1>2 DEF SetTo, MachineInv, PressedAgree
  <2>3. \A h \in activeHolds' : h.key \in pressedKeys'
    BY <1>2, <1>7 DEF SetTo, MachineInv, PressedAgree
  <2>4. \A s \in activeInputs' : s.on.key \in pressedKeys'
    <3>1. CASE pressed
      <4>1. \A s \in activeInputs' \ activeInputs : s.on = identity
        BY <1>1, <3>1 DEF HandleScriptKey
      <4> QED BY <4>1, <1>2, <1>6, <3>1 DEF SetTo, MachineInv, PressedAgree
    <3>2. CASE ~pressed
      <4>1. \A s \in activeInputs' : s \in activeInputs /\ s.on.key # key
        BY <1>1, <3>2 DEF HandleScriptKey
      <4> QED BY <4>1, <1>2, <3>2 DEF SetTo, MachineInv, PressedAgree
    <3> QED BY <3>1, <3>2
  <2> QED BY <2>1, <2>2, <2>3, <2>4 DEF PressedAgree
<1>10. HoldsAreBound'
  <2>1. \A h \in activeHolds' : h \in activeHolds
          \/ \E x \in rawBindings : x.operation = "hold" /\ x.target = h.target /\ x.on.key = h.key
    BY <1>7
  <2> QED BY <2>1, <1>3 DEF HoldsAreBound, MachineInv
<1>11. HoldDrivesSwitch'
  <2> SUFFICES ASSUME NEW h \in activeHolds' PROVE switches'[h.target]
    BY DEF HoldDrivesSwitch
  <2>1. h.target \in Switches
    BY <1>8 DEF MachineTypeOK
  <2>2. PICK x \in rawBindings : x.operation = "hold" /\ x.target = h.target /\ x.on.key = h.key
    BY <1>10, <1>3 DEF HoldsAreBound
  <2>3. switches'[h.target] = IF \E y \in fired : y.target = h.target
                              THEN \E y \in fired : y.target = h.target
                                                    /\ TurnsOn(y.operation, switches[h.target])
                              ELSE switches[h.target]
    BY <1>2, <2>1 DEF SwitchesAfter
  <2>4. CASE \E y \in fired : y.target = h.target
    <3>1. PICK y \in fired : y.target = h.target
      BY <2>4
    <3>2. CASE pressed
      <4>1. y \in rawBindings
        BY <3>1, <3>2 DEF fired
      <4>2. y = x
        BY <2>2, <3>1, <4>1, RawBindingsTyped
      <4> QED BY <2>2, <2>3, <2>4, <3>1, <4>2 DEF TurnsOn
    <3>3. CASE ~pressed
      <4>1. PICK g \in activeHolds : g.key = key /\ g.target = h.target
        BY <3>1, <3>3 DEF fired, HoldReleases
      <4>2. PICK z \in rawBindings : z.operation = "hold" /\ z.target = g.target /\ z.on.key = g.key
        BY DEF MachineInv, HoldsAreBound
      <4>3. x = z
        BY <2>2, <4>1, <4>2, RawBindingsTyped
      <4>4. h.key # key
        BY <1>2, <3>3
      <4> QED BY <2>2, <4>1, <4>2, <4>3, <4>4
    <3> QED BY <3>2, <3>3
  <2>5. CASE ~\E y \in fired : y.target = h.target
    <3>1. switches'[h.target] = switches[h.target]
      BY <2>3, <2>5
    <3>2. h \in activeHolds
      <4> SUFFICES ASSUME h \notin activeHolds PROVE FALSE
        OBVIOUS
      <4>1. pressed /\ \E y \in fired : y.target = h.target
        BY <1>2
      <4> QED BY <4>1, <2>5
    <3> QED BY <3>1, <3>2 DEF MachineInv, HoldDrivesSwitch
  <2> QED BY <2>4, <2>5
<1>12. ScriptsArePaired'
  <2>1. CASE pressed
    <3>1. {s \in activeInputs : s.on.key = key} = {}
      BY <1>4, <2>1 DEF MachineInv, PressedAgree
    <3> QED BY <1>1, <1>3, <2>1, <3>1 DEF HandleScriptKey, ScriptsArePaired, MachineInv
  <2>2. CASE ~pressed
    BY <1>1, <1>3, <2>2 DEF HandleScriptKey, ScriptsArePaired, MachineInv
  <2> QED BY <2>1, <2>2
<1>13. PublishedIsCurrent'
  BY <1>2, <1>3, PublishingStaysCurrent DEF MachineInv
<1> QED BY <1>8, <1>9, <1>10, <1>11, <1>12, <1>13 DEF MachineInv

LEMMA TransitionPreserves ==
  ASSUME MachineInv, BindingInv, UNCHANGED bindingVars,
         NEW key \in Keys, NEW pressed \in BOOLEAN, NEW source \in {"captured", "polled"},
         Transition(key, pressed, source)
  PROVE  MachineInv'
<1>1. captured \subseteq Keys /\ polled \subseteq Keys
  BY DEF MachineInv, MachineTypeOK
<1>2. captured' \subseteq Keys /\ polled' \subseteq Keys
  BY <1>1 DEF Transition, SetTo
<1> DEFINE before == Merged(key, captured, polled)
           after == Merged(key, captured', polled')
<1>3. CASE before = after
  <2>1. UNCHANGED machineVars
    BY <1>3 DEF Transition
  <2>2. captured' \cup polled' = captured \cup polled
    BY <1>3 DEF Transition, SetTo, Merged
  <2> QED BY <1>2, <2>1, <2>2
          DEF MachineInv, machineVars, bindingVars, MachineTypeOK, PressedAgree, HoldDrivesSwitch,
              HoldsAreBound, ScriptsArePaired, PublishedIsCurrent
<1>4. CASE before # after
  <2>1. KeyChanged(key, after)
    BY <1>4 DEF Transition
  <2>2. after \in BOOLEAN /\ (after <=> key \notin captured \cup polled)
    BY <1>4 DEF Merged
  <2>3. captured' \cup polled' = SetTo(captured \cup polled, key, after)
    BY DEF Transition, SetTo, Merged
  <2> QED BY <1>2, <2>1, <2>2, <2>3, KeyChangedPreserves
<1> QED BY <1>3, <1>4

LEMMA ResetPreserves ==
  ASSUME MachineInv, BindingInv, ResetPressedKeys,
         \/ UNCHANGED scriptBindings
         \/ scriptBindings' = {},
         UNCHANGED visibilityRule,
         \/ published' = published /\ switches' = switches
         \/ \E c : published' = Snapshot(visibilityRule, switches', c)
  PROVE  MachineInv'
<1> USE DEF ResetPressedKeys
<1>1. MachineTypeOK'
  <2>1. switches' \in [Switches -> BOOLEAN]
    BY DEF MachineInv, MachineTypeOK
  <2>2. scriptDown' \subseteq ScriptBindings
    BY DEF MachineInv, MachineTypeOK
  <2> QED BY <2>1, <2>2 DEF MachineTypeOK
<1>2. PressedAgree' /\ HoldDrivesSwitch' /\ HoldsAreBound'
  BY DEF PressedAgree, HoldDrivesSwitch, HoldsAreBound
<1>3. ScriptsArePaired'
  BY DEF ScriptsArePaired, ScriptReleases, MachineInv
<1>4. PublishedIsCurrent'
  BY DEF PublishedIsCurrent, MachineInv, Snapshot
<1> QED BY <1>1, <1>2, <1>3, <1>4 DEF MachineInv

LEMMA HotkeyPreserves ==
  ASSUME MachineInv, BindingInv, UNCHANGED bindingVars, NEW message, HandleHotkey(message)
  PROVE  MachineInv'
<1> DEFINE fired == IF activeBackend = "raw" THEN {h \in plan.registered : h.id = message.id} ELSE {}
<1>1. switches' = SwitchesAfter(fired) /\ PublishIfChanged
  BY DEF HandleHotkey
<1>2. /\ UNCHANGED <<mergerVars, modifierKeys, pressedKeys, activeHolds, activeInputs, scriptDown>>
      /\ UNCHANGED <<rawBindings, scriptBindings, visibilityRule>>
  BY DEF HandleHotkey, bindingVars
<1>3. fired \subseteq plan.registered
  OBVIOUS
<1> HIDE DEF fired
<1>4. switches' \in [Switches -> BOOLEAN]
  BY <1>1, SwitchesStayTyped DEF MachineInv
<1>5. MachineTypeOK' /\ PressedAgree' /\ HoldsAreBound' /\ ScriptsArePaired'
  BY <1>2, <1>4 DEF MachineInv, MachineTypeOK, PressedAgree, HoldsAreBound, ScriptsArePaired, mergerVars
<1>6. HoldDrivesSwitch'
  <2> SUFFICES ASSUME NEW h \in activeHolds PROVE switches'[h.target]
    BY <1>2 DEF HoldDrivesSwitch
  <2>1. PICK x \in rawBindings : x.operation = "hold" /\ x.target = h.target
    BY DEF MachineInv, HoldsAreBound
  <2>2. ~\E y \in fired : y.target = h.target
    BY <1>3, <2>1, RawBindingsTyped
  <2>3. h.target \in Switches
    BY DEF MachineInv, MachineTypeOK
  <2> QED BY <1>1, <2>2, <2>3 DEF SwitchesAfter, MachineInv, HoldDrivesSwitch
<1>7. PublishedIsCurrent'
  BY <1>1, <1>2, PublishingStaysCurrent DEF MachineInv
<1> QED BY <1>5, <1>6, <1>7 DEF MachineInv

-----------------------------------------------------------------------------
(* The messages of the thread.                                              *)
LEMMA PostedPreserves ==
  ASSUME InputInv, HandlePosted
  PROVE  InputInv'
<1>1. posted \in Seq(Messages \cup HotkeyMessages) /\ posted # <<>>
  BY DEF InputInv, WorldTypeOK, HandlePosted
<1> DEFINE message == Head(posted)
<1>2. message \in Messages \cup HotkeyMessages /\ Tail(posted) \in Seq(Messages \cup HotkeyMessages)
  BY <1>1
<1>3. WorldTypeOK'
  BY <1>2 DEF HandlePosted, InputInv, WorldTypeOK
<1>4. UNCHANGED bindingVars
  BY DEF HandlePosted
<1>5. MachineInv'
  <2>1. CASE message.kind = "hotkey"
    BY <2>1, <1>4, HotkeyPreserves DEF HandlePosted, InputInv
  <2>2. CASE message.kind # "hotkey" /\ UNCHANGED <<mergerVars, machineVars>>
    BY <2>2, <1>4, SameMachines DEF InputInv
  <2>3. CASE message.kind # "hotkey" /\ Transition(message.key, message.pressed, "captured")
    <3>1. message.key \in Keys /\ message.pressed \in BOOLEAN
      BY <1>2, <2>3 DEF Messages, HotkeyMessages
    <3> QED BY <1>4, <2>3, <3>1, TransitionPreserves DEF InputInv
  <2> QED BY <2>1, <2>2, <2>3 DEF HandlePosted
<1> QED BY <1>3, <1>4, <1>5, SameBindings DEF InputInv

LEMMA RawPreserves ==
  ASSUME InputInv, HandleRaw \/ RawInputFails
  PROVE  InputInv'
<1>1. rawInput \in Seq(Messages) /\ rawInput # <<>>
  BY DEF InputInv, WorldTypeOK, HandleRaw, RawInputFails
<1>2. Head(rawInput) \in Messages /\ Tail(rawInput) \in Seq(Messages)
  BY <1>1
<1>3. WorldTypeOK'
  BY <1>2 DEF HandleRaw, RawInputFails, InputInv, WorldTypeOK
<1>4. UNCHANGED bindingVars
  BY DEF HandleRaw, RawInputFails
<1>5. MachineInv'
  <2>1. CASE RawInputFails
    <3>1. ResetPressedKeys /\ PublishIfChanged
      BY <2>1 DEF RawInputFails
    <3> QED BY <1>4, <3>1, ResetPreserves DEF InputInv, bindingVars, PublishIfChanged
  <2>2. CASE HandleRaw /\ UNCHANGED <<mergerVars, machineVars>>
    BY <2>2, <1>4, SameMachines DEF InputInv
  <2>3. CASE Transition(Head(rawInput).key, Head(rawInput).pressed, "captured")
    <3>1. Head(rawInput).key \in Keys /\ Head(rawInput).pressed \in BOOLEAN
      BY <1>2 DEF Messages
    <3> QED BY <1>4, <2>3, <3>1, TransitionPreserves DEF InputInv
  <2> QED BY <2>1, <2>2, <2>3 DEF HandleRaw
<1> QED BY <1>3, <1>4, <1>5, SameBindings DEF InputInv

LEMMA PollPreserves ==
  ASSUME InputInv, PollStart \/ PollStep
  PROVE  InputInv'
<1>1. UNCHANGED bindingVars
  BY DEF PollStart, PollStep
<1>2. CASE PollStart
  <2>1. plan.polling \subseteq Keys
    BY PlanTyped DEF InputInv, BindingInv, BindingTypeOK
  <2>2. WorldTypeOK'
    <3>1. \A k : (k \in down) \in BOOLEAN
      OBVIOUS
    <3>2. \A k \in plan.polling : [key |-> k, pressed |-> k \in down] \in [key : Keys, pressed : BOOLEAN]
      BY <2>1, <3>1, Zenon
    <3>3. samples' = {[key |-> k, pressed |-> k \in down] : k \in plan.polling}
      BY <1>2 DEF PollStart
    <3>4. samples' \subseteq [key : Keys, pressed : BOOLEAN]
      BY <3>2, <3>3, Zenon
    <3> QED BY <1>2, <3>4 DEF PollStart, worldVars, InputInv, WorldTypeOK
  <2>3. MachineInv'
    BY <1>1, <1>2, SameMachines DEF PollStart, InputInv
  <2> QED BY <1>1, <2>2, <2>3, SameBindings DEF InputInv
<1>3. CASE PollStep
  <2>1. PICK sample \in samples : /\ samples' = samples \ {sample}
                                 /\ Transition(sample.key, sample.pressed, "polled")
                                 /\ UNCHANGED worldVars
    BY <1>3 DEF PollStep
  <2>2. sample.key \in Keys /\ sample.pressed \in BOOLEAN
    BY DEF InputInv, WorldTypeOK
  <2>3. WorldTypeOK'
    BY <2>1 DEF worldVars, InputInv, WorldTypeOK
  <2>4. MachineInv'
    BY <1>1, <2>1, <2>2, TransitionPreserves DEF InputInv
  <2> QED BY <1>1, <2>3, <2>4, SameBindings DEF InputInv
<1> QED BY <1>2, <1>3

-----------------------------------------------------------------------------
(* The keyboard and the mouse.                                              *)
LEMMA PressPreserves ==
  ASSUME InputInv, NEW key \in Keys, Press(key) \/ Release(key)
  PROVE  InputInv'
<1>1. UNCHANGED bindingVars /\ samples' = samples
  BY DEF Press, Release
<1>2. PICK pressed \in BOOLEAN, hits \in {{}, HotkeysHit(key)} : Deliver(key, pressed, hits)
  BY Zenon DEF Press, Release
<1>3. \A h \in hits : h.id \in Nat
  <2>1. osHotkeys = plan.registered /\ plan \in AllPlans
    BY DEF InputInv, BindingInv, HotkeysMatchPlan, BindingTypeOK
  <2> QED BY <1>2, <2>1, PlanTyped DEF HotkeysHit
<1>4. KeyMessage(key, pressed) \in Messages
  BY DEF KeyMessage, Messages
<1>5. hits # {} => HotkeyMessage((CHOOSE h \in hits : TRUE).id) \in HotkeyMessages
  <2>1. SUFFICES ASSUME hits # {} PROVE (CHOOSE h \in hits : TRUE).id \in Nat
    BY DEF HotkeyMessage, HotkeyMessages
  <2>2. (CHOOSE h \in hits : TRUE) \in hits
    BY <2>1
  <2> QED BY <1>3, <2>2
<1> DEFINE Inbox == Seq(Messages \cup HotkeyMessages)
<1>6. PICK reached \in SUBSET Sources(key) :
        /\ CountLoss(key, pressed, reached)
        /\ posted' = posted \o PostedBy(key, pressed, reached, hits)
        /\ rawInput' = IF "raw" \in reached THEN Append(rawInput, KeyMessage(key, pressed)) ELSE rawInput
  BY <1>2, Zenon DEF Deliver
<1>7. PostedBy(key, pressed, reached, hits) \in Inbox
  <2> DEFINE first == IF "hook" \in reached THEN <<KeyMessage(key, pressed)>> ELSE <<>>
             second == IF hits = {} THEN <<>> ELSE <<HotkeyMessage((CHOOSE h \in hits : TRUE).id)>>
  <2>1. first \in Inbox /\ second \in Inbox
    <3>1. <<KeyMessage(key, pressed)>> \in Inbox
      BY <1>4
    <3>2. hits # {} => <<HotkeyMessage((CHOOSE h \in hits : TRUE).id)>> \in Inbox
      BY <1>5
    <3>3. <<>> \in Inbox
      OBVIOUS
    <3> QED BY <3>1, <3>2, <3>3, Zenon
  <2>2. PostedBy(key, pressed, reached, hits) = first \o second
    BY Zenon DEF PostedBy
  <2> HIDE DEF first, second
  <2> QED BY <2>1, <2>2
<1>8. posted' \in Inbox
  BY <1>6, <1>7 DEF InputInv, WorldTypeOK
<1>9. rawInput' \in Seq(Messages)
  BY <1>4, <1>6 DEF InputInv, WorldTypeOK
<1>10. down' \subseteq Keys
  BY DEF Press, Release, InputInv, WorldTypeOK
<1>11. WorldTypeOK'
  BY <1>1, <1>8, <1>9, <1>10 DEF InputInv, WorldTypeOK
<1>12. /\ UNCHANGED <<mergerVars, modifierKeys, pressedKeys, activeHolds, switches, activeInputs,
                      published, scriptDown>>
  <2>1. CASE Press(key)
    BY <2>1, Zenon DEF Press
  <2>2. CASE Release(key)
    BY <2>2 DEF Release, machineVars, InputInv, MachineInv, MachineTypeOK
  <2> QED BY <2>1, <2>2
<1>13. MachineInv'
  BY <1>1, <1>12 DEF InputInv, MachineInv, mergerVars, bindingVars, MachineTypeOK, PressedAgree,
       HoldDrivesSwitch, HoldsAreBound, ScriptsArePaired, PublishedIsCurrent
<1> QED BY <1>1, <1>11, <1>13, SameBindings DEF InputInv

-----------------------------------------------------------------------------
(* apply_configuration_on_thread.                                           *)
LEMMA BackendTyped ==
  ASSUME NEW config \in Configurations
  PROVE  EffectiveBackend(config) \in {"raw", "hook"}
BY InputAssumption DEF EffectiveBackend

LEMMA UnregisteredAll ==
  ASSUME NEW os, NEW hotkeys, os \subseteq hotkeys
  PROVE  Unregister(os, hotkeys) = {}
BY DEF Unregister

LEMMA ReplacePreserves ==
  ASSUME InputInv, NEW config \in Configurations, Replace(config)
  PROVE  InputInv'
<1> DEFINE backend == EffectiveBackend(config)
<1>1. backend \in {"raw", "hook"}
  BY BackendTyped
<1>2. /\ config.initial \in [Switches -> BOOLEAN] /\ config.rule \in Rules
      /\ config.scripts \subseteq ScriptBindings
  BY InputAssumption
<1>3. /\ plan' = PlanOf(config, backend) /\ activeBackend' = backend /\ configured' = TRUE
      /\ rawBindings' = RawBindings(config, backend) /\ visibilityRule' = config.rule
      /\ scriptBindings' = config.scripts
      /\ osHotkeys' = Unregister(osHotkeys, plan.registered) \cup Registered(config, backend)
  BY DEF Replace
<1> HIDE DEF backend
<1>4. BindingInv'
  <2>1. plan' \in AllPlans /\ rawBindings' \in AllRawBindings
    BY <1>1, <1>3 DEF AllPlans, AllRawBindings
  <2>2. BindingTypeOK'
    BY <1>1, <1>2, <1>3, <2>1 DEF BindingTypeOK
  <2>3. OnePlan'
    BY <1>1, <1>3 DEF OnePlan
  <2>4. HotkeysMatchPlan'
    <3>1. Unregister(osHotkeys, plan.registered) = {}
      BY UnregisteredAll DEF InputInv, BindingInv, HotkeysMatchPlan
    <3> QED BY <1>3, <3>1 DEF HotkeysMatchPlan, PlanOf
  <2> QED BY <2>2, <2>3, <2>4 DEF BindingInv
<1>5. MachineInv'
  <2>1. MachineTypeOK'
    <3>1. scriptDown' \subseteq ScriptBindings
      BY DEF Replace, InputInv, MachineInv, MachineTypeOK
    <3> QED BY <1>2, <3>1 DEF Replace, MachineTypeOK, InitialSwitches
  <2>2. PressedAgree' /\ HoldDrivesSwitch' /\ HoldsAreBound'
    BY DEF Replace, PressedAgree, HoldDrivesSwitch, HoldsAreBound
  <2>3. ScriptsArePaired'
    BY DEF Replace, ScriptsArePaired, ScriptReleases, InputInv, MachineInv
  <2>4. PublishedIsCurrent'
    BY DEF Replace, PublishedIsCurrent, Snapshot
  <2> QED BY <2>1, <2>2, <2>3, <2>4 DEF MachineInv
<1>6. WorldTypeOK'
  BY DEF Replace, worldVars, InputInv, WorldTypeOK
<1> QED BY <1>4, <1>5, <1>6 DEF InputInv

LEMMA FailureLeavesNone ==
  ASSUME InputInv, NEW config, NEW failing
  PROVE  HotkeysAfterFailure(config, failing) = {}
<1> DEFINE candidate == Registered(config, EffectiveBackend(config))
           partial == {h \in candidate : h.id < failing.id}
<1>1. Unregister(osHotkeys, plan.registered) = {}
  BY UnregisteredAll DEF InputInv, BindingInv, HotkeysMatchPlan
<1>2. Unregister(Unregister(osHotkeys, plan.registered) \cup partial, candidate) = {}
  BY <1>1, UnregisteredAll
<1> QED BY <1>2 DEF HotkeysAfterFailure

LEMMA RollBackPreserves ==
  ASSUME InputInv, NEW config \in Configurations, RollBack(config)
  PROVE  InputInv'
<1>1. osHotkeys' = plan.registered
  BY FailureLeavesNone DEF RollBack
<1>2. /\ UNCHANGED <<worldVars, samples, mergerVars, machineVars, rawBindings, visibilityRule,
                     scriptBindings, plan, activeBackend, configured>>
  BY DEF RollBack
<1>3. BindingInv'
  BY <1>1, <1>2 DEF InputInv, BindingInv, BindingTypeOK, OnePlan, HotkeysMatchPlan
<1>4. MachineInv'
  BY <1>2 DEF InputInv, MachineInv, mergerVars, machineVars, MachineTypeOK, PressedAgree,
       HoldDrivesSwitch, HoldsAreBound, ScriptsArePaired, PublishedIsCurrent
<1>5. WorldTypeOK'
  BY <1>2 DEF worldVars, InputInv, WorldTypeOK
<1> QED BY <1>3, <1>4, <1>5 DEF InputInv

LEMMA LoseHotkeysPreserves ==
  ASSUME InputInv, NEW config \in Configurations, LoseHotkeys(config)
  PROVE  InputInv'
<1>1. osHotkeys' = {}
  <2>1. PICK failing, lost :
          osHotkeys' = Unregister(HotkeysAfterFailure(config, failing)
                                    \cup {h \in plan.registered : h.id < lost.id}, plan.registered)
    BY DEF LoseHotkeys
  <2> QED BY <2>1, FailureLeavesNone, UnregisteredAll
<1>2. /\ plan' = EmptyPlan /\ scriptBindings' = {} /\ configured' = FALSE /\ ResetPressedKeys
      /\ published' = IF switches' = switches THEN published
                      ELSE Snapshot(visibilityRule, switches', FALSE)
      /\ UNCHANGED <<worldVars, samples, rawBindings, visibilityRule, activeBackend>>
  BY DEF LoseHotkeys
<1>3. BindingInv'
  <2>1. plan' \in AllPlans
    BY <1>2 DEF AllPlans
  <2>2. BindingTypeOK' /\ OnePlan'
    BY <1>2, <2>1 DEF InputInv, BindingInv, BindingTypeOK, OnePlan
  <2>3. HotkeysMatchPlan'
    BY <1>1, <1>2 DEF HotkeysMatchPlan, EmptyPlan
  <2> QED BY <2>2, <2>3 DEF BindingInv
<1>4. MachineInv'
  BY <1>2, ResetPreserves DEF InputInv
<1>5. WorldTypeOK'
  BY <1>2 DEF worldVars, InputInv, WorldTypeOK
<1> QED BY <1>3, <1>4, <1>5 DEF InputInv

-----------------------------------------------------------------------------
LEMMA NextPreserves ==
  ASSUME InputInv, [InputNext]_vars
  PROVE  InputInv'
<1>1. CASE UNCHANGED vars
  <2>1. UNCHANGED <<worldVars, samples, mergerVars, machineVars, bindingVars>>
    BY <1>1 DEF vars
  <2>2. WorldTypeOK'
    BY <2>1 DEF worldVars, InputInv, WorldTypeOK
  <2> QED BY <2>1, <2>2, SameMachines, SameBindings DEF InputInv
<1>2. ASSUME NEW key \in Keys, Press(key) \/ Release(key) PROVE InputInv'
  BY <1>2, PressPreserves
<1>3. CASE InputThread
  BY <1>3, PostedPreserves, RawPreserves, PollPreserves DEF InputThread
<1>4. CASE RawInputFails
  BY <1>4, RawPreserves
<1>5. CASE DeviceOrSessionChanges
  <2>1. ResetPressedKeys /\ PublishIfChanged /\ UNCHANGED <<worldVars, samples, bindingVars>>
    BY <1>5 DEF DeviceOrSessionChanges
  <2>2. MachineInv'
    BY <2>1, ResetPreserves DEF InputInv, bindingVars, PublishIfChanged
  <2>3. WorldTypeOK'
    BY <2>1 DEF worldVars, InputInv, WorldTypeOK
  <2> QED BY <2>1, <2>2, <2>3, SameBindings DEF InputInv
<1>6. ASSUME NEW config \in Configurations, Refuse(config) PROVE InputInv'
  <2>1. UNCHANGED <<worldVars, samples, mergerVars, machineVars, bindingVars>>
    BY <1>6 DEF Refuse
  <2>2. WorldTypeOK'
    BY <2>1 DEF worldVars, InputInv, WorldTypeOK
  <2> QED BY <2>1, <2>2, SameMachines, SameBindings DEF InputInv
<1>7. ASSUME NEW config \in Configurations, Apply(config) PROVE InputInv'
  BY <1>6, <1>7, ReplacePreserves, RollBackPreserves, LoseHotkeysPreserves DEF Apply
<1> QED BY <1>1, <1>2, <1>3, <1>4, <1>5, <1>7 DEF InputNext

THEOREM InputInvariant == InputSpec => []InputInv
<1>1. InputInit => InputInv
  BY InitInv
<1>2. InputInv /\ [InputNext]_vars => InputInv'
  BY NextPreserves
<1> QED BY <1>1, <1>2, PTL DEF InputSpec

(* Merger, switch machine, script machine and modifier keys always agree on *)
(* the keys that are down.                                                  *)
THEOREM MachinesAgree == InputSpec => []PressedAgree
<1>1. InputInv => PressedAgree
  BY DEF InputInv, MachineInv
<1> QED BY <1>1, InputInvariant, PTL

(* A switch stays on for as long as a hold drives it.                       *)
THEOREM HoldsDriveSwitches == InputSpec => []HoldDrivesSwitch
<1>1. InputInv => HoldDrivesSwitch
  BY DEF InputInv, MachineInv
<1> QED BY <1>1, InputInvariant, PTL

(* A script owed a release is one whose key is active.                      *)
THEOREM ScriptsStayPaired == InputSpec => []ScriptsArePaired
<1>1. InputInv => ScriptsArePaired
  BY DEF InputInv, MachineInv
<1> QED BY <1>1, InputInvariant, PTL

(* Whatever registration fails, the system holds the hotkeys of the plan.   *)
THEOREM HotkeysFollowPlan == InputSpec => []HotkeysMatchPlan
<1>1. InputInv => HotkeysMatchPlan
  BY DEF InputInv, BindingInv
<1> QED BY <1>1, InputInvariant, PTL

(* The state published last shows the switches as they are.                 *)
THEOREM PublishedStaysCurrent == InputSpec => []PublishedIsCurrent
<1>1. InputInv => PublishedIsCurrent
  BY DEF InputInv, MachineInv
<1> QED BY <1>1, InputInvariant, PTL

=============================================================================
