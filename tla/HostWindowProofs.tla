--------------------------- MODULE HostWindowProofs ---------------------------
(***************************************************************************)
(* Proofs about HostWindow, for any configurations and any number of        *)
(* snapshots, script callbacks and inputs: the window thread holds no       *)
(* mixture of configurations, the Host reports the one it runs, no prepared *)
(* configuration is left behind, and the overlays are shown as the scripts  *)
(* and the switches last said.                                              *)
(***************************************************************************)
EXTENDS HostWindow, SequenceFacts

-----------------------------------------------------------------------------
(* Types.                                                                   *)

Jobs == [at : {"idle", "prepare", "rebuild", "commit", "rollback", "discard",
               "publish", "closing", "joining", "ended", "died"},
         kind : {"none", "request", "torn", "commands"}, runtime : Runtimes,
         render : AnyConfig, input : AnyConfig]
Requests == [at : {"idle", "prepare", "send", "discard", "stopped"}, runtime : Runtimes,
             outcome : {"none", "sent", "taken", "applied", "failed"}]
Letters == [kind : {"update", "input"}, visible : BOOLEAN, flag : BOOLEAN, token : Tokens]
Replies == [state : {"none", "ok", "failed"}, runtime : Runtimes]

ScriptTypes ==
  /\ tasks \in Seq(Tasks) /\ active \in Runtimes /\ prepared \subseteq Runtimes
  /\ nextToken \in Nat \ {0} /\ Prepares <= MaxPrepares
  /\ answers \in [Callers -> Replies]
ThreadTypes == win \in Jobs /\ ipc \in Requests /\ inbox \in Seq(Letters)
ConfigTypes ==
  /\ render \in AnyConfig /\ input \in AnyConfig /\ current \in AnyConfig /\ drawn \in AnyConfig
  /\ hostState \in AnyConfig /\ inputConfig \in AnyConfig
FlagTypes ==
  /\ scriptVisible \in BOOLEAN /\ usesLua \in BOOLEAN
  /\ switchVisible \in BOOLEAN /\ switchConfigured \in BOOLEAN
  /\ shown \in BOOLEAN /\ inputVisible \in BOOLEAN /\ dangling \in BOOLEAN /\ torn \in BOOLEAN
  /\ heard \in Tokens
CountTypes == applies \in 0..MaxApplies /\ switches \in 0..MaxSwitches /\ inputs \in 0..MaxInputs
TypesOK == ScriptTypes /\ ThreadTypes /\ ConfigTypes /\ FlagTypes /\ CountTypes

LEMMA Constants ==
  /\ NoConfig \notin Configs /\ MaxPrepares \in Nat /\ 0 \in Tokens /\ Configs \subseteq AnyConfig
  /\ NoConfig \in AnyConfig /\ NoRuntime \in Runtimes /\ NoAnswer \in Replies
  /\ Idle \in Jobs /\ NoRequest \in Requests
  BY CoordinatorAssumption, WindowAssumption
     DEF Tokens, AnyConfig, NoRuntime, Runtimes, NoAnswer, Answer, Replies, Idle, Job, Jobs,
         NoRequest, Request, Requests

(* Calls: the queue grows by one task, and only one of prepare counts.      *)
PrepareTasks == {t \in Tasks : t.op = "prepare"}
Counted == Prepares = nextToken - 1 + Cardinality(PlacesOf(tasks, PrepareTasks))
QueueTyped == tasks \in Seq(Tasks)
LEMMA PreparesArePlaces == QueueTyped => Counted
<1> SUFFICES ASSUME QueueTyped PROVE Counted
  OBVIOUS
<1>1. \A i \in DOMAIN tasks : tasks[i] \in Tasks
  BY DEF QueueTyped
<1>2. PlacesOf(tasks, PrepareTasks) = {i \in DOMAIN tasks : tasks[i].op = "prepare"}
  BY <1>1 DEF PlacesOf, PrepareTasks
<1> QED BY <1>2 DEF Prepares, Counted

LEMMA CallTypes ==
  ASSUME ScriptTypes, NEW task \in Tasks, Call(task), task.op = "prepare" => Prepares < MaxPrepares
  PROVE  ScriptTypes'
<1>1. tasks' = Append(tasks, task) /\ tasks' \in Seq(Tasks) /\ UNCHANGED <<active, prepared, nextToken>>
  BY AppendRange DEF Call, ScriptTypes
<1>2. answers' \in [Callers -> Replies]
  BY Constants DEF Call, Taken, ScriptTypes
<1>3. Prepares' <= MaxPrepares
  <2>1. Cardinality(PlacesOf(tasks', PrepareTasks))
          = IF task \in PrepareTasks THEN Cardinality(PlacesOf(tasks, PrepareTasks)) + 1
                                     ELSE Cardinality(PlacesOf(tasks, PrepareTasks))
    BY <1>1, AppendPlaces DEF ScriptTypes
  <2>2. Prepares = nextToken - 1 + Cardinality(PlacesOf(tasks, PrepareTasks))
    BY PreparesArePlaces DEF ScriptTypes, Counted, QueueTyped
  <2>3. Prepares' = nextToken - 1 + Cardinality(PlacesOf(tasks', PrepareTasks))
    <3>1. QueueTyped' => Counted'
      BY PreparesArePlaces, PTL
    <3> QED BY <1>1, <3>1 DEF Counted, QueueTyped
  <2>4. Cardinality(PlacesOf(tasks, PrepareTasks)) \in Nat /\ nextToken \in Nat /\ MaxPrepares \in Nat
    BY PlacesFinite, Constants DEF ScriptTypes
  <2>5. task \in PrepareTasks => Prepares < MaxPrepares
    BY DEF PrepareTasks
  <2>6. Prepares <= MaxPrepares
    BY DEF ScriptTypes
  <2> QED BY <2>1, <2>2, <2>3, <2>4, <2>5, <2>6
<1> QED BY <1>1, <1>2, <1>3 DEF ScriptTypes

LEMMA GoOnTypes == ASSUME ScriptTypes, NEW who, GoOn(who) PROVE ScriptTypes'
<1>1. answers' \in [Callers -> Replies] /\ UNCHANGED <<tasks, active, prepared, nextToken>>
  BY Constants DEF GoOn, Taken, ScriptTypes
<1> QED BY <1>1 DEF ScriptTypes, Prepares

LEMMA PrepareTypes ==
  ASSUME ScriptTypes, NEW who \in Callers, NEW config \in Configs, Prepare(who, config)
  PROVE  ScriptTypes'
<1>1. Task("prepare", who, config, 0) \in Tasks
  BY Constants DEF Task, Tasks
<1> QED BY <1>1, CallTypes DEF Prepare, Task

LEMMA CommitTypes ==
  ASSUME ScriptTypes, NEW who \in Callers, NEW token \in Tokens, Commit(who, token)
  PROVE  ScriptTypes'
<1>1. Task("commit", who, NoConfig, token) \in Tasks
  BY Constants DEF Task, Tasks
<1> QED BY <1>1, CallTypes DEF Commit, Task

LEMMA DiscardTypes ==
  ASSUME ScriptTypes, NEW who \in Callers, NEW token \in Tokens, Discard(who, token)
  PROVE  ScriptTypes'
<1>1. Task("discard", who, NoConfig, token) \in Tasks
  BY Constants DEF Task, Tasks
<1> QED BY <1>1, CallTypes DEF Discard, Task

LEMMA InputCallTypes == ASSUME ScriptTypes, DispatchInput PROVE ScriptTypes'
<1>1. Task("input", "input", NoConfig, 0) \in Tasks
  BY Constants DEF Task, Tasks
<1> QED BY <1>1, CallTypes DEF DispatchInput, Task

(* Tasks: the queue shrinks by one, and a token is taken for it if it       *)
(* prepares.                                                                *)
LEMMA TaskTypes ==
  ASSUME ScriptTypes, RunPrepare \/ RunCommit \/ RunDiscard \/ IgnoreInput \/ \E visible \in BOOLEAN : RunInput(visible)
  PROVE  ScriptTypes'
<1>1. /\ tasks # <<>> /\ tasks' = Tail(tasks) /\ tasks' \in Seq(Tasks) /\ Head(tasks) \in Tasks
      /\ nextToken' = IF Head(tasks).op = "prepare" THEN nextToken + 1 ELSE nextToken
  <2>1. \E op : TakeTask(op) /\ nextToken' = IF op = "prepare" THEN nextToken + 1 ELSE nextToken
    BY DEF RunPrepare, RunCommit, RunDiscard, IgnoreInput, RunInput
  <2>2. tasks # <<>> /\ tasks' = Tail(tasks)
    BY <2>1 DEF TakeTask
  <2>3. nextToken' = IF Head(tasks).op = "prepare" THEN nextToken + 1 ELSE nextToken
    BY <2>1 DEF TakeTask
  <2> QED BY <2>2, <2>3, TailRange DEF ScriptTypes
<1>2. Prepares' = Prepares
  <2>1. Cardinality(PlacesOf(tasks', PrepareTasks))
          = IF Head(tasks) \in PrepareTasks THEN Cardinality(PlacesOf(tasks, PrepareTasks)) - 1
                                            ELSE Cardinality(PlacesOf(tasks, PrepareTasks))
    BY <1>1, TailPlaces DEF ScriptTypes
  <2>2. Prepares = nextToken - 1 + Cardinality(PlacesOf(tasks, PrepareTasks))
    BY PreparesArePlaces DEF ScriptTypes, Counted, QueueTyped
  <2>3. Prepares' = nextToken' - 1 + Cardinality(PlacesOf(tasks', PrepareTasks))
    <3>1. QueueTyped' => Counted'
      BY PreparesArePlaces, PTL
    <3> QED BY <1>1, <3>1 DEF Counted, QueueTyped
  <2>4. Cardinality(PlacesOf(tasks, PrepareTasks)) \in Nat /\ nextToken \in Nat
    BY PlacesFinite DEF ScriptTypes
  <2>5. Head(tasks) \in PrepareTasks <=> Head(tasks).op = "prepare"
    BY <1>1 DEF PrepareTasks
  <2> QED BY <1>1, <2>1, <2>2, <2>3, <2>4, <2>5
<1>3. nextToken' \in Nat \ {0}
  BY <1>1 DEF ScriptTypes
<1>4. CASE RunPrepare
  <2> DEFINE candidate == [token |-> nextToken, config |-> Head(tasks).config,
                           visible |-> Head(tasks).config \notin Hiding]
  <2>1. nextToken \in Tokens
    <3>1. Head(tasks).op = "prepare" /\ nextToken' = nextToken + 1
      BY <1>4 DEF RunPrepare, TakeTask
    <3>2. Prepares' = nextToken' - 1 + Cardinality(PlacesOf(tasks', PrepareTasks))
      <4>1. QueueTyped' => Counted'
        BY PreparesArePlaces, PTL
      <4> QED BY <1>1, <4>1 DEF Counted, QueueTyped
    <3>3. Cardinality(PlacesOf(tasks', PrepareTasks)) \in Nat
      BY <1>1, PlacesFinite
    <3> QED BY <1>2, <3>1, <3>2, <3>3, Constants DEF ScriptTypes, Tokens
  <2>2. candidate \in Runtimes
    BY <1>1, <2>1 DEF Tasks, Runtimes
  <2>3. Answer("ok", candidate) \in Replies /\ Answer("failed", NoRuntime) \in Replies
    BY <2>2, Constants DEF Answer, Replies
  <2> HIDE DEF candidate
  <2>4. \/ prepared' = prepared \cup {candidate} /\ Reply("ok", candidate)
        \/ prepared' = prepared /\ Reply("failed", NoRuntime)
    BY <1>4 DEF RunPrepare, candidate
  <2>5. prepared' \subseteq Runtimes /\ answers' \in [Callers -> Replies]
    BY <2>2, <2>3, <2>4 DEF ScriptTypes, Reply
  <2> QED BY <1>1, <1>2, <1>3, <1>4, <2>5 DEF RunPrepare, ScriptTypes
<1>5. CASE RunCommit
  <2>1. \A candidate \in prepared : Answer("ok", candidate) \in Replies
    BY DEF Answer, Replies, ScriptTypes
  <2>2. Answer("failed", NoRuntime) \in Replies
    BY Constants DEF Answer, Replies
  <2>3. active' \in Runtimes /\ prepared' \subseteq Runtimes /\ answers' \in [Callers -> Replies]
    BY <1>5, <2>1, <2>2 DEF RunCommit, Reply, NoCandidate, ScriptTypes
  <2> QED BY <1>1, <1>2, <1>3, <2>3 DEF ScriptTypes
<1>6. CASE RunDiscard
  <2>1. Answer("ok", NoRuntime) \in Replies
    BY Constants DEF Answer, Replies
  <2>2. UNCHANGED active /\ prepared' \subseteq Runtimes /\ answers' \in [Callers -> Replies]
    BY <1>6, <2>1 DEF RunDiscard, Reply, AfterDiscard, ScriptTypes
  <2> QED BY <1>1, <1>2, <1>3, <2>2 DEF ScriptTypes
<1>7. CASE IgnoreInput
  BY <1>1, <1>2, <1>3, <1>7 DEF IgnoreInput, ScriptTypes
<1>8. CASE \E visible \in BOOLEAN : RunInput(visible)
  <2>1. active' \in Runtimes /\ UNCHANGED <<prepared, answers>>
    BY <1>8 DEF RunInput, ScriptTypes, Runtimes
  <2> QED BY <1>1, <1>2, <1>3, <2>1 DEF ScriptTypes
<1> QED BY <1>4, <1>5, <1>6, <1>7, <1>8

(* What the steps of the window thread are made of.                         *)
LEMMA VisibilityTypes == UpdateVisibility => shown' \in BOOLEAN
  BY DEF UpdateVisibility, Visibility

LEMMA PostTypes ==
  ASSUME ThreadTypes, NEW kind \in {"update", "input"}, NEW visible \in BOOLEAN, NEW flag \in BOOLEAN,
         NEW token \in Tokens, Post(Posted(kind, visible, flag, token))
  PROVE  inbox' \in Seq(Letters)
<1>1. Posted(kind, visible, flag, token) \in Letters
  BY DEF Posted, Letters
<1> QED BY <1>1, AppendRange DEF Post, ThreadTypes

InputPart == <<inbox, inputConfig, inputVisible, dangling>>
InputTypes ==
  inbox \in Seq(Letters) /\ inputConfig \in AnyConfig /\ inputVisible \in BOOLEAN /\ dangling \in BOOLEAN
InputStep(config) == InputApplied(config) \/ InputRefused \/ InputLost \/ InputTimedOut(config)
LEMMA InputStepTypes ==
  ASSUME TypesOK, NEW config \in AnyConfig, InputStep(config)
  PROVE  InputTypes'
<1>1. InputTypes /\ ThreadTypes
  BY DEF TypesOK, ThreadTypes, ConfigTypes, FlagTypes, InputTypes
<1>2. ASSUME Published(config) PROVE inbox' \in Seq(Letters) /\ inputConfig' \in AnyConfig /\ inputVisible' \in BOOLEAN
  <2>1. inputConfig' = config /\ inputVisible' \in BOOLEAN
    BY <1>2 DEF Published
  <2>2. Post(Posted("input", inputVisible', TRUE, 0))
    BY <1>2 DEF Published
  <2>3. inbox' \in Seq(Letters)
    BY <1>1, <2>1, <2>2, PostTypes, Constants
  <2> QED BY <2>1, <2>3
<1>3. CASE InputApplied(config)
  BY <1>1, <1>2, <1>3 DEF InputApplied, InputTypes
<1>4. CASE InputRefused
  BY <1>1, <1>4 DEF InputRefused, InputTypes, inputVars
<1>5. CASE InputTimedOut(config)
  <2>1. dangling' = TRUE
    BY <1>5 DEF InputTimedOut
  <2>2. CASE Published(config)
    BY <1>2, <2>1, <2>2 DEF InputTypes
  <2>3. CASE UNCHANGED <<inputVars, inbox>>
    BY <1>1, <2>1, <2>3 DEF InputTypes, inputVars
  <2> QED BY <1>5, <2>2, <2>3 DEF InputTimedOut
<1>6. CASE InputLost
  <2>1. UNCHANGED dangling /\ inputConfig' = NoConfig
    BY <1>6 DEF InputLost
  <2>2. inbox' \in Seq(Letters) /\ inputVisible' \in BOOLEAN
    <3>1. CASE inputVisible' \in BOOLEAN /\ Post(Posted("input", inputVisible', FALSE, 0))
      BY <1>1, <3>1, PostTypes, Constants
    <3>2. CASE UNCHANGED <<inputVisible, inbox>>
      BY <1>1, <3>2 DEF InputTypes
    <3> QED BY <1>6, <3>1, <3>2 DEF InputLost
  <2> QED BY <1>1, <2>1, <2>2, Constants DEF InputTypes
<1> QED BY <1>3, <1>4, <1>5, <1>6 DEF InputStep

LEMMA JobTypes ==
  /\ \A runtime \in Runtimes, at \in {"idle", "prepare", "rebuild", "discard", "closing"},
        kind \in {"none", "request", "torn", "commands"} : Job(at, kind, runtime) \in Jobs
  /\ \A runtime \in Runtimes, at \in {"idle", "prepare", "send", "discard", "stopped"},
        outcome \in {"none", "sent", "taken", "applied", "failed"} : Request(at, runtime, outcome) \in Requests
  /\ \A config \in Configs : [NoRuntime EXCEPT !.config = config] \in Runtimes
  /\ \A runtime \in Runtimes : runtime.config \in AnyConfig /\ runtime.token \in Tokens
  BY Constants DEF Job, Jobs, Request, Requests, NoRuntime, Runtimes, AnyConfig

LEMMA Held ==
  ASSUME TypesOK
  PROVE  /\ win.runtime \in Runtimes /\ ipc.runtime \in Runtimes
         /\ win.render \in AnyConfig /\ win.input \in AnyConfig
         /\ answers["window"].runtime \in Runtimes /\ answers["ipc"].runtime \in Runtimes
  BY DEF TypesOK, ThreadTypes, ScriptTypes, Jobs, Requests, Replies, Callers

(* The steps of the IPC thread.                                             *)
LEMMA SendSnapshotTypes == ASSUME TypesOK, SendSnapshot PROVE TypesOK'
<1>1. UNCHANGED <<win, inbox, configVars, flags, inputVars, torn, switches, inputs, hostState, dangling, applies>>
  BY DEF SendSnapshot, ipcFrame
<1>2. ipc' \in Requests /\ ScriptTypes'
  <2>1. answers["ipc"].runtime \in Runtimes /\ answers["ipc"].runtime.token \in Tokens /\ ScriptTypes
    BY Held, JobTypes DEF TypesOK
  <2>2. CASE ipc' = NoRequest /\ GoOn("ipc")
    BY <2>1, <2>2, GoOnTypes, Constants
  <2>3. CASE GiveUp(answers["ipc"].runtime)
    <3>1. Discard("ipc", answers["ipc"].runtime.token) /\ ipc' \in Requests
      BY <2>1, <2>3, JobTypes DEF GiveUp
    <3> QED BY <2>1, <3>1, DiscardTypes DEF Callers
  <2>4. CASE ipc' = Request("send", answers["ipc"].runtime, "sent") /\ GoOn("ipc")
    <3>1. ipc' \in Requests
      BY <2>1, <2>4, JobTypes
    <3> QED BY <2>1, <2>4, <3>1, GoOnTypes
  <2> QED BY <2>2, <2>3, <2>4 DEF SendSnapshot
<1> QED BY <1>1, <1>2 DEF TypesOK, ThreadTypes, ConfigTypes, FlagTypes, CountTypes, configVars, flags, inputVars

LEMMA IpcTypes ==
  ASSUME TypesOK, IpcThread \/ ReceiveSnapshot PROVE TypesOK'
<1>1. CASE SendSnapshot
  BY <1>1, SendSnapshotTypes
<1>2. CASE WindowAnswered
  <2>1. UNCHANGED <<scriptVars, win, inbox, configVars, flags, inputVars, torn, counts, dangling>>
    BY <1>2 DEF WindowAnswered, ipcFrame, counts
  <2>2. ipc' \in Requests /\ hostState' \in AnyConfig
    <3>1. ipc' = NoRequest /\ (hostState' = ipc.runtime.config \/ hostState' = hostState)
      BY <1>2 DEF WindowAnswered
    <3> QED BY <3>1, Held, JobTypes, Constants DEF TypesOK, ConfigTypes
  <2>3. ScriptTypes'
    BY <2>1 DEF scriptVars, ScriptTypes, TypesOK, Prepares
  <2> QED BY <2>1, <2>2, <2>3 DEF TypesOK, ThreadTypes, ConfigTypes, FlagTypes, CountTypes, configVars, flags, inputVars, counts
<1>3. CASE TimeOut
  <2>1. UNCHANGED <<inbox, configVars, flags, inputVars, hostState, counts>>
    BY <1>3 DEF TimeOut
  <2>2. ScriptTypes' /\ ipc' \in Requests
    <3>1. ipc.runtime.token \in Tokens /\ ipc.runtime \in Runtimes
      BY Held, JobTypes
    <3>2. Discard("ipc", ipc.runtime.token) /\ ipc' = Request("discard", ipc.runtime, "none")
      BY <1>3 DEF TimeOut, GiveUp
    <3> QED BY <3>1, <3>2, DiscardTypes, JobTypes DEF TypesOK, Callers
  <2>3. dangling' \in BOOLEAN /\ torn' \in BOOLEAN
    BY <1>3 DEF TimeOut
  <2>4. win' \in Jobs
    BY <1>3 DEF TimeOut, TypesOK, ThreadTypes, Jobs
  <2> QED BY <2>1, <2>2, <2>3, <2>4 DEF TypesOK, ThreadTypes, ConfigTypes, FlagTypes, CountTypes, configVars, flags, inputVars, counts
<1>4. CASE SnapshotRefused
  <2>1. UNCHANGED <<win, inbox, configVars, flags, inputVars, torn, switches, inputs, hostState, dangling, applies>>
    BY <1>4 DEF SnapshotRefused, ipcFrame
  <2>2. ScriptTypes' /\ ipc' \in Requests
    BY <1>4, GoOnTypes, Constants DEF SnapshotRefused, TypesOK
  <2> QED BY <2>1, <2>2 DEF TypesOK, ThreadTypes, ConfigTypes, FlagTypes, CountTypes, configVars, flags, inputVars
<1>5. CASE ReceiveSnapshot
  <2>1. UNCHANGED <<win, inbox, configVars, flags, inputVars, torn, switches, inputs, hostState, dangling>>
    BY <1>5 DEF ReceiveSnapshot, ipcFrame
  <2>2. applies' \in 0..MaxApplies
    BY <1>5, WindowAssumption DEF ReceiveSnapshot, TypesOK, CountTypes
  <2>3. PICK config \in Configs : /\ Prepare("ipc", config)
                                  /\ ipc' = Request("prepare", [NoRuntime EXCEPT !.config = config], "none")
    BY <1>5 DEF ReceiveSnapshot
  <2>4. ScriptTypes' /\ ipc' \in Requests
    BY <2>3, PrepareTypes, JobTypes DEF TypesOK, Callers
  <2> QED BY <2>1, <2>2, <2>4 DEF TypesOK, ThreadTypes, ConfigTypes, FlagTypes, CountTypes, configVars, flags, inputVars
<1> QED BY <1>1, <1>2, <1>3, <1>4, <1>5 DEF IpcThread

(* The steps of the input and of the script thread.                         *)
LEMMA ScriptStepTypes ==
  ASSUME TypesOK, ScriptThread \/ ScriptKey \/ SwitchKey PROVE TypesOK'
<1>1. CASE ScriptKey
  <2>1. UNCHANGED <<win, ipc, inbox, configVars, flags, hostState, inputVars, dangling, torn, applies, switches>>
    BY <1>1 DEF ScriptKey
  <2>2. inputs' \in 0..MaxInputs
    BY <1>1, WindowAssumption DEF ScriptKey, TypesOK, CountTypes
  <2>3. ScriptTypes'
    BY <1>1, InputCallTypes DEF ScriptKey, TypesOK
  <2> QED BY <2>1, <2>2, <2>3 DEF TypesOK, ThreadTypes, ConfigTypes, FlagTypes, CountTypes, configVars, flags, inputVars
<1>2. CASE SwitchKey
  <2>1. UNCHANGED <<scriptVars, win, ipc, configVars, flags, hostState, inputConfig, dangling, torn, applies, switches>>
    BY <1>2 DEF SwitchKey
  <2>2. inputs' \in 0..MaxInputs
    BY <1>2, WindowAssumption DEF SwitchKey, TypesOK, CountTypes
  <2>3. inputVisible' \in BOOLEAN
    BY <1>2 DEF SwitchKey
  <2>4. inbox' \in Seq(Letters)
    <3>1. Post(Posted("input", inputVisible', TRUE, 0))
      BY <1>2 DEF SwitchKey
    <3> QED BY <2>3, <3>1, PostTypes, Constants DEF TypesOK
  <2>5. ScriptTypes'
    BY <2>1 DEF scriptVars, ScriptTypes, TypesOK, Prepares
  <2> QED BY <2>1, <2>2, <2>3, <2>4, <2>5 DEF TypesOK, ThreadTypes, ConfigTypes, FlagTypes, CountTypes, configVars, flags, inputVars
<1>3. CASE ScriptTask
  <2>1. UNCHANGED <<win, ipc, inbox, configVars, flags, hostState, inputVars, dangling, torn, counts>>
    BY <1>3 DEF ScriptTask
  <2>2. ScriptTypes'
    BY <1>3, TaskTypes DEF ScriptTask, TypesOK
  <2> QED BY <2>1, <2>2 DEF TypesOK, ThreadTypes, ConfigTypes, FlagTypes, CountTypes, configVars, flags, inputVars, counts
<1>4. CASE ScriptCallback
  <2>1. UNCHANGED <<win, ipc, configVars, flags, hostState, inputVars, dangling, torn, applies, inputs>>
    BY <1>4 DEF ScriptCallback
  <2>2. ScriptTypes'
    BY <1>4, TaskTypes DEF ScriptCallback, TypesOK
  <2>3. PICK commands \in BOOLEAN :
          /\ commands => switches < MaxSwitches
          /\ switches' = IF commands THEN switches + 1 ELSE switches
          /\ Post(Posted("update", active'.visible, commands, active.token))
    BY <1>4 DEF ScriptCallback
  <2>4. switches' \in 0..MaxSwitches
    BY <2>3, WindowAssumption DEF TypesOK, CountTypes
  <2>5. inbox' \in Seq(Letters)
    <3>1. active'.visible \in BOOLEAN /\ active.token \in Tokens
      BY <2>2 DEF ScriptTypes, TypesOK, Runtimes
    <3> QED BY <2>3, <3>1, PostTypes DEF TypesOK
  <2> QED BY <2>1, <2>2, <2>4, <2>5 DEF TypesOK, ThreadTypes, ConfigTypes, FlagTypes, CountTypes, configVars, flags, inputVars
<1> QED BY <1>1, <1>2, <1>3, <1>4 DEF ScriptThread

(* The steps of the window thread.                                          *)
LEMMA ApplyTypes ==
  ASSUME TypesOK, NEW kind \in {"request", "commands"}, NEW runtime \in Runtimes,
         ApplySnapshot(kind, runtime)
  PROVE  /\ ScriptTypes' /\ win' \in Jobs /\ InputTypes'
         /\ render' \in AnyConfig /\ input' \in AnyConfig /\ UNCHANGED <<current, drawn, flags>>
<1>1. runtime.config \in AnyConfig /\ runtime.token \in Tokens
  BY JobTypes
<1>2. CASE RefusedByInput(kind, runtime)
  <2>1. InputStep(runtime.config) /\ Discard("window", runtime.token)
        /\ win' = Job("discard", kind, runtime) /\ UNCHANGED <<render, input, current, drawn, flags>>
    BY <1>2 DEF RefusedByInput, InputStep, configVars
  <2>2. ScriptTypes' /\ InputTypes'
    BY <1>1, <2>1, DiscardTypes, InputStepTypes DEF TypesOK, Callers
  <2>3. win' \in Jobs
    BY <2>1, JobTypes
  <2> QED BY <2>1, <2>2, <2>3 DEF TypesOK, ConfigTypes
<1>3. CASE TakenByInput(kind, runtime)
  <2>1. /\ InputStep(runtime.config) /\ render' = runtime.config /\ input' = runtime.config
        /\ win' = Remembering(Job("rebuild", kind, runtime)) /\ UNCHANGED <<current, drawn, flags>>
    BY <1>3 DEF TakenByInput, InputStep
  <2>2. ScriptTypes'
    <3>1. CASE GoOn("window")
      BY <3>1, GoOnTypes DEF TypesOK
    <3>2. CASE UNCHANGED scriptVars
      BY <3>2 DEF scriptVars, ScriptTypes, TypesOK, Prepares
    <3> QED BY <1>3, <3>1, <3>2 DEF TakenByInput, TakeAnswer
  <2>3. InputTypes'
    BY <1>1, <2>1, InputStepTypes
  <2>4. win' \in Jobs
    <3>1. Job("rebuild", kind, runtime) \in Jobs
      BY JobTypes
    <3> QED BY <2>1, <3>1 DEF Remembering, TypesOK, ConfigTypes, Jobs
  <2> QED BY <1>1, <2>1, <2>2, <2>3, <2>4
<1> QED BY <1>2, <1>3 DEF ApplySnapshot

LEMMA ApplyingTypes ==
  ASSUME TypesOK, HandleSnapshot \/ CommandsPrepared PROVE TypesOK'
<1>1. CASE HandleSnapshot
  <2>1. ApplySnapshot("request", ipc.runtime) /\ ipc' = [ipc EXCEPT !.outcome = "taken"]
        /\ UNCHANGED <<hostState, counts, torn>>
    BY <1>1 DEF HandleSnapshot, applyFrame
  <2>2. ipc' \in Requests
    BY <2>1 DEF TypesOK, ThreadTypes, Requests
  <2> QED BY <2>1, <2>2, ApplyTypes, Held DEF TypesOK, ThreadTypes, ConfigTypes, FlagTypes, CountTypes, configVars, flags, inputVars, counts, InputTypes
<1>2. CASE CommandsPrepared
  <2>1. UNCHANGED <<ipc, hostState, counts, torn>>
    BY <1>2 DEF CommandsPrepared, applyFrame
  <2>2. PICK runtime \in Runtimes : runtime = answers["window"].runtime
    BY Held
  <2>3. CASE win' = Idle /\ GoOn("window") /\ UpdateVisibility
             /\ UNCHANGED <<inbox, configVars, inputVars, dangling,
                            scriptVisible, usesLua, switchVisible, switchConfigured, heard>>
    <3>1. ScriptTypes' /\ shown' \in BOOLEAN
      BY <2>3, GoOnTypes, VisibilityTypes DEF TypesOK
    <3> QED BY <2>1, <2>3, <3>1, Constants DEF TypesOK, ThreadTypes, ConfigTypes, FlagTypes, CountTypes, configVars, flags, inputVars, counts
  <2>4. CASE Discard("window", runtime.token) /\ win' = Job("discard", "commands", runtime)
             /\ UNCHANGED <<inbox, configVars, inputVars, dangling, flags>>
    <3>1. ScriptTypes' /\ win' \in Jobs
      BY <2>4, DiscardTypes, JobTypes DEF TypesOK, Callers
    <3> QED BY <2>1, <2>4, <3>1 DEF TypesOK, ThreadTypes, ConfigTypes, FlagTypes, CountTypes, configVars, flags, inputVars, counts
  <2>5. CASE ApplySnapshot("commands", runtime)
    BY <2>1, <2>5, ApplyTypes DEF TypesOK, ThreadTypes, ConfigTypes, FlagTypes, CountTypes, configVars, flags, inputVars, counts, InputTypes
  <2> QED BY <1>2, <2>2, <2>3, <2>4, <2>5 DEF CommandsPrepared
<1> QED BY <1>1, <1>2

LEMMA CommittingTypes ==
  ASSUME TypesOK, Rebuild \/ CommitDone \/ CommitFailed \/ RollBack \/ DiscardDone \/ PublishSnapshot
  PROVE  TypesOK'
<1>1. win \in Jobs /\ ipc \in Requests /\ win.runtime.config \in AnyConfig /\ win.runtime.token \in Tokens
  BY Held, JobTypes DEF TypesOK, ThreadTypes
<1>2. CASE Rebuild
  <2>1. UNCHANGED <<scriptVisible, usesLua, switchVisible, switchConfigured, heard,
                    ipc, inbox, render, input, current, inputVars, hostState, dangling, counts, torn>>
    BY <1>2 DEF Rebuild, windowFrame
  <2>2. CASE Rebuilt(win.runtime.config) /\ Commit("window", win.runtime.token)
             /\ win' = [win EXCEPT !.at = "commit"] /\ UpdateVisibility
    <3>1. ScriptTypes' /\ shown' \in BOOLEAN /\ drawn' \in AnyConfig /\ win' \in Jobs
      BY <1>1, <2>2, CommitTypes, VisibilityTypes DEF TypesOK, Callers, Rebuilt, Jobs
    <3> QED BY <2>1, <3>1 DEF TypesOK, ThreadTypes, ConfigTypes, FlagTypes, CountTypes, configVars, flags, inputVars, counts
  <2>3. CASE RebuildFails /\ win' = [win EXCEPT !.at = "rollback"]
             /\ shown' = (shown /\ drawn' = drawn) /\ UNCHANGED scriptVars
    <3>1. drawn' \in AnyConfig /\ win' \in Jobs
      BY <1>1, <2>3, Constants DEF RebuildFails, TypesOK, ConfigTypes, Jobs
    <3>2. shown' \in BOOLEAN
      BY <2>3
    <3>3. ScriptTypes'
      BY <2>3 DEF scriptVars, ScriptTypes, TypesOK, Prepares
    <3> QED BY <2>1, <3>1, <3>2, <3>3 DEF TypesOK, ThreadTypes, ConfigTypes, FlagTypes, CountTypes, configVars, flags, inputVars, counts
  <2> QED BY <1>2, <2>2, <2>3 DEF Rebuild
<1>3. CASE CommitDone
  <2>1. UNCHANGED <<switchVisible, switchConfigured, inbox, render, input, drawn, inputVars,
                    hostState, dangling, counts, torn>>
    BY <1>3 DEF CommitDone, windowFrame
  <2>2. scriptVisible' \in BOOLEAN /\ usesLua' \in BOOLEAN /\ heard' \in Tokens /\ current' \in AnyConfig
    <3>1. win.runtime.visible \in BOOLEAN
      BY Held DEF Runtimes
    <3> QED BY <1>1, <1>3, <3>1 DEF CommitDone, UsesLua
  <2>3. shown' \in BOOLEAN
    BY <1>3, VisibilityTypes DEF CommitDone
  <2>4. ipc' \in Requests /\ win' \in Jobs
    BY <1>1, <1>3, Constants DEF CommitDone, Reported, Requests, Jobs
  <2>5. ScriptTypes'
    BY <1>3, GoOnTypes DEF CommitDone, TypesOK
  <2> QED BY <2>1, <2>2, <2>3, <2>4, <2>5 DEF TypesOK, ThreadTypes, ConfigTypes, FlagTypes, CountTypes, configVars, flags, inputVars, counts
<1>4. CASE CommitFailed
  <2>1. UNCHANGED <<ipc, inbox, configVars, flags, inputVars, hostState, dangling, counts, torn>>
    BY <1>4 DEF CommitFailed, windowFrame
  <2>2. ScriptTypes' /\ win' \in Jobs
    BY <1>1, <1>4, GoOnTypes DEF CommitFailed, TypesOK, Jobs
  <2> QED BY <2>1, <2>2 DEF TypesOK, ThreadTypes, ConfigTypes, FlagTypes, CountTypes, configVars, flags, inputVars, counts
<1>5. CASE RollBack
  <2>1. UNCHANGED <<ipc, current, drawn, flags, hostState, counts, torn>>
    BY <1>5 DEF RollBack, applyFrame
  <2>2. render' \in AnyConfig /\ input' \in AnyConfig /\ win' \in Jobs
    BY <1>1, <1>5, Held DEF RollBack, Jobs
  <2>3. ScriptTypes'
    BY <1>1, <1>5, DiscardTypes DEF RollBack, TypesOK, Callers
  <2>4. InputTypes'
    <3>1. InputStep(win.input)
      BY <1>5 DEF RollBack, RestoreInput, InputStep
    <3> QED BY <3>1, Held, InputStepTypes
  <2> QED BY <2>1, <2>2, <2>3, <2>4 DEF TypesOK, ThreadTypes, ConfigTypes, FlagTypes, CountTypes, configVars, flags, inputVars, counts, InputTypes
<1>6. CASE DiscardDone
  <2>1. UNCHANGED <<scriptVisible, usesLua, switchVisible, switchConfigured, heard,
                    inbox, configVars, inputVars, hostState, dangling, counts, torn>>
    BY <1>6 DEF DiscardDone, windowFrame
  <2>2. ScriptTypes' /\ ipc' \in Requests /\ win' \in Jobs
    BY <1>1, <1>6, GoOnTypes, Constants DEF DiscardDone, Reported, Requests, TypesOK
  <2>3. shown' \in BOOLEAN
    BY <1>6, VisibilityTypes DEF DiscardDone, TypesOK, FlagTypes
  <2> QED BY <2>1, <2>2, <2>3 DEF TypesOK, ThreadTypes, ConfigTypes, FlagTypes, CountTypes, configVars, flags, inputVars, counts
<1>7. CASE PublishSnapshot
  <2>1. UNCHANGED <<scriptVisible, usesLua, switchVisible, switchConfigured, heard,
                    scriptVars, ipc, inbox, configVars, inputVars, dangling, torn, counts>>
    BY <1>7 DEF PublishSnapshot
  <2>2. hostState' \in AnyConfig /\ win' \in Jobs /\ shown' \in BOOLEAN
    BY <1>1, <1>7, Constants, VisibilityTypes DEF PublishSnapshot
  <2>3. ScriptTypes'
    BY <2>1 DEF scriptVars, ScriptTypes, TypesOK, Prepares
  <2> QED BY <2>1, <2>2, <2>3 DEF TypesOK, ThreadTypes, ConfigTypes, FlagTypes, CountTypes, configVars, flags, inputVars, counts
<1> QED BY <1>2, <1>3, <1>4, <1>5, <1>6, <1>7

LEMMA MessageTypes ==
  ASSUME TypesOK, HandleUpdate \/ HandleInputState \/ Redraw PROVE TypesOK'
<1>1. CASE HandleUpdate
  <2>1. UNCHANGED <<usesLua, switchVisible, switchConfigured, ipc, configVars, inputVars,
                    hostState, dangling, counts, torn>>
    BY <1>1 DEF HandleUpdate, windowFrame
  <2>2. inbox' \in Seq(Letters) /\ Head(inbox) \in Letters
    BY <1>1, TailRange DEF HandleUpdate, TypesOK, ThreadTypes
  <2>3. scriptVisible' \in BOOLEAN /\ heard' \in Tokens
    BY <1>1, <2>2 DEF HandleUpdate, Letters
  <2>4. CASE UpdateVisibility /\ win' = Idle /\ UNCHANGED scriptVars
    <3>1. shown' \in BOOLEAN
      BY <2>4, VisibilityTypes
    <3>2. ScriptTypes'
      BY <2>4 DEF scriptVars, ScriptTypes, TypesOK, Prepares
    <3> QED BY <2>1, <2>2, <2>3, <2>4, <3>1, <3>2, Constants DEF TypesOK, ThreadTypes, ConfigTypes, FlagTypes, CountTypes, configVars, flags, inputVars, counts
  <2>5. CASE /\ \E config \in Configs :
                  /\ Prepare("window", config)
                  /\ win' = Job("prepare", "commands", [NoRuntime EXCEPT !.config = config])
             /\ shown' = shown
    <3>1. ScriptTypes' /\ win' \in Jobs
      BY <2>5, PrepareTypes, JobTypes DEF TypesOK, Callers
    <3> QED BY <2>1, <2>2, <2>3, <2>5, <3>1 DEF TypesOK, ThreadTypes, ConfigTypes, FlagTypes, CountTypes, configVars, flags, inputVars, counts
  <2> QED BY <1>1, <2>4, <2>5 DEF HandleUpdate
<1>2. CASE HandleInputState
  <2>1. UNCHANGED <<scriptVisible, usesLua, heard, scriptVars, ipc, win, configVars, inputVars,
                    hostState, dangling, counts, torn>>
    BY <1>2 DEF HandleInputState, windowFrame
  <2>2. inbox' \in Seq(Letters) /\ Head(inbox) \in Letters
    BY <1>2, TailRange DEF HandleInputState, TypesOK, ThreadTypes
  <2>3. switchVisible' \in BOOLEAN /\ switchConfigured' \in BOOLEAN
    BY <1>2, <2>2 DEF HandleInputState, Letters
  <2>4. shown' \in BOOLEAN
    BY <1>2, VisibilityTypes DEF HandleInputState
  <2>5. ScriptTypes'
    BY <2>1 DEF scriptVars, ScriptTypes, TypesOK, Prepares
  <2> QED BY <2>1, <2>2, <2>3, <2>4, <2>5 DEF TypesOK, ThreadTypes, ConfigTypes, FlagTypes, CountTypes, configVars, flags, inputVars, counts
<1>3. CASE Redraw
  <2>1. UNCHANGED <<scriptVisible, usesLua, switchVisible, switchConfigured, heard, scriptVars,
                    ipc, inbox, win, render, input, current, inputVars,
                    hostState, dangling, counts, torn>>
    BY <1>3 DEF Redraw, windowFrame
  <2>2. shown' \in BOOLEAN /\ drawn' \in AnyConfig
    BY <1>3, VisibilityTypes DEF Redraw, Rebuilt, TypesOK, ConfigTypes
  <2>3. ScriptTypes'
    BY <2>1 DEF scriptVars, ScriptTypes, TypesOK, Prepares
  <2> QED BY <2>1, <2>2, <2>3 DEF TypesOK, ThreadTypes, ConfigTypes, FlagTypes, CountTypes, configVars, flags, inputVars, counts
<1> QED BY <1>1, <1>2, <1>3

LEMMA EndTypes ==
  ASSUME TypesOK, Close \/ JoinIpcAndInput \/ JoinScripts \/ DieOfDangling PROVE TypesOK'
<1>1. CASE Close
  <2>1. UNCHANGED <<scriptVars, ipc, inbox, configVars, flags, inputVars, hostState, dangling, counts, torn>>
    BY <1>1 DEF Close, windowFrame
  <2>2. win' \in Jobs
    BY <1>1, JobTypes, Constants DEF Close
  <2>3. ScriptTypes'
    BY <2>1 DEF scriptVars, ScriptTypes, TypesOK, Prepares
  <2> QED BY <2>1, <2>2, <2>3 DEF TypesOK, ThreadTypes, ConfigTypes, FlagTypes, CountTypes, configVars, flags, inputVars, counts
<1>2. CASE JoinIpcAndInput
  <2>1. UNCHANGED <<scriptVars, inbox, configVars, flags, inputVisible, hostState, dangling, counts, torn>>
    BY <1>2 DEF JoinIpcAndInput, windowFrame
  <2>2. ipc' \in Requests /\ win' \in Jobs /\ inputConfig' \in AnyConfig
    BY <1>2, Constants DEF JoinIpcAndInput, TypesOK, ThreadTypes, Requests, Jobs
  <2>3. ScriptTypes'
    BY <2>1 DEF scriptVars, ScriptTypes, TypesOK, Prepares
  <2> QED BY <2>1, <2>2, <2>3 DEF TypesOK, ThreadTypes, ConfigTypes, FlagTypes, CountTypes, configVars, flags, inputVars, counts
<1>3. CASE JoinScripts
  <2>1. UNCHANGED <<ipc, inbox, configVars, flags, inputVars, hostState, dangling, counts, torn>>
    BY <1>3 DEF JoinScripts, windowFrame
  <2>2. win' \in Jobs
    BY <1>3 DEF JoinScripts, TypesOK, ThreadTypes, Jobs
  <2>3. ScriptTypes'
    BY <1>3, Constants DEF JoinScripts, StopCoordinator, ScriptTypes, TypesOK, Prepares
  <2> QED BY <2>1, <2>2, <2>3 DEF TypesOK, ThreadTypes, ConfigTypes, FlagTypes, CountTypes, configVars, flags, inputVars, counts
<1>4. CASE DieOfDangling
  <2>1. win' \in Jobs /\ ipc' = NoRequest /\ inbox' = <<>> /\ UNCHANGED <<dangling, torn, counts>>
    BY <1>4, Constants DEF DieOfDangling, Jobs
  <2>2. /\ {render', input', current', drawn', hostState', inputConfig'} = {NoConfig}
        /\ inputVisible' = FALSE /\ scriptVisible' = TRUE /\ usesLua' = FALSE /\ switchVisible' = TRUE
        /\ switchConfigured' = FALSE /\ shown' = FALSE /\ heard' = 0
    BY <1>4 DEF DieOfDangling
  <2>3. ScriptTypes'
    <3>1. tasks' = <<>> /\ active' = NoRuntime /\ prepared' = {} /\ nextToken' = 1
      BY <1>4 DEF DieOfDangling
    <3>2. answers' \in [Callers -> Replies]
      BY <1>4, Constants DEF DieOfDangling
    <3>3. PlacesOf(tasks', PrepareTasks) = {}
      BY <3>1 DEF PlacesOf
    <3>4. Prepares' = nextToken' - 1 + Cardinality(PlacesOf(tasks', PrepareTasks))
      <4>1. QueueTyped' => Counted'
        BY PreparesArePlaces, PTL
      <4> QED BY <3>1, <4>1, EmptyRange DEF Counted, QueueTyped
    <3>5. Prepares' = 0
      BY <3>1, <3>3, <3>4, FS_EmptySet
    <3> QED BY <3>1, <3>2, <3>5, Constants, EmptyRange DEF ScriptTypes
  <2>4. inbox' \in Seq(Letters)
    BY <2>1, EmptyRange
  <2> QED BY <2>1, <2>2, <2>3, <2>4, Constants DEF TypesOK, ThreadTypes, ConfigTypes, FlagTypes, CountTypes, configVars, flags, inputVars, counts
<1> QED BY <1>1, <1>2, <1>3, <1>4

LEMMA InitTypes == WindowInit => TypesOK
<1> SUFFICES ASSUME WindowInit PROVE TypesOK
  OBVIOUS
<1>1. tasks = <<>> /\ inbox = <<>> /\ nextToken = 1 /\ active = NoRuntime /\ prepared = {}
      /\ answers = [who \in Callers |-> NoAnswer]
  BY DEF WindowInit, CoordinatorInit
<1>2. ScriptTypes
  <2>1. Prepares = 0
    <3>1. PlacesOf(tasks, PrepareTasks) = {}
      BY <1>1 DEF PlacesOf
    <3>2. Prepares = nextToken - 1 + Cardinality(PlacesOf(tasks, PrepareTasks))
      BY <1>1, PreparesArePlaces, EmptyRange DEF Counted, QueueTyped
    <3> QED BY <1>1, <3>1, <3>2, FS_EmptySet
  <2> QED BY <1>1, <2>1, Constants, EmptyRange DEF ScriptTypes
<1>3. ThreadTypes
  BY <1>1, Constants, EmptyRange DEF WindowInit, ThreadTypes
<1>4. ConfigTypes
  BY Constants DEF WindowInit, ConfigTypes
<1>5. FlagTypes
  BY Constants DEF WindowInit, FlagTypes
<1>6. CountTypes
  BY WindowAssumption DEF WindowInit, CountTypes
<1> QED BY <1>2, <1>3, <1>4, <1>5, <1>6 DEF TypesOK

LEMMA TypesKept == TypesOK /\ [WindowNext]_hostVars => TypesOK'
<1> SUFFICES ASSUME TypesOK, [WindowNext]_hostVars PROVE TypesOK'
  OBVIOUS
<1>1. CASE WindowNext
  BY <1>1, IpcTypes, ScriptStepTypes, ApplyingTypes, CommittingTypes, MessageTypes, EndTypes
     DEF WindowNext, WindowThread, Environment
<1>2. CASE UNCHANGED hostVars
  <2>1. UNCHANGED <<scriptVars, win, ipc, inbox, configVars, flags, hostState, inputVars,
                    dangling, torn, counts>>
    BY <1>2 DEF hostVars
  <2>2. ScriptTypes'
    BY <2>1 DEF scriptVars, ScriptTypes, TypesOK, Prepares
  <2> QED BY <2>1, <2>2 DEF TypesOK, ThreadTypes, ConfigTypes, FlagTypes, CountTypes, configVars, flags, inputVars, counts
<1> QED BY <1>1, <1>2

-----------------------------------------------------------------------------
(* Calls and answers.  Each caller has at most one call in the queue of the  *)
(* script thread, the one it waits for, and an answer only where it waits.  *)

Waits == {"prepare", "commit", "discard"}
TasksOf(who) == {t \in Tasks : t.who = who}
Free(seq, who) == Range(seq) \cap TasksOf(who) = {}
Waiting(seq, answer, who, at, token) ==
  /\ Once(seq, TasksOf(who))
  /\ \A t \in Range(seq) \cap TasksOf(who) :
       t.op = at /\ at \in Waits /\ answer.state = "none" /\ (at = "commit" => t.token = token)
  /\ answer.state # "none" => at \in Waits
InputCalls == \A t \in Range(tasks) : t.who = "input" => t.op = "input"
CallsInv ==
  /\ Waiting(tasks, answers["window"], "window", win.at, win.runtime.token)
  /\ Waiting(tasks, answers["ipc"], "ipc", ipc.at, ipc.runtime.token)
  /\ InputCalls

LEMMA FreeWaits ==
  ASSUME NEW seq \in Seq(Tasks), NEW who, NEW answer, answer.state = "none", Free(seq, who), NEW at, NEW token
  PROVE  Waiting(seq, answer, who, at, token)
<1>1. \A i \in 1..Len(seq) : seq[i] \notin TasksOf(who)
  BY DEF Free, Range
<1> QED BY <1>1 DEF Waiting, Once, Free

LEMMA WaitingFree ==
  ASSUME NEW seq, NEW who, NEW answer, NEW at, NEW token, Waiting(seq, answer, who, at, token),
         at \notin Waits \/ answer.state # "none"
  PROVE  Free(seq, who)
  BY DEF Waiting, Free

LEMMA OwnCall ==
  ASSUME NEW seq \in Seq(Tasks), NEW who, NEW task \in TasksOf(who), Free(seq, who), task.op \in Waits,
         NEW token, task.op = "commit" => task.token = token
  PROVE  Waiting(Append(seq, task), NoAnswer, who, task.op, token)
<1>1. NoAnswer.state = "none" /\ task \in Tasks
  BY DEF NoAnswer, Answer, TasksOf
<1>2. Once(seq, TasksOf(who))
  BY <1>1, FreeWaits DEF Waiting
<1>3. Once(Append(seq, task), TasksOf(who)) /\ Range(Append(seq, task)) = Range(seq) \cup {task}
  BY <1>1, <1>2, AppendOnce, AppendRange DEF Free
<1> QED BY <1>1, <1>3 DEF Waiting, Free

LEMMA OthersCall ==
  ASSUME NEW seq \in Seq(Tasks), NEW who, NEW task \in Tasks, task.who # who,
         NEW answer, NEW at, NEW token, Waiting(seq, answer, who, at, token)
  PROVE  Waiting(Append(seq, task), answer, who, at, token)
<1>1. task \notin TasksOf(who)
  BY DEF TasksOf
<1>2. Once(Append(seq, task), TasksOf(who)) /\ Range(Append(seq, task)) = Range(seq) \cup {task}
  BY <1>1, AppendOnce, AppendRange DEF Waiting
<1> QED BY <1>1, <1>2 DEF Waiting

LEMMA TaskDone ==
  ASSUME NEW seq \in Seq(Tasks), seq # <<>>, NEW who, NEW answer, NEW at, NEW token,
         Waiting(seq, answer, who, at, token), NEW next, Head(seq).who # who => next = answer
  PROVE  Waiting(Tail(seq), next, who, at, token)
<1>1. /\ Tail(seq) \in Seq(Tasks) /\ Range(Tail(seq)) \subseteq Range(seq)
      /\ Head(seq) \in Tasks /\ Head(seq) \in Range(seq)
  BY TailRange
<1>2. Once(Tail(seq), TasksOf(who)) /\ (Head(seq) \in TasksOf(who) => Free(Tail(seq), who))
  BY TailOnce DEF Waiting, Free
<1>3. Head(seq) \in TasksOf(who) => at \in Waits
  BY <1>1 DEF Waiting
<1>4. Head(seq) \notin TasksOf(who) => next = answer
  BY <1>1 DEF TasksOf
<1> QED BY <1>1, <1>2, <1>3, <1>4 DEF Waiting, Free

(* What the calls do to the queue and to the answer each caller holds.      *)
LEMMA CallEffect ==
  ASSUME ScriptTypes, NEW task \in Tasks, Call(task), NEW who \in Callers
  PROVE  /\ tasks' = Append(tasks, task) /\ Range(tasks') = Range(tasks) \cup {task}
         /\ answers'[who] = IF task.who = who THEN NoAnswer ELSE answers[who]
         /\ UNCHANGED <<active, prepared, nextToken>>
<1>1. tasks' = Append(tasks, task) /\ UNCHANGED <<active, prepared, nextToken>>
  BY DEF Call
<1>2. answers'[who] = IF task.who = who THEN NoAnswer ELSE answers[who]
  BY DEF Call, Taken, ScriptTypes
<1> QED BY <1>1, <1>2, AppendRange DEF ScriptTypes

LEMMA GoOnEffect ==
  ASSUME ScriptTypes, NEW caller \in Callers, GoOn(caller), NEW who \in Callers
  PROVE  /\ UNCHANGED <<tasks, active, prepared, nextToken>>
         /\ answers'[who] = IF caller = who THEN NoAnswer ELSE answers[who]
  BY DEF GoOn, Taken, ScriptTypes

(* One step of either caller, by what it does to the queue.                 *)
CallerStep(who, at, token) ==
  \/ GoOn(who)
  \/ UNCHANGED scriptVars /\ ~Answered(who)
  \/ \E task \in TasksOf(who) :
       Call(task) /\ task.op = at /\ task.op \in Waits /\ (task.op = "commit" => task.token = token)
LEMMA CallerWaits ==
  ASSUME ScriptTypes, NEW who \in Callers, Free(tasks, who), NEW at, NEW token, CallerStep(who, at, token)
  PROVE  /\ Waiting(tasks', answers'[who], who, at, token)
         /\ \A other \in Callers \ {who} : \A place, name :
              Waiting(tasks, answers[other], other, place, name)
                => Waiting(tasks', answers'[other], other, place, name)
         /\ InputCalls => InputCalls'
<1>1. NoAnswer.state = "none" /\ tasks \in Seq(Tasks)
  BY DEF NoAnswer, Answer, ScriptTypes
<1>2. CASE GoOn(who)
  <2>1. tasks' = tasks /\ \A other \in Callers : answers'[other] = IF who = other THEN NoAnswer ELSE answers[other]
    BY <1>2, GoOnEffect
  <2> QED BY <1>1, <2>1, FreeWaits DEF InputCalls
<1>3. CASE UNCHANGED scriptVars /\ ~Answered(who)
  <2>1. tasks' = tasks /\ answers' = answers /\ answers[who].state = "none"
    BY <1>3 DEF scriptVars, Answered
  <2> QED BY <1>1, <2>1, FreeWaits DEF InputCalls
<1>4. ASSUME NEW task \in TasksOf(who), Call(task), task.op = at, task.op \in Waits,
             task.op = "commit" => task.token = token
      PROVE  /\ Waiting(tasks', answers'[who], who, at, token)
             /\ \A other \in Callers \ {who} : \A place, name :
                  Waiting(tasks, answers[other], other, place, name)
                    => Waiting(tasks', answers'[other], other, place, name)
             /\ InputCalls => InputCalls'
  <2>1. task \in Tasks /\ task.who = who
    BY DEF TasksOf
  <2>2. tasks' = Append(tasks, task) /\ Range(tasks') = Range(tasks) \cup {task}
        /\ \A other \in Callers : answers'[other] = IF who = other THEN NoAnswer ELSE answers[other]
    BY <1>4, <2>1, CallEffect
  <2>3. Waiting(tasks', answers'[who], who, at, token)
    BY <1>1, <1>4, <2>2, OwnCall
  <2>4. ASSUME NEW other \in Callers \ {who}, NEW place, NEW name,
               Waiting(tasks, answers[other], other, place, name)
        PROVE  Waiting(tasks', answers'[other], other, place, name)
    BY <1>1, <2>1, <2>2, <2>4, OthersCall
  <2>5. InputCalls => InputCalls'
    BY <2>1, <2>2 DEF InputCalls, Callers
  <2> QED BY <2>3, <2>4, <2>5
<1> QED BY <1>2, <1>3, <1>4 DEF CallerStep

LEMMA WindowStep ==
  ASSUME TypesOK, CallsInv, win.at \notin Waits \/ Answered("window"),
         CallerStep("window", win'.at, win'.runtime.token), ipc'.at = ipc.at, ipc'.runtime = ipc.runtime
  PROVE  CallsInv'
<1>1. Free(tasks, "window") /\ ScriptTypes
  BY WaitingFree DEF CallsInv, Answered, TypesOK
<1> QED BY <1>1, CallerWaits DEF CallsInv, Callers

LEMMA IpcStep ==
  ASSUME TypesOK, CallsInv, ipc.at \notin Waits \/ Answered("ipc"),
         CallerStep("ipc", ipc'.at, ipc'.runtime.token), win'.at = win.at, win'.runtime = win.runtime
  PROVE  CallsInv'
<1>1. Free(tasks, "ipc") /\ ScriptTypes
  BY WaitingFree DEF CallsInv, Answered, TypesOK
<1> QED BY <1>1, CallerWaits DEF CallsInv, Callers

LEMMA MadeCalls ==
  ASSUME NEW who \in Callers, NEW at, NEW token,
         \/ at = "discard" /\ \E name \in Tokens : Discard(who, name)
         \/ at = "commit" /\ token \in Tokens /\ Commit(who, token)
         \/ at = "prepare" /\ \E config \in Configs : Prepare(who, config)
  PROVE  CallerStep(who, at, token)
<1>1. \A name \in Tokens : Task("discard", who, NoConfig, name) \in TasksOf(who)
                           /\ Task("commit", who, NoConfig, name) \in TasksOf(who)
  BY DEF Task, Tasks, TasksOf, Callers
<1>2. \A config \in Configs : Task("prepare", who, config, 0) \in TasksOf(who)
  BY Constants DEF Task, Tasks, TasksOf, Callers
<1>3. CASE at = "discard" /\ \E name \in Tokens : Discard(who, name)
  BY <1>1, <1>3 DEF Discard, CallerStep, Task, Waits
<1>4. CASE at = "commit" /\ token \in Tokens /\ Commit(who, token)
  BY <1>1, <1>4 DEF Commit, CallerStep, Task, Waits
<1>5. CASE at = "prepare" /\ \E config \in Configs : Prepare(who, config)
  BY <1>2, <1>5 DEF Prepare, CallerStep, Task, Waits
<1> QED BY <1>3, <1>4, <1>5

LEMMA IpcCalls ==
  ASSUME TypesOK, CallsInv, IpcThread \/ ReceiveSnapshot
  PROVE  CallsInv'
<1>1. ipc.runtime.token \in Tokens /\ answers["ipc"].runtime.token \in Tokens /\ "ipc" \in Callers
  BY Held, JobTypes DEF Callers
<1>2. answers["ipc"].state = "none" => ~Answered("ipc")
  BY DEF Answered
<1>3. CASE SendSnapshot
  <2>1. win' = win
    BY <1>3 DEF SendSnapshot, ipcFrame
  <2>2. CallerStep("ipc", ipc'.at, ipc'.runtime.token)
    <3>1. CASE GoOn("ipc")
      BY <3>1 DEF CallerStep
    <3>2. CASE GiveUp(answers["ipc"].runtime)
      <4>1. ipc'.at = "discard" /\ Discard("ipc", answers["ipc"].runtime.token)
        BY <3>2 DEF GiveUp, Request
      <4> QED BY <1>1, <4>1, MadeCalls
    <3> QED BY <1>3, <3>1, <3>2 DEF SendSnapshot
  <2> QED BY <1>3, <2>1, <2>2, IpcStep DEF SendSnapshot
<1>4. CASE WindowAnswered
  <2>1. win' = win /\ UNCHANGED scriptVars /\ ipc.at = "send"
    BY <1>4 DEF WindowAnswered, ipcFrame
  <2>2. ipc.at \notin Waits /\ ~Answered("ipc")
    BY <2>1 DEF CallsInv, Waiting, Waits, Answered
  <2> QED BY <2>1, <2>2, IpcStep DEF CallerStep
<1>5. CASE TimeOut
  <2>1. ipc'.at = "discard" /\ Discard("ipc", ipc.runtime.token) /\ ipc.at = "send"
    BY <1>5 DEF TimeOut, GiveUp, Request
  <2>2. CallerStep("ipc", ipc'.at, ipc'.runtime.token)
    BY <1>1, <2>1, MadeCalls
  <2>3. win'.at = win.at /\ win'.runtime = win.runtime
    BY <1>5 DEF TimeOut, TypesOK, ThreadTypes, Jobs
  <2> QED BY <2>1, <2>2, <2>3, IpcStep DEF Waits
<1>6. CASE SnapshotRefused
  <2>1. win' = win /\ GoOn("ipc") /\ Answered("ipc")
    BY <1>6 DEF SnapshotRefused, ipcFrame
  <2> QED BY <2>1, IpcStep DEF CallerStep
<1>7. CASE ReceiveSnapshot
  <2>1. win' = win /\ ipc.at = "idle" /\ ipc'.at = "prepare"
    BY <1>7 DEF ReceiveSnapshot, ipcFrame, Request
  <2>2. \E config \in Configs : Prepare("ipc", config)
    BY <1>7 DEF ReceiveSnapshot
  <2>3. CallerStep("ipc", ipc'.at, ipc'.runtime.token)
    BY <1>1, <2>1, <2>2, MadeCalls
  <2> QED BY <2>1, <2>3, IpcStep DEF Waits
<1> QED BY <1>3, <1>4, <1>5, <1>6, <1>7 DEF IpcThread

LEMMA TaskEffect ==
  ASSUME ScriptTypes, ScriptTask \/ ScriptCallback
  PROVE  /\ tasks # <<>> /\ tasks' = Tail(tasks) /\ Head(tasks) \in Tasks /\ Head(tasks) \in Range(tasks)
         /\ \A who \in Callers : Head(tasks).who # who => answers'[who] = answers[who]
<1>1. CASE \E op : TakeTask(op) /\ UNCHANGED answers
  BY <1>1, TailRange DEF TakeTask, ScriptTypes
<1>2. CASE \E op, state, runtime : TakeTask(op) /\ Reply(state, runtime)
  BY <1>2, TailRange DEF TakeTask, Reply, ScriptTypes
<1>3. RunPrepare => \E op, state, runtime : TakeTask(op) /\ Reply(state, runtime)
  BY DEF RunPrepare
<1>4. RunCommit => \E op, state, runtime : TakeTask(op) /\ Reply(state, runtime)
  BY DEF RunCommit, NoCandidate
<1>5. RunDiscard => \E op, state, runtime : TakeTask(op) /\ Reply(state, runtime)
  BY DEF RunDiscard
<1>6. IgnoreInput \/ (\E visible \in BOOLEAN : RunInput(visible)) => \E op : TakeTask(op) /\ UNCHANGED answers
  BY DEF IgnoreInput, RunInput
<1> QED BY <1>1, <1>2, <1>3, <1>4, <1>5, <1>6 DEF ScriptTask, ScriptCallback

LEMMA ScriptCalls ==
  ASSUME TypesOK, CallsInv, ScriptThread \/ ScriptKey \/ SwitchKey
  PROVE  CallsInv'
<1>1. ScriptTypes /\ UNCHANGED <<win, ipc>>
  BY DEF TypesOK, ScriptThread, ScriptTask, ScriptCallback, ScriptKey, SwitchKey
<1>2. CASE ScriptThread
  <2>1. /\ tasks # <<>> /\ tasks' = Tail(tasks) /\ tasks \in Seq(Tasks)
        /\ \A who \in Callers : Head(tasks).who # who => answers'[who] = answers[who]
    BY <1>1, <1>2, TaskEffect DEF ScriptThread, ScriptTypes
  <2>2. InputCalls'
    BY <2>1, TailRange DEF CallsInv, InputCalls
  <2> QED BY <1>1, <2>1, <2>2, TaskDone DEF CallsInv, Callers
<1>3. CASE ScriptKey
  <2>1. Task("input", "input", NoConfig, 0) \in Tasks /\ Task("input", "input", NoConfig, 0).who = "input"
        /\ Task("input", "input", NoConfig, 0).op = "input"
    BY Constants DEF Task, Tasks
  <2>2. PICK task \in Tasks : task.who = "input" /\ task.op = "input" /\ Call(task)
    BY <1>3, <2>1 DEF ScriptKey, DispatchInput
  <2>3. /\ tasks' = Append(tasks, task) /\ Range(tasks') = Range(tasks) \cup {task}
        /\ \A who \in Callers : answers'[who] = answers[who]
    BY <1>1, <2>2, CallEffect DEF Callers
  <2>4. InputCalls'
    BY <2>2, <2>3 DEF CallsInv, InputCalls
  <2> QED BY <1>1, <2>2, <2>3, <2>4, OthersCall DEF CallsInv, Callers, ScriptTypes
<1>4. CASE SwitchKey
  <2>1. UNCHANGED <<tasks, answers, win, ipc>>
    BY <1>4 DEF SwitchKey, scriptVars
  <2> QED BY <2>1 DEF CallsInv, InputCalls
<1> QED BY <1>2, <1>3, <1>4

LEMMA ApplyCalls ==
  ASSUME NEW kind \in {"request", "commands"}, NEW runtime \in Runtimes, ApplySnapshot(kind, runtime),
         kind = "request" => ~Answered("window")
  PROVE  CallerStep("window", win'.at, win'.runtime.token)
<1>1. runtime.token \in Tokens /\ "window" \in Callers
  BY JobTypes DEF Callers
<1>2. CASE RefusedByInput(kind, runtime)
  <2>1. Discard("window", runtime.token) /\ win'.at = "discard"
    BY <1>2 DEF RefusedByInput, Job
  <2> QED BY <1>1, <2>1, MadeCalls
<1>3. CASE TakenByInput(kind, runtime)
  BY <1>3 DEF TakenByInput, TakeAnswer, CallerStep
<1> QED BY <1>2, <1>3 DEF ApplySnapshot

LEMMA WindowCalls ==
  ASSUME TypesOK, CallsInv, WindowThread \/ Redraw \/ Close
  PROVE  CallsInv'
<1>1. win.runtime.token \in Tokens /\ "window" \in Callers /\ win \in Jobs /\ ipc \in Requests
      /\ ipc.runtime \in Runtimes /\ answers["window"].runtime \in Runtimes
      /\ answers["window"].runtime.token \in Tokens
  BY Held, JobTypes DEF Callers, TypesOK, ThreadTypes
<1>2. win.at \notin Waits => ~Answered("window")
  BY DEF CallsInv, Waiting, Answered
<1>3. win = Idle => win.at \notin Waits
  BY DEF Idle, Job, Waits
<1>4. CASE HandleSnapshot
  <2>1. win = Idle /\ ApplySnapshot("request", ipc.runtime) /\ ipc'.at = ipc.at /\ ipc'.runtime = ipc.runtime
    BY <1>1, <1>4 DEF HandleSnapshot, Requests
  <2>2. CallerStep("window", win'.at, win'.runtime.token)
    BY <1>1, <1>2, <1>3, <2>1, ApplyCalls
  <2> QED BY <1>3, <2>1, <2>2, WindowStep
<1>5. CASE CommandsPrepared
  <2>1. Answered("window") /\ ipc' = ipc
    BY <1>5 DEF CommandsPrepared
  <2>2. PICK runtime \in Runtimes : runtime = answers["window"].runtime /\ runtime.token \in Tokens
    BY <1>1
  <2>3. \/ GoOn("window")
        \/ Discard("window", runtime.token) /\ win'.at = "discard"
        \/ ApplySnapshot("commands", runtime)
    BY <1>5, <2>2 DEF CommandsPrepared, Job
  <2>4. CASE GoOn("window")
    BY <2>1, <2>4, WindowStep DEF CallerStep
  <2>5. CASE Discard("window", runtime.token) /\ win'.at = "discard"
    <3>1. CallerStep("window", win'.at, win'.runtime.token)
      BY <1>1, <2>2, <2>5, MadeCalls
    <3> QED BY <2>1, <3>1, WindowStep
  <2>6. CASE ApplySnapshot("commands", runtime)
    <3>1. CallerStep("window", win'.at, win'.runtime.token)
      BY <2>6, ApplyCalls
    <3> QED BY <2>1, <3>1, WindowStep
  <2> QED BY <2>3, <2>4, <2>5, <2>6
<1>6. CASE Rebuild
  <2>1. win.at = "rebuild" /\ ipc' = ipc /\ win.at \notin Waits
    BY <1>6 DEF Rebuild, Waits
  <2>2. CallerStep("window", win'.at, win'.runtime.token)
    <3>1. CASE UNCHANGED scriptVars
      BY <1>2, <2>1, <3>1 DEF CallerStep
    <3>2. CASE Commit("window", win.runtime.token) /\ win' = [win EXCEPT !.at = "commit"]
      <4>1. win'.at = "commit" /\ win'.runtime = win.runtime
        BY <1>1, <3>2 DEF Jobs
      <4> QED BY <1>1, <3>2, <4>1, MadeCalls
    <3> QED BY <1>6, <3>1, <3>2 DEF Rebuild
  <2> QED BY <2>1, <2>2, WindowStep
<1>7. CASE CommitDone \/ CommitFailed \/ DiscardDone
  <2>1. Answered("window") /\ GoOn("window")
    BY <1>7 DEF CommitDone, CommitFailed, DiscardDone, Answered, Succeeded
  <2>2. ipc'.at = ipc.at /\ ipc'.runtime = ipc.runtime
    BY <1>1, <1>7 DEF CommitDone, CommitFailed, DiscardDone, Reported, Requests
  <2> QED BY <2>1, <2>2, WindowStep DEF CallerStep
<1>8. CASE RollBack
  <2>1. win.at \notin Waits /\ Discard("window", win.runtime.token) /\ ipc' = ipc /\ win'.at = "discard"
    BY <1>1, <1>8 DEF RollBack, Waits, Jobs
  <2>2. CallerStep("window", win'.at, win'.runtime.token)
    BY <1>1, <2>1, MadeCalls
  <2> QED BY <2>1, <2>2, WindowStep
<1>9. CASE PublishSnapshot \/ HandleInputState \/ JoinIpcAndInput \/ Redraw \/ Close
  <2>1. win.at \notin Waits /\ UNCHANGED scriptVars
    BY <1>3, <1>9 DEF PublishSnapshot, HandleInputState, JoinIpcAndInput, Redraw, Close, Waits
  <2>2. CASE UNCHANGED ipc
    BY <1>2, <2>1, <2>2, WindowStep DEF CallerStep
  <2>3. CASE JoinIpcAndInput
    <3>1. ipc.at = "idle" /\ ipc'.at = "stopped" /\ ipc'.runtime = ipc.runtime /\ UNCHANGED <<tasks, answers>>
          /\ win.at = "closing"
      BY <1>1, <2>3 DEF JoinIpcAndInput, Requests, scriptVars
    <3>2. Free(tasks, "ipc") /\ Free(tasks, "window") /\ tasks \in Seq(Tasks)
          /\ answers["ipc"].state = "none" /\ answers["window"].state = "none"
      BY <1>2, <2>1, <3>1, WaitingFree DEF CallsInv, Waits, Waiting, TypesOK, ScriptTypes, Answered
    <3> QED BY <3>1, <3>2, FreeWaits DEF CallsInv, InputCalls
  <2> QED BY <1>9, <2>2, <2>3 DEF PublishSnapshot, HandleInputState, Redraw, Close
<1>10. CASE HandleUpdate
  <2>1. win = Idle /\ ipc' = ipc
    BY <1>10 DEF HandleUpdate
  <2>2. CallerStep("window", win'.at, win'.runtime.token)
    <3>1. CASE UNCHANGED scriptVars
      BY <1>2, <1>3, <2>1, <3>1 DEF CallerStep
    <3>2. CASE \E config \in Configs : /\ Prepare("window", config)
                                       /\ win' = Job("prepare", "commands", [NoRuntime EXCEPT !.config = config])
      <4>1. win'.at = "prepare"
        BY <3>2 DEF Job
      <4> QED BY <1>1, <3>2, <4>1, MadeCalls
    <3> QED BY <1>10, <3>1, <3>2 DEF HandleUpdate
  <2> QED BY <1>3, <2>1, <2>2, WindowStep
<1>11. CASE JoinScripts
  <2>1. win.at \notin Waits /\ UNCHANGED <<tasks, answers, ipc>> /\ ~Answered("window")
    BY <1>2, <1>11 DEF JoinScripts, StopCoordinator, Waits
  <2>2. Free(tasks, "window") /\ tasks \in Seq(Tasks) /\ answers["window"].state = "none"
    BY <2>1, WaitingFree DEF CallsInv, TypesOK, ScriptTypes, Answered
  <2> QED BY <2>1, <2>2, FreeWaits DEF CallsInv, InputCalls
<1> QED BY <1>4, <1>5, <1>6, <1>7, <1>8, <1>9, <1>10, <1>11 DEF WindowThread

LEMMA CallsKept == TypesOK /\ CallsInv /\ [WindowNext]_hostVars => CallsInv'
<1> SUFFICES ASSUME TypesOK, CallsInv, [WindowNext]_hostVars PROVE CallsInv'
  OBVIOUS
<1>1. CASE WindowThread \/ Redraw \/ Close
  BY <1>1, WindowCalls
<1>2. CASE IpcThread \/ ReceiveSnapshot
  BY <1>2, IpcCalls
<1>3. CASE ScriptThread \/ ScriptKey \/ SwitchKey
  BY <1>3, ScriptCalls
<1>4. CASE DieOfDangling
  <2>1. tasks' = <<>> /\ answers'["window"] = NoAnswer /\ answers'["ipc"] = NoAnswer
    BY <1>4 DEF DieOfDangling, Callers
  <2>2. Range(tasks') = {} /\ tasks' \in Seq(Tasks) /\ NoAnswer.state = "none"
    BY <2>1, EmptyRange DEF NoAnswer, Answer
  <2> QED BY <2>1, <2>2, FreeWaits DEF CallsInv, InputCalls, Free
<1>5. CASE UNCHANGED hostVars
  BY <1>5 DEF hostVars, scriptVars, CallsInv, InputCalls
<1> QED BY <1>1, <1>2, <1>3, <1>4, <1>5 DEF WindowNext, Environment

LEMMA InitCalls == WindowInit => CallsInv
<1> SUFFICES ASSUME WindowInit PROVE CallsInv
  OBVIOUS
<1>1. tasks = <<>> /\ answers["window"] = NoAnswer /\ answers["ipc"] = NoAnswer
  BY DEF WindowInit, CoordinatorInit, Callers
<1>2. Range(tasks) = {} /\ tasks \in Seq(Tasks) /\ NoAnswer.state = "none"
  BY <1>1, EmptyRange DEF NoAnswer, Answer
<1> QED BY <1>1, <1>2, FreeWaits DEF CallsInv, InputCalls, Free

-----------------------------------------------------------------------------
(* Names.  A token names one candidate for ever, wherever the threads hold   *)
(* the one it was given to.                                                 *)

Named(runtime) ==
  /\ runtime.token < nextToken
  /\ \A r \in prepared : r.token = runtime.token => r = runtime
Names ==
  /\ \A r \in prepared : 0 < r.token /\ r.token < nextToken
  /\ Named(win.runtime) /\ Named(ipc.runtime)
  /\ Named(answers["window"].runtime) /\ Named(answers["ipc"].runtime)
Known ==
  {win.runtime, ipc.runtime, answers["window"].runtime, answers["ipc"].runtime}
    \cup {r \in Runtimes : r.token = 0}

LEMMA KnownNamed == ASSUME TypesOK, Names, NEW runtime \in Known PROVE Named(runtime)
<1>1. runtime.token = 0 => Named(runtime)
  BY DEF Names, Named, TypesOK, ScriptTypes
<1> QED BY <1>1 DEF Known, Names

(* No step but those of the script thread names a candidate.                *)
Quietly ==
  /\ UNCHANGED <<prepared, nextToken>>
  /\ \A who \in Callers : answers'[who] \in {answers[who], NoAnswer}
CallOf(who) ==
  \/ GoOn(who) \/ UNCHANGED scriptVars
  \/ \E token \in Tokens : Discard(who, token) \/ Commit(who, token)
  \/ \E config \in Configs : Prepare(who, config)
LEMMA CallsAreQuiet ==
  ASSUME ScriptTypes, NEW who \in Callers, CallOf(who) \/ DispatchInput
  PROVE  Quietly
<1>1. ASSUME NEW task \in Tasks, Call(task) PROVE Quietly
  BY <1>1, CallEffect DEF Quietly
<1>2. CASE GoOn(who)
  BY <1>2, GoOnEffect DEF Quietly
<1>3. CASE UNCHANGED scriptVars
  BY <1>3 DEF scriptVars, Quietly
<1>4. CASE \E token \in Tokens : Discard(who, token) \/ Commit(who, token)
  <2>1. \A token \in Tokens : Task("discard", who, NoConfig, token) \in Tasks
                              /\ Task("commit", who, NoConfig, token) \in Tasks
    BY Constants DEF Task, Tasks
  <2> QED BY <1>1, <1>4, <2>1 DEF Discard, Commit
<1>5. CASE \E config \in Configs : Prepare(who, config)
  <2>1. \A config \in Configs : Task("prepare", who, config, 0) \in Tasks
    BY Constants DEF Task, Tasks
  <2> QED BY <1>1, <1>5, <2>1 DEF Prepare
<1>6. CASE DispatchInput
  <2>1. Task("input", "input", NoConfig, 0) \in Tasks
    BY Constants DEF Task, Tasks
  <2> QED BY <1>1, <1>6, <2>1 DEF DispatchInput
<1> QED BY <1>2, <1>3, <1>4, <1>5, <1>6 DEF CallOf

LEMMA KnownStay ==
  ASSUME TypesOK, Names, UNCHANGED nextToken, prepared' \subseteq prepared,
         win'.runtime \in Known, ipc'.runtime \in Known,
         \A who \in Callers : answers'[who].runtime \in Known
  PROVE  Names'
<1>1. \A runtime \in Known : Named(runtime)
  BY KnownNamed
<1>2. \A runtime \in Known : runtime.token < nextToken' /\ \A r \in prepared' : r.token = runtime.token => r = runtime
  BY <1>1 DEF Named
<1>3. \A r \in prepared' : 0 < r.token /\ r.token < nextToken'
  BY DEF Names
<1> QED BY <1>2, <1>3 DEF Names, Named, Callers

LEMMA QuietNames ==
  ASSUME TypesOK, Names, Quietly, win'.runtime \in Known, ipc'.runtime \in Known
  PROVE  Names'
<1>1. NoAnswer.runtime \in Known /\ \A who \in Callers : answers[who].runtime \in Known
  <2>1. NoRuntime.token = 0 /\ NoAnswer.runtime = NoRuntime
    BY DEF NoAnswer, Answer, NoRuntime
  <2> QED BY <2>1, Constants DEF Known, Callers
<1>2. \A who \in Callers : answers'[who].runtime \in Known
  BY <1>1 DEF Quietly
<1> QED BY <1>2, KnownStay DEF Quietly

LEMMA IpcNames ==
  ASSUME TypesOK, Names, IpcThread \/ ReceiveSnapshot
  PROVE  Names'
<1>1. /\ ipc.runtime.token \in Tokens /\ answers["ipc"].runtime.token \in Tokens /\ "ipc" \in Callers
      /\ win \in Jobs /\ ScriptTypes /\ {win.runtime, ipc.runtime, answers["ipc"].runtime, NoRuntime} \subseteq Known
  BY Held, JobTypes, Constants DEF Callers, TypesOK, ThreadTypes, Known, NoRuntime
<1>2. \A config \in Configs : [NoRuntime EXCEPT !.config = config] \in Known
  BY JobTypes DEF Known, NoRuntime
<1>3. CASE SendSnapshot
  <2>1. win' = win
    BY <1>3 DEF SendSnapshot, ipcFrame
  <2>2. CallOf("ipc") /\ ipc'.runtime \in Known
    BY <1>1, <1>3 DEF SendSnapshot, GiveUp, CallOf, Request, NoRequest
  <2> QED BY <1>1, <2>1, <2>2, CallsAreQuiet, QuietNames
<1>4. CASE WindowAnswered
  <2>1. win' = win /\ CallOf("ipc") /\ ipc'.runtime \in Known
    BY <1>1, <1>4 DEF WindowAnswered, CallOf, Request, NoRequest, ipcFrame
  <2> QED BY <1>1, <2>1, CallsAreQuiet, QuietNames
<1>5. CASE TimeOut
  <2>1. win'.runtime = win.runtime
    BY <1>1, <1>5 DEF TimeOut, Jobs
  <2>2. CallOf("ipc") /\ ipc'.runtime \in Known
    BY <1>1, <1>5 DEF TimeOut, GiveUp, CallOf, Request
  <2> QED BY <1>1, <2>1, <2>2, CallsAreQuiet, QuietNames
<1>6. CASE SnapshotRefused
  <2>1. win' = win /\ CallOf("ipc") /\ ipc'.runtime \in Known
    BY <1>1, <1>6 DEF SnapshotRefused, CallOf, Request, NoRequest, ipcFrame
  <2> QED BY <1>1, <2>1, CallsAreQuiet, QuietNames
<1>7. CASE ReceiveSnapshot
  <2>1. win' = win
    BY <1>7 DEF ReceiveSnapshot, ipcFrame
  <2>2. PICK config \in Configs : /\ Prepare("ipc", config)
                                  /\ ipc' = Request("prepare", [NoRuntime EXCEPT !.config = config], "none")
    BY <1>7 DEF ReceiveSnapshot
  <2>3. PICK runtime \in Known : runtime = [NoRuntime EXCEPT !.config = config]
    BY <1>2
  <2>4. ipc'.runtime \in Known /\ CallOf("ipc")
    BY <2>2, <2>3 DEF Request, CallOf
  <2> QED BY <1>1, <2>1, <2>4, CallsAreQuiet, QuietNames
<1> QED BY <1>3, <1>4, <1>5, <1>6, <1>7 DEF IpcThread

LEMMA ApplyHands ==
  ASSUME NEW kind \in {"request", "commands"}, NEW runtime \in Runtimes, ApplySnapshot(kind, runtime)
  PROVE  /\ CallOf("window") /\ current' = current
         /\ win'.runtime = runtime /\ win'.kind = kind /\ win'.at \in {"discard", "rebuild"}
<1>1. runtime.token \in Tokens
  BY JobTypes
<1>2. CASE RefusedByInput(kind, runtime)
  BY <1>1, <1>2 DEF RefusedByInput, CallOf, Job, configVars
<1>3. CASE TakenByInput(kind, runtime)
  BY <1>3 DEF TakenByInput, TakeAnswer, CallOf, Remembering, Job
<1> QED BY <1>2, <1>3 DEF ApplySnapshot

LEMMA WindowNames ==
  ASSUME TypesOK, Names, WindowThread \/ Redraw \/ Close
  PROVE  Names'
<1>1. /\ win.runtime.token \in Tokens /\ answers["window"].runtime.token \in Tokens
      /\ win \in Jobs /\ ipc \in Requests /\ ScriptTypes /\ "window" \in Callers
      /\ {win.runtime, ipc.runtime, answers["window"].runtime, answers["ipc"].runtime, NoRuntime} \subseteq Known
      /\ {ipc.runtime, answers["window"].runtime} \subseteq Runtimes
  BY Held, JobTypes, Constants DEF Callers, TypesOK, ThreadTypes, Known, NoRuntime
<1>2. \A config \in Configs : [NoRuntime EXCEPT !.config = config] \in Known
  BY JobTypes DEF Known, NoRuntime
<1>3. CASE HandleSnapshot
  <2>1. ApplySnapshot("request", ipc.runtime) /\ ipc'.runtime = ipc.runtime
    BY <1>1, <1>3 DEF HandleSnapshot, Requests
  <2> QED BY <1>1, <2>1, ApplyHands, CallsAreQuiet, QuietNames
<1>4. CASE CommandsPrepared
  <2>1. ipc' = ipc
    BY <1>4 DEF CommandsPrepared
  <2>2. PICK runtime \in Runtimes : runtime = answers["window"].runtime /\ runtime.token \in Tokens /\ runtime \in Known
    BY <1>1
  <2>3. CallOf("window") /\ win'.runtime \in Known
    <3>1. CASE GoOn("window") /\ win' = Idle
      BY <1>1, <3>1 DEF CallOf, Idle, Job
    <3>2. CASE Discard("window", runtime.token) /\ win' = Job("discard", "commands", runtime)
      BY <2>2, <3>2 DEF CallOf, Job
    <3>3. CASE ApplySnapshot("commands", runtime)
      BY <2>2, <3>3, ApplyHands
    <3> QED BY <1>4, <2>2, <3>1, <3>2, <3>3 DEF CommandsPrepared
  <2> QED BY <1>1, <2>1, <2>3, CallsAreQuiet, QuietNames
<1>5. CASE Rebuild
  <2>1. ipc' = ipc /\ CallOf("window") /\ win'.runtime = win.runtime
    BY <1>1, <1>5 DEF Rebuild, CallOf, Jobs
  <2> QED BY <1>1, <2>1, CallsAreQuiet, QuietNames
<1>6. CASE CommitDone \/ CommitFailed \/ DiscardDone
  <2>1. CallOf("window") /\ ipc'.runtime = ipc.runtime
    BY <1>1, <1>6 DEF CommitDone, CommitFailed, DiscardDone, Reported, Requests, CallOf
  <2>2. win'.runtime \in {win.runtime, NoRuntime}
    BY <1>1, <1>6 DEF CommitDone, CommitFailed, DiscardDone, Idle, Job, Jobs
  <2> QED BY <1>1, <2>1, <2>2, CallsAreQuiet, QuietNames
<1>7. CASE RollBack
  <2>1. CallOf("window") /\ ipc' = ipc /\ win'.runtime = win.runtime
    BY <1>1, <1>7 DEF RollBack, CallOf, Jobs
  <2> QED BY <1>1, <2>1, CallsAreQuiet, QuietNames
<1>8. CASE PublishSnapshot \/ HandleInputState \/ JoinIpcAndInput \/ Redraw \/ Close
  <2>1. CallOf("window")
    BY <1>8 DEF PublishSnapshot, HandleInputState, JoinIpcAndInput, Redraw, Close, CallOf
  <2>2. ipc'.runtime = ipc.runtime /\ win'.runtime \in {win.runtime, NoRuntime}
    BY <1>1, <1>8 DEF PublishSnapshot, HandleInputState, JoinIpcAndInput, Redraw, Close, Idle, Job, Jobs, Requests
  <2> QED BY <1>1, <2>1, <2>2, CallsAreQuiet, QuietNames
<1>9. CASE HandleUpdate
  <2>1. ipc' = ipc
    BY <1>9 DEF HandleUpdate
  <2>2. CASE win' = Idle /\ UNCHANGED scriptVars
    BY <1>1, <2>1, <2>2, CallsAreQuiet, QuietNames DEF CallOf, Idle, Job
  <2>3. ASSUME NEW config \in Configs, Prepare("window", config),
               win' = Job("prepare", "commands", [NoRuntime EXCEPT !.config = config])
        PROVE  Names'
    <3>1. PICK runtime \in Known : runtime = [NoRuntime EXCEPT !.config = config]
      BY <1>2
    <3>2. win'.runtime \in Known /\ CallOf("window")
      BY <2>3, <3>1 DEF Job, CallOf
    <3> QED BY <1>1, <2>1, <3>2, CallsAreQuiet, QuietNames
  <2> QED BY <1>9, <2>2, <2>3 DEF HandleUpdate
<1>10. CASE JoinScripts
  <2>1. UNCHANGED <<nextToken, ipc, answers>> /\ prepared' = {} /\ win'.runtime = win.runtime
    BY <1>1, <1>10 DEF JoinScripts, StopCoordinator, Jobs
  <2> QED BY <1>1, <2>1, KnownStay DEF Callers
<1> QED BY <1>3, <1>4, <1>5, <1>6, <1>7, <1>8, <1>9, <1>10 DEF WindowThread

(* The script thread names a candidate when it prepares it, and hands out    *)
(* the one it commits.                                                      *)
LEMMA ScriptNames ==
  ASSUME TypesOK, Names, CallsInv, ScriptThread \/ ScriptKey \/ SwitchKey
  PROVE  Names'
<1>1. ScriptTypes /\ UNCHANGED <<win, ipc>> /\ {win.runtime, ipc.runtime} \subseteq Known
      /\ NoRuntime.token = 0 /\ NoRuntime \in Known /\ "window" \in Callers
  BY Constants DEF TypesOK, ScriptThread, ScriptTask, ScriptCallback, ScriptKey, SwitchKey, Known, NoRuntime, Callers
<1>2. \A who \in Callers : answers[who].runtime \in Known
  BY DEF Known, Callers
<1>3. CASE ScriptKey \/ SwitchKey
  <2>1. CallOf("window") \/ DispatchInput
    BY <1>3 DEF ScriptKey, SwitchKey, CallOf
  <2> QED BY <1>1, <2>1, CallsAreQuiet, QuietNames
<1>4. CASE IgnoreInput \/ \E visible \in BOOLEAN : RunInput(visible)
  <2>1. UNCHANGED <<prepared, nextToken, answers>>
    BY <1>4 DEF IgnoreInput, RunInput
  <2> QED BY <1>1, <1>2, <2>1, KnownStay
<1>5. CASE RunDiscard
  <2>1. /\ prepared' \subseteq prepared /\ UNCHANGED nextToken
        /\ \A who \in Callers : answers'[who].runtime \in {answers[who].runtime, NoRuntime}
    BY <1>1, <1>5 DEF RunDiscard, AfterDiscard, Reply, Answer, ScriptTypes
  <2> QED BY <1>1, <1>2, <2>1, KnownStay
<1>6. CASE RunCommit
  <2>1. UNCHANGED nextToken
    BY <1>6 DEF RunCommit
  <2>2. ASSUME NEW candidate \in prepared, prepared' = {}, Reply("ok", candidate)
        PROVE  Names'
    <3>1. \A who \in Callers : answers'[who].runtime \in {answers[who].runtime, candidate}
      BY <1>1, <2>2 DEF Reply, Answer, ScriptTypes
    <3>2. \A runtime \in Known : runtime.token < nextToken
      BY KnownNamed DEF Named
    <3>3. candidate.token < nextToken
      BY DEF Names
    <3> QED BY <1>1, <1>2, <2>1, <2>2, <3>1, <3>2, <3>3 DEF Names, Named, Callers
  <2>3. ASSUME UNCHANGED prepared, Reply("failed", NoRuntime)
        PROVE  Names'
    <3>1. \A who \in Callers : answers'[who].runtime \in {answers[who].runtime, NoRuntime}
      BY <1>1, <2>3 DEF Reply, Answer, ScriptTypes
    <3> QED BY <1>1, <1>2, <2>1, <2>3, <3>1, KnownStay
  <2> QED BY <1>6, <2>2, <2>3 DEF RunCommit, NoCandidate
<1>7. CASE RunPrepare
  <2>1. nextToken' = nextToken + 1 /\ nextToken \in Nat \ {0}
    BY <1>1, <1>7 DEF RunPrepare, ScriptTypes
  <2>2. PICK candidate : /\ candidate.token = nextToken
                         /\ \/ prepared' = prepared \cup {candidate} /\ Reply("ok", candidate)
                            \/ prepared' = prepared /\ Reply("failed", NoRuntime)
    BY <1>7 DEF RunPrepare
  <2>3. prepared' \subseteq prepared \cup {candidate}
    BY <2>2
  <2>4. \A who \in Callers : answers'[who].runtime \in Known \cup {candidate}
    BY <1>1, <1>2, <2>2 DEF Reply, Answer, ScriptTypes
  <2>5. \A r \in prepared : r.token \in Nat /\ 0 < r.token /\ r.token < nextToken
    BY <1>1 DEF Names, ScriptTypes, Runtimes, Tokens
  <2>6. \A runtime \in Known : runtime.token \in Nat /\ Named(runtime)
    BY KnownNamed, Held, <1>1 DEF Known, Runtimes, Tokens
  <2>7. \A runtime \in Known : runtime.token < nextToken' /\ \A r \in prepared' : r.token = runtime.token => r = runtime
    BY <2>1, <2>2, <2>3, <2>6 DEF Named
  <2>8. candidate.token < nextToken' /\ \A r \in prepared' : r.token = candidate.token => r = candidate
    BY <2>1, <2>2, <2>3, <2>5
  <2>9. \A r \in prepared' : 0 < r.token /\ r.token < nextToken'
    BY <2>1, <2>2, <2>3, <2>5
  <2> QED BY <1>1, <2>4, <2>7, <2>8, <2>9 DEF Names, Named, Callers
<1> QED BY <1>3, <1>4, <1>5, <1>6, <1>7 DEF ScriptThread, ScriptTask, ScriptCallback

LEMMA NamesKept == TypesOK /\ CallsInv /\ Names /\ [WindowNext]_hostVars => Names'
<1> SUFFICES ASSUME TypesOK, CallsInv, Names, [WindowNext]_hostVars PROVE Names'
  OBVIOUS
<1>1. CASE WindowThread \/ Redraw \/ Close
  BY <1>1, WindowNames
<1>2. CASE IpcThread \/ ReceiveSnapshot
  BY <1>2, IpcNames
<1>3. CASE ScriptThread \/ ScriptKey \/ SwitchKey
  BY <1>3, ScriptNames
<1>4. CASE DieOfDangling
  <2>1. /\ prepared' = {} /\ nextToken' = 1
        /\ {win'.runtime, ipc'.runtime, answers'["window"].runtime, answers'["ipc"].runtime} = {NoRuntime}
    BY <1>4 DEF DieOfDangling, Callers, Idle, Job, NoRequest, Request, NoAnswer, Answer
  <2> QED BY <2>1 DEF Names, Named, NoRuntime
<1>5. CASE UNCHANGED hostVars
  BY <1>5 DEF hostVars, scriptVars, Names, Named
<1> QED BY <1>1, <1>2, <1>3, <1>4, <1>5 DEF WindowNext, Environment

LEMMA InitNames == WindowInit => Names
<1> SUFFICES ASSUME WindowInit PROVE Names
  OBVIOUS
<1>1. /\ prepared = {} /\ nextToken = 1
      /\ {win.runtime, ipc.runtime, answers["window"].runtime, answers["ipc"].runtime} = {NoRuntime}
  BY DEF WindowInit, CoordinatorInit, Callers, Idle, Job, NoRequest, Request, NoAnswer, Answer
<1> QED BY <1>1 DEF Names, Named, NoRuntime

-----------------------------------------------------------------------------
(* Requests.  The request the window thread works on is the one the IPC      *)
(* thread waits for, until that gives up.                                   *)

Answering ==
  /\ win.kind = "request" => ipc.at = "send" /\ ipc.outcome = "taken" /\ ipc.runtime = win.runtime
  /\ ipc.at # "send" => ipc.outcome = "none"

LEMMA AnsweringKept == TypesOK /\ Answering /\ [WindowNext]_hostVars => Answering'
<1> SUFFICES ASSUME TypesOK, Answering, [WindowNext]_hostVars PROVE Answering'
  OBVIOUS
<1>1. win \in Jobs /\ ipc \in Requests
  BY DEF TypesOK, ThreadTypes
<1>2. CASE UNCHANGED <<win, ipc>>
  BY <1>2 DEF Answering
<1>3. CASE ipc' = ipc /\ win'.kind # "request"
  BY <1>3 DEF Answering
<1>4. CASE IpcThread \/ ReceiveSnapshot
  <2>1. CASE SendSnapshot
    BY <2>1 DEF SendSnapshot, GiveUp, ipcFrame, Request, NoRequest, Answering
  <2>2. CASE WindowAnswered
    BY <2>2 DEF WindowAnswered, ipcFrame, Request, NoRequest, Answering
  <2>3. CASE TimeOut
    BY <1>1, <2>3 DEF TimeOut, GiveUp, Request, Answering, Jobs
  <2>4. CASE SnapshotRefused
    BY <2>4 DEF SnapshotRefused, ipcFrame, Request, NoRequest, Answering
  <2>5. CASE ReceiveSnapshot
    <3>1. win' = win /\ ipc.at = "idle" /\ ipc'.at = "prepare" /\ ipc'.outcome = "none"
      BY <2>5 DEF ReceiveSnapshot, ipcFrame, Request
    <3> QED BY <3>1 DEF Answering
  <2> QED BY <1>4, <2>1, <2>2, <2>3, <2>4, <2>5 DEF IpcThread
<1>5. CASE HandleSnapshot
  <2>1. win'.kind = "request" /\ win'.runtime = ipc.runtime
    BY <1>5, ApplyHands, Held DEF HandleSnapshot
  <2>2. ipc.at = "send" /\ ipc' = [ipc EXCEPT !.outcome = "taken"]
    BY <1>5 DEF HandleSnapshot, Answering
  <2> QED BY <1>1, <2>1, <2>2 DEF Answering, Requests
<1>6. CASE CommitDone \/ DiscardDone
  <2>1. win'.kind # "request"
    BY <1>1, <1>6 DEF CommitDone, DiscardDone, Idle, Job, Jobs
  <2>2. ipc'.at = ipc.at /\ (ipc' = ipc \/ ipc.at = "send")
    BY <1>1, <1>6 DEF CommitDone, DiscardDone, Reported, Requests, Answering
  <2> QED BY <2>1, <2>2 DEF Answering
<1>7. CASE Rebuild \/ CommitFailed \/ RollBack
  <2>1. ipc' = ipc /\ win'.kind = win.kind /\ win'.runtime = win.runtime
    BY <1>1, <1>7 DEF Rebuild, CommitFailed, RollBack, Jobs
  <2> QED BY <2>1 DEF Answering
<1>8. CASE CommandsPrepared
  <2>1. ipc' = ipc
    BY <1>8 DEF CommandsPrepared
  <2>2. win'.kind # "request"
    <3>1. PICK runtime \in Runtimes : runtime = answers["window"].runtime
      BY Held
    <3>2. win' = Idle \/ win' = Job("discard", "commands", runtime) \/ ApplySnapshot("commands", runtime)
      BY <1>8, <3>1 DEF CommandsPrepared
    <3> QED BY <3>1, <3>2, ApplyHands DEF Job, Idle
  <2> QED BY <1>3, <2>1, <2>2
<1>9. CASE PublishSnapshot \/ HandleUpdate \/ Close
  <2>1. ipc' = ipc /\ win'.kind # "request"
    BY <1>9 DEF PublishSnapshot, HandleUpdate, Close, Job, Idle
  <2> QED BY <1>3, <2>1
<1>10. CASE JoinIpcAndInput \/ JoinScripts
  <2>1. win'.kind = win.kind /\ win'.runtime = win.runtime /\ ipc'.outcome = ipc.outcome
        /\ (ipc' = ipc \/ (ipc.at = "idle" /\ ipc'.at = "stopped"))
    BY <1>1, <1>10 DEF JoinIpcAndInput, JoinScripts, Jobs, Requests
  <2> QED BY <2>1 DEF Answering
<1>11. CASE HandleInputState \/ Redraw \/ ScriptThread \/ ScriptKey \/ SwitchKey \/ UNCHANGED hostVars
  BY <1>2, <1>11 DEF HandleInputState, Redraw, ScriptThread, ScriptTask, ScriptCallback, ScriptKey,
                     SwitchKey, hostVars
<1>12. CASE DieOfDangling
  BY <1>12 DEF DieOfDangling, Idle, Job, NoRequest, Request, Answering
<1> QED BY <1>4, <1>5, <1>6, <1>7, <1>8, <1>9, <1>10, <1>11, <1>12 DEF WindowNext, WindowThread, Environment

-----------------------------------------------------------------------------
(* Claims.  Each prepared configuration has a thread that still has to       *)
(* commit or discard it, or a call in the queue that discards it.           *)

Queued(token) == \E t \in Range(tasks) : t.op = "discard" /\ t.token = token
WindowHolds(token) ==
  \/ win.at = "prepare" /\ Succeeded("window") /\ answers["window"].runtime.token = token
  \/ win.at \in {"rebuild", "rollback"} /\ win.runtime.token = token
  \/ win.at = "commit" /\ ~Succeeded("window") /\ win.runtime.token = token
IpcHolds(token) ==
  \/ ipc.at = "prepare" /\ Succeeded("ipc") /\ answers["ipc"].runtime.token = token
  \/ ipc.at = "send" /\ ipc.outcome = "sent" /\ ipc.runtime.token = token
Claims == \A r \in prepared : Queued(r.token) \/ WindowHolds(r.token) \/ IpcHolds(r.token)

LEMMA CallsKeepClaims ==
  ASSUME ScriptTypes, NEW who \in Callers, CallOf(who)
  PROVE  /\ prepared' = prepared
         /\ \A token : Queued(token) => Queued(token)'
         /\ \A other \in Callers \ {who} : answers'[other] = answers[other]
<1>1. ASSUME NEW task \in TasksOf(who), Call(task)
      PROVE  prepared' = prepared /\ Range(tasks) \subseteq Range(tasks')
             /\ \A other \in Callers \ {who} : answers'[other] = answers[other]
  BY <1>1, CallEffect DEF TasksOf
<1>2. CASE GoOn(who) \/ UNCHANGED scriptVars
  BY <1>2, GoOnEffect DEF scriptVars, Queued
<1>3. CASE \E token \in Tokens : Discard(who, token) \/ Commit(who, token)
  <2>1. \A token \in Tokens : Task("discard", who, NoConfig, token) \in TasksOf(who)
                              /\ Task("commit", who, NoConfig, token) \in TasksOf(who)
    BY Constants DEF Task, Tasks, TasksOf
  <2> QED BY <1>1, <1>3, <2>1 DEF Discard, Commit, Queued
<1>4. CASE \E config \in Configs : Prepare(who, config)
  <2>1. \A config \in Configs : Task("prepare", who, config, 0) \in TasksOf(who)
    BY Constants DEF Task, Tasks, TasksOf
  <2> QED BY <1>1, <1>4, <2>1 DEF Prepare, Queued
<1> QED BY <1>2, <1>3, <1>4 DEF CallOf

LEMMA DiscardQueues ==
  ASSUME ScriptTypes, NEW who \in Callers, NEW token \in Tokens, Discard(who, token)
  PROVE  Queued(token)'
<1>1. PICK task \in Tasks : task = Task("discard", who, NoConfig, token)
  BY Constants DEF Task, Tasks
<1>2. Call(task) /\ task.op = "discard" /\ task.token = token
  BY <1>1 DEF Discard, Task
<1>3. task \in Range(tasks')
  BY <1>2, CallEffect
<1> QED BY <1>2, <1>3 DEF Queued

LEMMA IpcClaims ==
  ASSUME TypesOK, Answering, Claims, IpcThread \/ ReceiveSnapshot
  PROVE  Claims'
<1>1. /\ ipc.runtime.token \in Tokens /\ answers["ipc"].runtime.token \in Tokens
      /\ "ipc" \in Callers /\ "window" \in Callers \ {"ipc"} /\ ScriptTypes /\ win \in Jobs
  BY Held, JobTypes DEF Callers, TypesOK, ThreadTypes
<1>2. /\ CallOf("ipc") /\ win'.at = win.at /\ win'.runtime = win.runtime
      /\ \A token : IpcHolds(token) => Queued(token)' \/ IpcHolds(token)'
  <2>1. CASE SendSnapshot
    <3>1. win' = win /\ CallOf("ipc") /\ ipc.at = "prepare"
      BY <1>1, <2>1 DEF SendSnapshot, GiveUp, CallOf, ipcFrame
    <3>2. ASSUME NEW token, IpcHolds(token) PROVE Queued(token)' \/ IpcHolds(token)'
      <4>1. answers["ipc"].runtime.token = token /\ Succeeded("ipc")
        BY <3>1, <3>2 DEF IpcHolds
      <4>2. CASE GiveUp(answers["ipc"].runtime)
        BY <1>1, <4>1, <4>2, DiscardQueues DEF GiveUp
      <4>3. CASE ipc' = Request("send", answers["ipc"].runtime, "sent")
        BY <4>1, <4>3 DEF IpcHolds, Request
      <4> QED BY <2>1, <4>1, <4>2, <4>3 DEF SendSnapshot
    <3> QED BY <3>1, <3>2
  <2>2. CASE WindowAnswered
    BY <2>2 DEF WindowAnswered, CallOf, ipcFrame, IpcHolds
  <2>3. CASE TimeOut
    <3>1. PICK name \in Tokens : name = ipc.runtime.token
      BY <1>1
    <3>2. Discard("ipc", name) /\ ipc.at = "send"
      BY <2>3, <3>1 DEF TimeOut, GiveUp
    <3>3. CallOf("ipc") /\ Queued(name)' /\ \A token : IpcHolds(token) => token = name
      BY <1>1, <3>1, <3>2, DiscardQueues DEF CallOf, IpcHolds
    <3>4. win'.at = win.at /\ win'.runtime = win.runtime
      BY <1>1, <2>3 DEF TimeOut, Jobs
    <3> QED BY <3>3, <3>4
  <2>4. CASE SnapshotRefused
    BY <2>4 DEF SnapshotRefused, CallOf, ipcFrame, IpcHolds
  <2>5. CASE ReceiveSnapshot
    <3>1. win' = win /\ CallOf("ipc") /\ ipc.at = "idle"
      BY <2>5 DEF ReceiveSnapshot, CallOf, ipcFrame
    <3> QED BY <3>1 DEF IpcHolds
  <2> QED BY <2>1, <2>2, <2>3, <2>4, <2>5 DEF IpcThread
<1>3. /\ prepared' = prepared /\ answers'["window"] = answers["window"]
      /\ \A token : Queued(token) => Queued(token)'
  BY <1>1, <1>2, CallsKeepClaims
<1>4. \A token : WindowHolds(token) => WindowHolds(token)'
  BY <1>2, <1>3 DEF WindowHolds, Succeeded
<1> QED BY <1>2, <1>3, <1>4 DEF Claims

(* A configuration the window thread applies is its own until it is          *)
(* discarded.                                                               *)
LEMMA ApplyClaims ==
  ASSUME TypesOK, NEW kind \in {"request", "commands"}, NEW runtime \in Runtimes,
         ApplySnapshot(kind, runtime)
  PROVE  Queued(runtime.token)' \/ WindowHolds(runtime.token)'
<1>1. runtime.token \in Tokens /\ ScriptTypes /\ "window" \in Callers
  BY JobTypes DEF TypesOK, Callers
<1>2. CASE RefusedByInput(kind, runtime)
  BY <1>1, <1>2, DiscardQueues DEF RefusedByInput
<1>3. CASE TakenByInput(kind, runtime)
  BY <1>3 DEF TakenByInput, Remembering, Job, WindowHolds
<1> QED BY <1>2, <1>3 DEF ApplySnapshot

LEMMA WindowClaims ==
  ASSUME TypesOK, Answering, Claims, WindowThread \/ Redraw \/ Close
  PROVE  Claims'
<1>1. /\ "window" \in Callers /\ "ipc" \in Callers \ {"window"} /\ ScriptTypes
      /\ win \in Jobs /\ ipc \in Requests /\ ipc.runtime \in Runtimes
      /\ answers["window"].runtime \in Runtimes
  BY Held DEF Callers, TypesOK, ThreadTypes
<1>2. PICK name \in Tokens : name = win.runtime.token
  BY Held, JobTypes
<1>3. win = Idle => \A token : ~WindowHolds(token)
  BY DEF Idle, Job, WindowHolds
<1>4. SUFFICES ASSUME ~JoinScripts
               PROVE  /\ CallOf("window")
                      /\ \A token : IpcHolds(token) => ipc' = ipc \/ IpcHolds(token)'
                                                       \/ WindowHolds(token)' \/ Queued(token)'
                      /\ \A token : WindowHolds(token) => WindowHolds(token)' \/ Queued(token)'
  <2>1. CASE JoinScripts
    BY <2>1 DEF JoinScripts, StopCoordinator, Claims
  <2>2. ASSUME CallOf("window"),
               \A token : IpcHolds(token) => ipc' = ipc \/ IpcHolds(token)'
                                             \/ WindowHolds(token)' \/ Queued(token)',
               \A token : WindowHolds(token) => WindowHolds(token)' \/ Queued(token)'
        PROVE  Claims'
    <3>1. /\ prepared' = prepared /\ answers'["ipc"] = answers["ipc"]
          /\ \A token : Queued(token) => Queued(token)'
      BY <1>1, <2>2, CallsKeepClaims
    <3>2. \A token : IpcHolds(token) /\ ipc' = ipc => IpcHolds(token)'
      BY <3>1 DEF IpcHolds, Succeeded
    <3> QED BY <2>2, <3>1, <3>2 DEF Claims
  <2> QED BY <1>4, <2>1, <2>2
<1>5. CASE HandleSnapshot
  <2>1. ApplySnapshot("request", ipc.runtime) /\ win = Idle /\ ipc.outcome = "sent"
    BY <1>5 DEF HandleSnapshot
  <2>2. PICK runtime \in Runtimes : runtime = ipc.runtime
    BY <1>1
  <2>3. CallOf("window") /\ (Queued(runtime.token)' \/ WindowHolds(runtime.token)')
    BY <2>1, <2>2, ApplyHands, ApplyClaims
  <2>4. \A token : IpcHolds(token) => token = runtime.token
    BY <2>1, <2>2 DEF IpcHolds, Answering
  <2> QED BY <1>3, <2>1, <2>3, <2>4
<1>6. CASE CommandsPrepared
  <2>1. win.at = "prepare" /\ ipc' = ipc
    BY <1>6 DEF CommandsPrepared
  <2>2. PICK runtime \in Runtimes : runtime = answers["window"].runtime /\ runtime.token \in Tokens
    BY <1>1, JobTypes
  <2>3. \A token : WindowHolds(token) => token = runtime.token /\ Succeeded("window")
    BY <2>1, <2>2 DEF WindowHolds
  <2>4. CASE ~Succeeded("window") /\ GoOn("window")
    BY <2>1, <2>3, <2>4 DEF CallOf
  <2>5. CASE Discard("window", runtime.token)
    BY <1>1, <2>1, <2>2, <2>3, <2>5, DiscardQueues DEF CallOf
  <2>6. CASE ApplySnapshot("commands", runtime)
    BY <2>1, <2>3, <2>6, ApplyHands, ApplyClaims
  <2> QED BY <1>6, <2>2, <2>4, <2>5, <2>6 DEF CommandsPrepared
<1>7. CASE Rebuild
  <2>1. win.at = "rebuild" /\ ipc' = ipc /\ \A token : WindowHolds(token) => token = name
    BY <1>2, <1>7 DEF Rebuild, WindowHolds
  <2>2. CASE Commit("window", name) /\ win' = [win EXCEPT !.at = "commit"]
    <3>1. Task("commit", "window", NoConfig, name) \in Tasks /\ Task("commit", "window", NoConfig, name).who = "window"
      BY <1>1, Constants DEF Task, Tasks, Callers
    <3>2. answers'["window"] = NoAnswer
      BY <1>1, <2>2, <3>1, CallEffect DEF Commit
    <3>3. win'.at = "commit" /\ win'.runtime.token = name
      BY <1>1, <1>2, <2>2 DEF Jobs
    <3>4. WindowHolds(name)'
      BY <3>2, <3>3 DEF WindowHolds, Succeeded, NoAnswer, Answer
    <3> QED BY <2>1, <2>2, <3>4 DEF CallOf
  <2>3. CASE UNCHANGED scriptVars /\ win' = [win EXCEPT !.at = "rollback"]
    <3>1. win'.at = "rollback" /\ win'.runtime.token = name
      BY <1>1, <1>2, <2>3 DEF Jobs
    <3> QED BY <2>1, <2>3, <3>1 DEF WindowHolds, CallOf
  <2> QED BY <1>2, <1>7, <2>2, <2>3 DEF Rebuild
<1>8. CASE CommitDone \/ DiscardDone
  <2>1. CallOf("window") /\ \A token : ~WindowHolds(token)
    BY <1>8 DEF CommitDone, DiscardDone, CallOf, WindowHolds
  <2>2. ipc' = ipc \/ (ipc.outcome = "taken" /\ ipc.at = "send")
    BY <1>8 DEF CommitDone, DiscardDone, Reported, Answering
  <2> QED BY <2>1, <2>2 DEF IpcHolds
<1>9. CASE CommitFailed
  <2>1. win.at = "commit" /\ win'.at = "rollback" /\ win'.runtime = win.runtime
    BY <1>1, <1>9 DEF CommitFailed, Jobs
  <2> QED BY <1>9, <2>1 DEF CommitFailed, CallOf, WindowHolds
<1>10. CASE RollBack
  <2>1. Discard("window", name) /\ ipc' = ipc /\ \A token : WindowHolds(token) => token = name
    BY <1>2, <1>10 DEF RollBack, WindowHolds
  <2> QED BY <1>1, <2>1, DiscardQueues DEF CallOf
<1>11. CASE PublishSnapshot \/ HandleInputState \/ Redraw \/ Close
  <2>1. CallOf("window") /\ ipc' = ipc
    BY <1>11 DEF PublishSnapshot, HandleInputState, Redraw, Close, CallOf
  <2>2. \A token : ~WindowHolds(token)
    BY <1>3, <1>11 DEF PublishSnapshot, HandleInputState, Redraw, Close, WindowHolds
  <2> QED BY <2>1, <2>2
<1>12. CASE JoinIpcAndInput
  BY <1>12 DEF JoinIpcAndInput, CallOf, WindowHolds, IpcHolds
<1>13. CASE HandleUpdate
  BY <1>3, <1>13 DEF HandleUpdate, CallOf
<1> QED BY <1>4, <1>5, <1>6, <1>7, <1>8, <1>9, <1>10, <1>11, <1>12, <1>13 DEF WindowThread

(* The task the script thread takes, and whoever waits for it.              *)
LEMMA TaskTaken ==
  ASSUME TypesOK, CallsInv, tasks # <<>>
  PROVE  /\ Head(tasks) \in Tasks /\ Head(tasks) \in Range(tasks)
         /\ Head(tasks).who = "window" => /\ win.at = Head(tasks).op /\ ~Answered("window")
                                          /\ win.at = "commit" => Head(tasks).token = win.runtime.token
         /\ Head(tasks).who = "ipc" => /\ ipc.at = Head(tasks).op /\ ~Answered("ipc")
                                       /\ Head(tasks).op # "commit"
         /\ Head(tasks).who = "input" => Head(tasks).op = "input"
         /\ Head(tasks).who \in {"window", "ipc", "input"}
<1>1. Head(tasks) \in Tasks /\ Head(tasks) \in Range(tasks)
  BY TailRange DEF TypesOK, ScriptTypes
<1>2. Head(tasks).who \in {"window", "ipc", "input"} /\ ipc.at # "commit"
  BY <1>1 DEF Tasks, Callers, TypesOK, ThreadTypes, Requests
<1> QED BY <1>1, <1>2 DEF CallsInv, Waiting, TasksOf, InputCalls, Answered

LEMMA ScriptClaims ==
  ASSUME TypesOK, CallsInv, Claims, ScriptThread \/ ScriptKey \/ SwitchKey
  PROVE  Claims'
<1>1. ScriptTypes /\ UNCHANGED <<win, ipc>> /\ answers \in [Callers -> Replies]
  BY DEF TypesOK, ScriptThread, ScriptTask, ScriptCallback, ScriptKey, SwitchKey, ScriptTypes
<1>2. ASSUME UNCHANGED answers
      PROVE  \A token : (WindowHolds(token) => WindowHolds(token)') /\ (IpcHolds(token) => IpcHolds(token)')
  BY <1>1, <1>2 DEF WindowHolds, IpcHolds, Succeeded
<1>3. CASE ScriptKey
  <2>1. Task("input", "input", NoConfig, 0) \in Tasks /\ Task("input", "input", NoConfig, 0).who \notin Callers
    BY Constants DEF Task, Tasks, Callers
  <2>2. Call(Task("input", "input", NoConfig, 0))
    BY <1>3 DEF ScriptKey, DispatchInput
  <2>3. UNCHANGED <<answers, prepared>>
    BY <2>1, <2>2 DEF Call
  <2>4. Range(tasks) \subseteq Range(tasks')
    BY <1>1, <2>1, <2>2, CallEffect DEF Callers
  <2> QED BY <1>2, <2>3, <2>4 DEF Claims, Queued
<1>4. CASE SwitchKey
  <2>1. UNCHANGED <<answers, prepared, tasks>>
    BY <1>4 DEF SwitchKey, scriptVars
  <2> QED BY <1>2, <2>1 DEF Claims, Queued
<1>5. CASE ScriptThread
  <2>1. tasks # <<>> /\ tasks' = Tail(tasks) /\ tasks \in Seq(Tasks)
    BY <1>1, <1>5, TaskEffect DEF ScriptThread, ScriptTypes
  <2>2. \A token : Queued(token) /\ (Head(tasks).op # "discard" \/ Head(tasks).token # token) => Queued(token)'
    BY <2>1, TailRange DEF Queued
  <2>3. CASE IgnoreInput \/ \E visible \in BOOLEAN : RunInput(visible)
    <3>1. UNCHANGED <<answers, prepared>> /\ Head(tasks).op # "discard"
      BY <2>3 DEF IgnoreInput, RunInput, TakeTask
    <3> QED BY <1>2, <2>2, <3>1 DEF Claims
  <2>4. CASE RunDiscard
    <3>1. Head(tasks).op = "discard" /\ prepared' = {r \in prepared : r.token # Head(tasks).token}
          /\ \A who \in Callers : Head(tasks).who # who => answers'[who] = answers[who]
      BY <1>1, <1>5, <2>4, TaskEffect DEF RunDiscard, TakeTask, AfterDiscard, ScriptThread
    <3>2. (win.at # "discard" => answers'["window"] = answers["window"])
          /\ (ipc.at # "discard" => answers'["ipc"] = answers["ipc"])
      BY <2>1, <3>1, TaskTaken DEF Callers
    <3>3. \A token : (WindowHolds(token) => WindowHolds(token)') /\ (IpcHolds(token) => IpcHolds(token)')
      BY <1>1, <3>2 DEF WindowHolds, IpcHolds, Succeeded
    <3> QED BY <2>2, <3>1, <3>3 DEF Claims
  <2>5. CASE RunCommit
    <3>1. Head(tasks).op = "commit" /\ Head(tasks).who = "window" /\ win.at = "commit"
      BY <2>1, <2>5, TaskTaken DEF RunCommit, TakeTask
    <3>2. CASE prepared' = {}
      BY <3>2 DEF Claims
    <3>3. CASE Reply("failed", NoRuntime) /\ UNCHANGED prepared
      <4>1. answers'["ipc"] = answers["ipc"] /\ answers'["window"].state = "failed"
        BY <1>1, <3>1, <3>3 DEF Reply, Answer, Callers
      <4>2. \A token : (WindowHolds(token) => WindowHolds(token)') /\ (IpcHolds(token) => IpcHolds(token)')
        BY <1>1, <3>1, <4>1 DEF WindowHolds, IpcHolds, Succeeded
      <4> QED BY <2>2, <3>1, <3>3, <4>2 DEF Claims
    <3> QED BY <2>5, <3>2, <3>3 DEF RunCommit, NoCandidate
  <2>6. CASE RunPrepare
    <3>1. /\ Head(tasks).op = "prepare"
          /\ \A who \in Callers : Head(tasks).who # who => answers'[who] = answers[who]
      BY <1>1, <1>5, <2>6, TaskEffect DEF RunPrepare, TakeTask, ScriptThread
    <3>2. Head(tasks).who \in Callers
          /\ (Head(tasks).who = "window" => win.at = "prepare" /\ ~Answered("window"))
          /\ (Head(tasks).who = "ipc" => ipc.at = "prepare" /\ ~Answered("ipc"))
      BY <2>1, <3>1, TaskTaken DEF Callers
    <3>3. \A token : (WindowHolds(token) => WindowHolds(token)') /\ (IpcHolds(token) => IpcHolds(token)')
      BY <1>1, <3>1, <3>2 DEF WindowHolds, IpcHolds, Succeeded, Answered, Callers
    <3>4. PICK candidate : \/ prepared' = prepared \cup {candidate} /\ Reply("ok", candidate)
                           \/ prepared' = prepared
      BY <2>6 DEF RunPrepare
    <3>5. ASSUME Reply("ok", candidate)
          PROVE  WindowHolds(candidate.token)' \/ IpcHolds(candidate.token)'
      <4>1. answers'[Head(tasks).who].state = "ok" /\ answers'[Head(tasks).who].runtime = candidate
        BY <1>1, <3>2, <3>5 DEF Reply, Answer
      <4> QED BY <1>1, <3>2, <4>1 DEF WindowHolds, IpcHolds, Succeeded, Callers
    <3> QED BY <2>2, <3>1, <3>3, <3>4, <3>5 DEF Claims
  <2> QED BY <1>5, <2>3, <2>4, <2>5, <2>6 DEF ScriptThread, ScriptTask, ScriptCallback
<1> QED BY <1>3, <1>4, <1>5

LEMMA ClaimsKept == TypesOK /\ CallsInv /\ Answering /\ Claims /\ [WindowNext]_hostVars => Claims'
<1> SUFFICES ASSUME TypesOK, CallsInv, Answering, Claims, [WindowNext]_hostVars PROVE Claims'
  OBVIOUS
<1>1. CASE WindowThread \/ Redraw \/ Close
  BY <1>1, WindowClaims
<1>2. CASE IpcThread \/ ReceiveSnapshot
  BY <1>2, IpcClaims
<1>3. CASE ScriptThread \/ ScriptKey \/ SwitchKey
  BY <1>3, ScriptClaims
<1>4. CASE DieOfDangling
  BY <1>4 DEF DieOfDangling, Claims
<1>5. CASE UNCHANGED hostVars
  BY <1>5 DEF hostVars, scriptVars, Claims, Queued, WindowHolds, IpcHolds, Succeeded
<1> QED BY <1>1, <1>2, <1>3, <1>4, <1>5 DEF WindowNext, Environment

-----------------------------------------------------------------------------
(* The parts, at each place of the window thread: the scripts change over    *)
(* when the commit runs, the snapshot they switch from when its answer is    *)
(* taken, and what is rendered in the first step; the old parts are          *)
(* remembered until then.                                                   *)

Committed == win.at = "commit" /\ Succeeded("window")
ScriptsRun == active.config = IF Committed THEN win.runtime.config ELSE current
Applying == win.at \in {"rebuild", "commit"} => render = win.runtime.config /\ input = win.runtime.config
Remembered ==
  IF win.at \in {"rebuild", "commit", "rollback"}
    THEN win.render = current /\ win.input = current
    ELSE render = current /\ input = current
Parts == Open => ScriptsRun /\ Applying /\ Remembered

LEMMA ApplyParts ==
  ASSUME TypesOK, Parts, win.at \in {"idle", "prepare"}, NEW kind \in {"request", "commands"},
         NEW runtime \in Runtimes, ApplySnapshot(kind, runtime)
  PROVE  Parts'
<1>1. active.config = current /\ render = current /\ input = current
  BY DEF Parts, Open, ScriptsRun, Committed, Remembered
<1>2. runtime.token \in Tokens /\ ScriptTypes /\ "window" \in Callers
  BY JobTypes DEF TypesOK, Callers
<1>3. active' = active
  BY ApplyHands, <1>2 DEF CallOf, GoOn, scriptVars, Discard, Commit, Prepare, Call
<1>4. CASE RefusedByInput(kind, runtime)
  <2>1. win'.at = "discard" /\ UNCHANGED <<render, input, current>>
    BY <1>4 DEF RefusedByInput, Job, configVars
  <2> QED BY <1>1, <1>3, <2>1 DEF Parts, ScriptsRun, Committed, Applying, Remembered
<1>5. CASE TakenByInput(kind, runtime)
  <2>1. /\ render' = runtime.config /\ input' = runtime.config /\ current' = current
        /\ win' = Remembering(Job("rebuild", kind, runtime))
    BY <1>5 DEF TakenByInput
  <2>2. win'.at = "rebuild" /\ win'.runtime = runtime /\ win'.render = render /\ win'.input = input
    BY <2>1 DEF Remembering, Job
  <2> QED BY <1>1, <1>3, <2>1, <2>2 DEF Parts, ScriptsRun, Committed, Applying, Remembered
<1> QED BY <1>4, <1>5 DEF ApplySnapshot

LEMMA WindowParts ==
  ASSUME TypesOK, Parts, WindowThread \/ Redraw \/ Close
  PROVE  Parts'
<1>1. win \in Jobs /\ ScriptTypes /\ answers \in [Callers -> Replies] /\ "window" \in Callers
      /\ ipc.runtime \in Runtimes /\ answers["window"].runtime \in Runtimes
  BY Held DEF TypesOK, ThreadTypes, ScriptTypes, Callers
<1>2. win = Idle => win.at = "idle"
  BY DEF Idle, Job
<1>3. Idle.at = "idle"
  BY DEF Idle, Job
<1>4. ASSUME win.at \notin {"rebuild", "commit", "rollback"}, Open,
             win'.at \notin {"rebuild", "commit", "rollback"}, UNCHANGED <<active, current, render, input>>
      PROVE  Parts'
  BY <1>4 DEF Parts, ScriptsRun, Committed, Applying, Remembered
<1>5. CASE HandleSnapshot
  BY <1>1, <1>2, <1>5, ApplyParts DEF HandleSnapshot
<1>6. CASE CommandsPrepared
  <2>1. win.at = "prepare"
    BY <1>6 DEF CommandsPrepared
  <2>2. PICK runtime \in Runtimes : runtime = answers["window"].runtime
    BY <1>1
  <2>3. CASE ApplySnapshot("commands", runtime)
    BY <2>1, <2>3, ApplyParts
  <2>4. CASE win' = Idle /\ GoOn("window") /\ UNCHANGED configVars
    BY <1>3, <1>4, <2>1, <2>4 DEF GoOn, configVars, Open
  <2>5. CASE Discard("window", runtime.token) /\ win' = Job("discard", "commands", runtime) /\ UNCHANGED configVars
    BY <1>4, <2>1, <2>5 DEF Discard, Call, Job, configVars, Open
  <2> QED BY <1>6, <2>2, <2>3, <2>4, <2>5 DEF CommandsPrepared
<1>7. CASE Rebuild
  <2>1. win.at = "rebuild" /\ UNCHANGED <<render, input, current>>
    BY <1>7 DEF Rebuild
  <2>2. active' = active /\ \/ win' = [win EXCEPT !.at = "rollback"]
                            \/ win' = [win EXCEPT !.at = "commit"] /\ answers'["window"] = NoAnswer
    <3>1. CASE UNCHANGED scriptVars /\ win' = [win EXCEPT !.at = "rollback"]
      BY <3>1 DEF scriptVars
    <3>2. CASE Commit("window", win.runtime.token) /\ win' = [win EXCEPT !.at = "commit"]
      <4>1. PICK task : task = Task("commit", "window", NoConfig, win.runtime.token)
        OBVIOUS
      <4>2. task.who = "window" /\ Call(task)
        BY <3>2, <4>1 DEF Commit, Task
      <4> QED BY <1>1, <3>2, <4>2 DEF Call, Taken
    <3> QED BY <1>7, <3>1, <3>2 DEF Rebuild
  <2>3. /\ win'.at \in {"commit", "rollback"} /\ win'.runtime = win.runtime
        /\ win'.render = win.render /\ win'.input = win.input
    BY <1>1, <2>2 DEF Jobs
  <2>4. win'.at = "commit" => answers'["window"].state = "none"
    BY <1>1, <2>2 DEF NoAnswer, Answer, Jobs
  <2>5. active.config = current /\ win.render = current /\ win.input = current
        /\ render = win.runtime.config /\ input = win.runtime.config
    BY <2>1 DEF Parts, Open, ScriptsRun, Committed, Applying, Remembered
  <2> QED BY <2>1, <2>2, <2>3, <2>4, <2>5 DEF Parts, ScriptsRun, Committed, Applying, Remembered, Succeeded
<1>8. CASE CommitDone
  <2>1. win.at = "commit" /\ Succeeded("window") /\ current' = win.runtime.config
        /\ UNCHANGED <<render, input, active>>
    BY <1>8 DEF CommitDone, GoOn
  <2>2. win'.at \in {"idle", "publish"}
    BY <1>1, <1>3, <1>8 DEF CommitDone, Jobs
  <2>3. active.config = win.runtime.config /\ render = win.runtime.config /\ input = win.runtime.config
    BY <2>1 DEF Parts, Open, ScriptsRun, Committed, Applying
  <2> QED BY <2>1, <2>2, <2>3 DEF Parts, ScriptsRun, Committed, Applying, Remembered
<1>9. CASE CommitFailed
  <2>1. win.at = "commit" /\ ~Succeeded("window") /\ UNCHANGED <<render, input, current, active>>
    BY <1>9 DEF CommitFailed, configVars, GoOn, Succeeded
  <2>2. win'.at = "rollback" /\ win'.render = win.render /\ win'.input = win.input
    BY <1>1, <1>9 DEF CommitFailed, Jobs
  <2>3. active.config = current /\ win.render = current /\ win.input = current
    BY <2>1 DEF Parts, Open, ScriptsRun, Committed, Remembered
  <2> QED BY <2>1, <2>2, <2>3 DEF Parts, ScriptsRun, Committed, Applying, Remembered
<1>10. CASE RollBack
  <2>1. win.at = "rollback" /\ render' = win.render /\ input' = win.input /\ UNCHANGED <<current, active>>
    BY <1>10 DEF RollBack, Discard, Call
  <2>2. win'.at = "discard"
    BY <1>1, <1>10 DEF RollBack, Jobs
  <2>3. active.config = current /\ win.render = current /\ win.input = current
    BY <2>1 DEF Parts, Open, ScriptsRun, Committed, Remembered
  <2> QED BY <2>1, <2>2, <2>3 DEF Parts, ScriptsRun, Committed, Applying, Remembered
<1>11. CASE DiscardDone \/ PublishSnapshot \/ HandleInputState \/ Redraw
  <2>1. win.at \in {"discard", "publish", "idle"} /\ win'.at = "idle"
    BY <1>2, <1>3, <1>11 DEF DiscardDone, PublishSnapshot, HandleInputState, Redraw
  <2>2. UNCHANGED <<active, current, render, input>>
    BY <1>11 DEF DiscardDone, PublishSnapshot, HandleInputState, Redraw, GoOn, scriptVars, configVars
  <2> QED BY <1>4, <2>1, <2>2 DEF Open
<1>12. CASE HandleUpdate
  <2>1. win.at = "idle" /\ UNCHANGED configVars
    BY <1>2, <1>12 DEF HandleUpdate
  <2>2. CASE win' = Idle /\ UNCHANGED scriptVars
    BY <1>3, <1>4, <2>1, <2>2 DEF scriptVars, configVars, Open
  <2>3. ASSUME NEW config \in Configs, Prepare("window", config),
               win' = Job("prepare", "commands", [NoRuntime EXCEPT !.config = config])
        PROVE  Parts'
    <3>1. win'.at = "prepare" /\ active' = active
      BY <2>3 DEF Job, Prepare, Call
    <3> QED BY <1>4, <2>1, <3>1 DEF configVars, Open
  <2> QED BY <1>12, <2>2, <2>3 DEF HandleUpdate
<1>13. CASE Close \/ JoinIpcAndInput \/ JoinScripts
  <2>1. win'.at \in {"closing", "joining", "ended"}
    BY <1>1, <1>13 DEF Close, JoinIpcAndInput, JoinScripts, Job, Jobs
  <2> QED BY <2>1 DEF Parts, Open
<1> QED BY <1>5, <1>6, <1>7, <1>8, <1>9, <1>10, <1>11, <1>12, <1>13 DEF WindowThread

LEMMA ScriptParts ==
  ASSUME TypesOK, CallsInv, Names, Parts, ScriptThread
  PROVE  Parts'
<1>1. UNCHANGED <<win, configVars>> /\ answers \in [Callers -> Replies] /\ ScriptTypes
  BY DEF ScriptThread, ScriptTask, ScriptCallback, TypesOK, ScriptTypes
<1>2. tasks # <<>> /\ \A who \in Callers : Head(tasks).who # who => answers'[who] = answers[who]
  BY <1>1, TaskEffect DEF ScriptThread
<1>3. ASSUME active'.config = active.config, Committed' = Committed PROVE Parts'
  BY <1>1, <1>3 DEF Parts, Open, ScriptsRun, Applying, Remembered, configVars
<1>4. win.at # "commit" \/ Head(tasks).who # "window" => Committed' = Committed
  BY <1>1, <1>2 DEF Committed, Succeeded, Callers
<1>5. CASE ~RunCommit
  <2>1. active'.config = active.config
    BY <1>1, <1>5 DEF ScriptThread, ScriptTask, ScriptCallback, RunPrepare, RunDiscard, IgnoreInput,
                      RunInput, ScriptTypes, Runtimes
  <2>2. Head(tasks).op # "commit"
    BY <1>5 DEF ScriptThread, ScriptTask, ScriptCallback, RunPrepare, RunDiscard, IgnoreInput, RunInput, TakeTask
  <2>3. Committed' = Committed
    BY <1>2, <1>4, <2>2, TaskTaken
  <2> QED BY <1>3, <2>1, <2>3
<1>6. CASE RunCommit
  <2>1. Head(tasks).op = "commit" /\ Head(tasks).who = "window" /\ win.at = "commit"
        /\ Head(tasks).token = win.runtime.token /\ ~Answered("window")
    BY <1>2, <1>6, TaskTaken DEF RunCommit, TakeTask
  <2>2. ~Committed /\ "window" \in Callers
    BY <2>1 DEF Committed, Succeeded, Answered, Callers
  <2>3. ASSUME NEW candidate \in prepared, candidate.token = Head(tasks).token,
               active' = candidate, Reply("ok", candidate)
        PROVE  Parts'
    <3>1. candidate.config = win.runtime.config
      BY <2>1, <2>3 DEF Names, Named
    <3>2. Committed'
      BY <1>1, <2>1, <2>2, <2>3 DEF Committed, Succeeded, Reply, Answer
    <3> QED BY <1>1, <2>3, <3>1, <3>2 DEF Parts, Open, ScriptsRun, Applying, Remembered, configVars
  <2>4. ASSUME active' = active, Reply("failed", NoRuntime) PROVE Parts'
    <3>1. ~Committed'
      BY <1>1, <2>1, <2>2, <2>4 DEF Committed, Succeeded, Reply, Answer
    <3> QED BY <1>1, <2>2, <2>4, <3>1 DEF Parts, Open, ScriptsRun, Applying, Remembered, configVars
  <2> QED BY <1>6, <2>3, <2>4 DEF RunCommit, NoCandidate
<1> QED BY <1>5, <1>6

LEMMA PartsKept == TypesOK /\ CallsInv /\ Names /\ Parts /\ [WindowNext]_hostVars => Parts'
<1> SUFFICES ASSUME TypesOK, CallsInv, Names, Parts, [WindowNext]_hostVars PROVE Parts'
  OBVIOUS
<1>1. "ipc" \in Callers /\ "window" \in Callers \ {"ipc"} /\ ScriptTypes /\ win \in Jobs
      /\ ipc.runtime.token \in Tokens /\ answers["ipc"].runtime.token \in Tokens
  BY Held, JobTypes DEF Callers, TypesOK, ThreadTypes
<1>2. ASSUME UNCHANGED <<configVars, active>>, answers'["window"] = answers["window"],
             win'.at = win.at, win'.runtime = win.runtime, win'.render = win.render, win'.input = win.input
      PROVE  Parts'
  BY <1>2 DEF Parts, Open, ScriptsRun, Committed, Succeeded, Applying, Remembered, configVars
<1>3. CASE WindowThread \/ Redraw \/ Close
  BY <1>3, WindowParts
<1>4. CASE ScriptThread
  BY <1>4, ScriptParts
<1>5. CASE IpcThread \/ ReceiveSnapshot
  <2>1. /\ UNCHANGED configVars /\ win'.at = win.at /\ win'.runtime = win.runtime
        /\ win'.render = win.render /\ win'.input = win.input
    BY <1>1, <1>5 DEF IpcThread, SendSnapshot, WindowAnswered, TimeOut, SnapshotRefused, ReceiveSnapshot,
                      ipcFrame, Jobs
  <2>2. CallOf("ipc")
    BY <1>1, <1>5 DEF IpcThread, SendSnapshot, WindowAnswered, TimeOut, SnapshotRefused, ReceiveSnapshot,
                      GiveUp, CallOf
  <2>3. active' = active
    BY <2>2 DEF CallOf, GoOn, scriptVars, Discard, Commit, Prepare, Call
  <2>4. answers'["window"] = answers["window"]
    BY <1>1, <2>2, CallsKeepClaims
  <2> QED BY <1>2, <2>1, <2>3, <2>4
<1>6. CASE ScriptKey
  <2>1. UNCHANGED <<configVars, active, answers, win>>
    BY <1>6 DEF ScriptKey, DispatchInput, Call, Task, Callers
  <2> QED BY <1>2, <2>1
<1>7. CASE SwitchKey \/ UNCHANGED hostVars
  <2>1. UNCHANGED <<configVars, active, answers, win>>
    BY <1>7 DEF SwitchKey, hostVars, scriptVars
  <2> QED BY <1>2, <2>1
<1>8. CASE DieOfDangling
  <2>1. win'.at = "died"
    BY <1>8 DEF DieOfDangling, Idle, Job
  <2> QED BY <2>1 DEF Parts, Open
<1> QED BY <1>3, <1>4, <1>5, <1>6, <1>7, <1>8 DEF WindowNext, Environment

-----------------------------------------------------------------------------
(* What the Host reports, while no answer timed out in the handler: it lags   *)
(* behind the window thread only until the answer is taken or published.    *)

Lagging ==
  IF win.at = "publish" THEN win.runtime.config = current
  ELSE IF ipc.outcome = "applied" THEN ipc.runtime.config = current
  ELSE hostState = current
KindsKnown == win.at \in {"rebuild", "commit", "rollback", "discard"} => win.kind \in {"request", "commands"}
Reports == ~torn => KindsKnown /\ Lagging

LEMMA ReportsKept ==
  TypesOK /\ Answering /\ Reports /\ [WindowNext]_hostVars => Reports'
<1> SUFFICES ASSUME TypesOK, Answering, Reports, [WindowNext]_hostVars, ~torn' PROVE (KindsKnown /\ Lagging)'
  BY DEF Reports
<1>1. win \in Jobs /\ ipc \in Requests /\ torn \in BOOLEAN
  BY DEF TypesOK, ThreadTypes, FlagTypes
<1>2. ~torn
  BY <1>1 DEF WindowNext, WindowThread, IpcThread, ScriptThread, Environment, hostVars,
      HandleSnapshot, Rebuild, CommitDone, CommitFailed, RollBack, DiscardDone,
      PublishSnapshot, HandleUpdate, CommandsPrepared, HandleInputState, JoinIpcAndInput, JoinScripts,
      SendSnapshot, WindowAnswered, TimeOut, SnapshotRefused, ScriptTask, ScriptCallback,
      ScriptKey, SwitchKey, ReceiveSnapshot, Redraw, Close, DieOfDangling,
      ipcFrame, applyFrame, windowFrame
<1>3. KindsKnown /\ Lagging
  BY <1>2 DEF Reports
<1>4. CASE UNCHANGED <<win, current, hostState>> /\ ipc'.outcome = ipc.outcome /\ ipc'.runtime = ipc.runtime
  BY <1>3, <1>4 DEF KindsKnown, Lagging
<1>5. CASE UNCHANGED <<win, current, hostState>> /\ ipc.outcome # "applied" /\ ipc'.outcome # "applied"
  BY <1>3, <1>5 DEF KindsKnown, Lagging
<1>6. CASE /\ UNCHANGED <<ipc, current, hostState>> /\ win.at # "publish" /\ win'.at # "publish"
           /\ win'.at \in {"rebuild", "commit", "rollback", "discard"} => win'.kind \in {"request", "commands"}
  BY <1>3, <1>6 DEF KindsKnown, Lagging
<1>7. CASE IpcThread \/ ReceiveSnapshot
  <2>1. CASE SendSnapshot
    BY <1>5, <2>1 DEF SendSnapshot, GiveUp, ipcFrame, configVars, Request, NoRequest, Answering
  <2>2. CASE WindowAnswered
    <3>1. /\ UNCHANGED <<win, current>> /\ ipc' = NoRequest /\ ipc.outcome \in {"applied", "failed"}
          /\ hostState' = IF ipc.outcome = "applied" THEN ipc.runtime.config ELSE hostState
      BY <2>2 DEF WindowAnswered, Accepted, ipcFrame, configVars
    <3> QED BY <1>3, <3>1 DEF KindsKnown, Lagging, NoRequest, Request
  <2>3. CASE TimeOut
    <3>1. ipc.outcome = "sent" /\ UNCHANGED <<win, current, hostState>> /\ ipc'.outcome = "none"
      BY <2>3 DEF TimeOut, Expires, GiveUp, Request, configVars
    <3> QED BY <1>5, <3>1
  <2>4. CASE SnapshotRefused
    BY <1>5, <2>4 DEF SnapshotRefused, ipcFrame, configVars, Request, NoRequest, Answering
  <2>5. CASE ReceiveSnapshot
    <3>1. UNCHANGED <<win, current, hostState>> /\ ipc.at = "idle" /\ ipc'.outcome = "none"
      BY <2>5 DEF ReceiveSnapshot, ipcFrame, configVars, Request
    <3> QED BY <1>5, <3>1 DEF Answering
  <2> QED BY <1>7, <2>1, <2>2, <2>3, <2>4, <2>5 DEF IpcThread
<1>8. CASE HandleSnapshot
  <2>1. ApplySnapshot("request", ipc.runtime) /\ win = Idle /\ ipc.outcome = "sent"
        /\ ipc' = [ipc EXCEPT !.outcome = "taken"] /\ UNCHANGED hostState
    BY <1>8 DEF HandleSnapshot, applyFrame
  <2>2. PICK runtime \in Runtimes : runtime = ipc.runtime
    BY Held
  <2>3. win'.kind = "request" /\ current' = current /\ win'.at # "publish"
    BY <2>1, <2>2, ApplyHands
  <2>4. hostState = current /\ ipc'.outcome = "taken"
    BY <1>1, <1>3, <2>1 DEF Lagging, Idle, Job, Requests
  <2> QED BY <2>1, <2>3, <2>4 DEF KindsKnown, Lagging
<1>9. CASE CommandsPrepared
  <2>1. UNCHANGED <<ipc, hostState>> /\ win.at = "prepare"
    BY <1>9 DEF CommandsPrepared, applyFrame
  <2>2. PICK runtime \in Runtimes : runtime = answers["window"].runtime
    BY Held
  <2>3. CASE ApplySnapshot("commands", runtime)
    <3>1. win'.kind = "commands" /\ current' = current /\ win'.at # "publish"
      BY <2>3, ApplyHands
    <3> QED BY <1>6, <2>1, <3>1
  <2>4. CASE UNCHANGED configVars /\ (win' = Idle \/ win' = Job("discard", "commands", runtime))
    BY <1>6, <2>1, <2>4 DEF configVars, Idle, Job
  <2> QED BY <1>9, <2>2, <2>3, <2>4 DEF CommandsPrepared
<1>10. CASE Rebuild \/ CommitFailed \/ RollBack
  <2>1. UNCHANGED <<ipc, current, hostState>>
    BY <1>10 DEF Rebuild, CommitFailed, RollBack, windowFrame, applyFrame, configVars
  <2>2. win.at \in {"rebuild", "commit", "rollback"} /\ win'.kind = win.kind
        /\ win'.at \in {"commit", "rollback", "discard"}
    BY <1>1, <1>10 DEF Rebuild, CommitFailed, RollBack, Jobs
  <2> QED BY <1>3, <1>6, <2>1, <2>2 DEF KindsKnown
<1>11. CASE CommitDone
  <2>1. win.at = "commit" /\ current' = win.runtime.config /\ UNCHANGED hostState
    BY <1>11 DEF CommitDone, windowFrame
  <2>2. CASE win.kind = "request"
    <3>1. win' = Idle /\ ipc'.outcome = "applied" /\ ipc'.runtime = win.runtime
      BY <1>1, <1>11, <2>2 DEF CommitDone, Reported, Answering, Requests
    <3> QED BY <2>1, <3>1 DEF KindsKnown, Lagging, Idle, Job
  <2>3. CASE win.kind = "commands"
    <3>1. win'.at = "publish" /\ win'.runtime = win.runtime
      BY <1>1, <1>11, <2>3 DEF CommitDone, Jobs
    <3> QED BY <2>1, <3>1 DEF KindsKnown, Lagging
  <2> QED BY <1>3, <2>1, <2>2, <2>3 DEF KindsKnown
<1>12. CASE DiscardDone
  <2>1. win.at = "discard" /\ win' = Idle /\ UNCHANGED <<current, hostState>>
    BY <1>12 DEF DiscardDone, windowFrame, configVars
  <2>2. CASE win.kind = "request"
    <3>1. ipc.outcome = "taken" /\ ipc'.outcome = "failed"
      BY <1>1, <1>12, <2>2 DEF DiscardDone, Reported, Answering, Requests
    <3> QED BY <1>3, <2>1, <3>1 DEF KindsKnown, Lagging, Idle, Job
  <2>3. CASE win.kind # "request"
    <3>1. ipc' = ipc
      BY <1>12, <2>3 DEF DiscardDone, Reported
    <3> QED BY <1>6, <2>1, <3>1 DEF Idle, Job
  <2> QED BY <2>2, <2>3
<1>13. CASE PublishSnapshot
  <2>1. win.at = "publish" /\ win' = Idle /\ UNCHANGED <<ipc, current>> /\ hostState' = win.runtime.config
        /\ ipc.at \in {"idle", "stopped"}
    BY <1>13 DEF PublishSnapshot, MutexFree, configVars
  <2>2. ipc.outcome = "none"
    BY <2>1 DEF Answering
  <2> QED BY <1>3, <2>1, <2>2 DEF KindsKnown, Lagging, Idle, Job
<1>14. CASE HandleUpdate
  <2>1. win = Idle /\ UNCHANGED <<ipc, current, hostState>>
    BY <1>14 DEF HandleUpdate, windowFrame, configVars
  <2>2. win'.at \in {"idle", "prepare"}
    <3>1. win' = Idle \/ \E config \in Configs : win' = Job("prepare", "commands", [NoRuntime EXCEPT !.config = config])
      BY <1>14 DEF HandleUpdate
    <3> QED BY <3>1 DEF Idle, Job
  <2> QED BY <1>6, <2>1, <2>2 DEF Idle, Job
<1>15. CASE Close \/ JoinScripts
  <2>1. UNCHANGED <<ipc, current, hostState>>
    BY <1>15 DEF Close, JoinScripts, windowFrame, configVars
  <2>2. win.at \in {"idle", "joining"} /\ win'.at \in {"closing", "ended"}
    BY <1>1, <1>15 DEF Close, JoinScripts, Idle, Job, Jobs
  <2> QED BY <1>6, <2>1, <2>2
<1>16. CASE JoinIpcAndInput
  <2>1. UNCHANGED <<current, hostState>> /\ ipc'.outcome = ipc.outcome /\ ipc'.runtime = ipc.runtime
        /\ win.at = "closing" /\ win'.at = "joining"
    BY <1>1, <1>16 DEF JoinIpcAndInput, windowFrame, configVars, Requests, Jobs
  <2> QED BY <1>3, <2>1 DEF KindsKnown, Lagging
<1>17. CASE HandleInputState \/ Redraw \/ ScriptThread \/ ScriptKey \/ SwitchKey \/ UNCHANGED hostVars
  <2>1. UNCHANGED <<win, ipc, current, hostState>>
    BY <1>17 DEF HandleInputState, Redraw, ScriptThread, ScriptTask, ScriptCallback, ScriptKey, SwitchKey,
                 hostVars, windowFrame, configVars
  <2> QED BY <1>4, <2>1
<1>18. CASE DieOfDangling
  <2>1. win'.at = "died" /\ ipc'.outcome = "none" /\ hostState' = current'
    BY <1>18 DEF DieOfDangling, Idle, Job, NoRequest, Request
  <2> QED BY <2>1 DEF KindsKnown, Lagging
<1> QED BY <1>7, <1>8, <1>9, <1>10, <1>11, <1>12, <1>13, <1>14, <1>15, <1>16, <1>17, <1>18
        DEF WindowNext, WindowThread, Environment

-----------------------------------------------------------------------------
(* The switches.  What the input thread evaluates is what its last message    *)
(* says, or what the window thread was told before.                         *)

InputLetters == {m \in Letters : m.kind = "input"}
Reporting(visible) == {m \in Letters : m.flag /\ m.visible = visible}
SwitchesHeard ==
  inputConfig # NoConfig =>
    /\ LastIn(inbox, InputLetters, Reporting(inputVisible))
    /\ Lacks(inbox, InputLetters) => switchConfigured /\ switchVisible = inputVisible
Switches == Open => SwitchesHeard

LEMMA PostEffect ==
  ASSUME NEW kind \in {"update", "input"}, NEW visible \in BOOLEAN, NEW flag \in BOOLEAN,
         NEW token \in Tokens, Post(Posted(kind, visible, flag, token))
  PROVE  IF Open
           THEN \E m \in Letters : /\ inbox' = Append(inbox, m)
                                  /\ m.kind = kind /\ m.visible = visible /\ m.flag = flag /\ m.token = token
           ELSE inbox' = inbox
<1>1. PICK m \in Letters : m = Posted(kind, visible, flag, token)
  BY DEF Posted, Letters
<1>2. m.kind = kind /\ m.visible = visible /\ m.flag = flag /\ m.token = token
  BY <1>1 DEF Posted
<1> QED BY <1>1, <1>2 DEF Post

(* What the input thread posts when it is given a configuration.            *)
InputSays ==
  \/ inbox' = inbox /\ (inputConfig' = NoConfig \/ UNCHANGED <<inputConfig, inputVisible>>)
  \/ \E m \in InputLetters :
       /\ inbox' = Append(inbox, m) /\ m.token = 0
       /\ inputConfig' = NoConfig \/ m \in Reporting(inputVisible')
LEMMA InputEffect ==
  ASSUME TypesOK, Open, NEW config, InputStep(config)
  PROVE  /\ InputSays
         /\ InputApplied(config) => ~Lacks(inbox', InputLetters)
<1>1. 0 \in Tokens /\ inbox \in Seq(Letters) /\ "input" \in {"update", "input"}
      /\ TRUE \in BOOLEAN /\ FALSE \in BOOLEAN
  BY Constants DEF TypesOK, ThreadTypes
<1>2. ASSUME Published(config)
      PROVE  \E m \in InputLetters : inbox' = Append(inbox, m) /\ m.token = 0 /\ m \in Reporting(inputVisible')
  <2>0. inputVisible' \in BOOLEAN
    BY <1>2 DEF Published
  <2>1. PICK visible \in BOOLEAN : visible = inputVisible'
    BY <2>0
  <2>2. PICK flag \in BOOLEAN : flag = TRUE
    OBVIOUS
  <2>3. Post(Posted("input", visible, flag, 0))
    BY <1>2, <2>1, <2>2 DEF Published
  <2>4. PICK m \in Letters : /\ inbox' = Append(inbox, m)
                             /\ m.kind = "input" /\ m.visible = visible /\ m.flag = flag /\ m.token = 0
    BY <1>1, <2>3, PostEffect
  <2> QED BY <2>1, <2>2, <2>4 DEF InputLetters, Reporting
<1>3. CASE InputApplied(config)
  <2>1. PICK m \in InputLetters : inbox' = Append(inbox, m) /\ m.token = 0 /\ m \in Reporting(inputVisible')
    BY <1>2, <1>3 DEF InputApplied
  <2>2. m \in Letters
    BY DEF InputLetters
  <2> QED BY <1>1, <2>1, <2>2, LastAppended DEF InputSays
<1>4. ASSUME InputRefused PROVE InputSays
  BY <1>4 DEF InputRefused, InputSays, inputVars
<1>5. ASSUME InputTimedOut(config) PROVE InputSays
  <2>1. CASE Published(config)
    BY <1>2, <2>1 DEF InputSays
  <2>2. CASE UNCHANGED <<inputVars, inbox>>
    BY <2>2 DEF InputSays, inputVars
  <2> QED BY <1>5, <2>1, <2>2 DEF InputTimedOut
<1>6. ASSUME InputLost PROVE InputSays
  <2>1. inputConfig' = NoConfig
    BY <1>6 DEF InputLost
  <2>2. ASSUME inputVisible' \in BOOLEAN, Post(Posted("input", inputVisible', FALSE, 0))
        PROVE  InputSays
    <3>1. PICK visible \in BOOLEAN : visible = inputVisible'
      BY <2>2
    <3>2. PICK flag \in BOOLEAN : flag = FALSE
      OBVIOUS
    <3>3. Post(Posted("input", visible, flag, 0))
      BY <2>2, <3>1, <3>2
    <3>4. \E m \in Letters : inbox' = Append(inbox, m) /\ m.kind = "input" /\ m.token = 0
      BY <1>1, <3>3, PostEffect
    <3> QED BY <2>1, <3>4 DEF InputSays, InputLetters
  <2> QED BY <1>6, <2>1, <2>2 DEF InputLost, InputSays
<1>7. InputApplied(config) \/ InputSays
  BY <1>4, <1>5, <1>6 DEF InputStep
<1>8. Lacks(inbox', InputLetters) => ~InputApplied(config)
  BY <1>3
<1>9. InputApplied(config) => InputSays
  BY <1>3
<1> QED BY <1>7, <1>8, <1>9

(* The steps of the window thread that call the input thread, and the others. *)
LEMMA ApplySays ==
  ASSUME TypesOK, Open, NEW kind, NEW runtime \in Runtimes, ApplySnapshot(kind, runtime)
  PROVE  /\ InputSays /\ UNCHANGED <<flags, current, drawn>>
         /\ \/ win'.at = "discard" /\ render' = render
            \/ win'.at = "rebuild" /\ ~Lacks(inbox', InputLetters)
<1>1. CASE RefusedByInput(kind, runtime)
  <2>1. InputStep(runtime.config)
    BY <1>1 DEF RefusedByInput, InputStep
  <2>2. win'.at = "discard" /\ UNCHANGED <<flags, current, drawn, render>>
    BY <1>1 DEF RefusedByInput, Job, configVars
  <2> QED BY <2>1, <2>2, InputEffect
<1>2. CASE TakenByInput(kind, runtime)
  <2>1. InputApplied(runtime.config) /\ InputStep(runtime.config)
    BY <1>2 DEF TakenByInput, InputStep
  <2>2. win'.at = "rebuild" /\ UNCHANGED <<flags, current, drawn>>
    BY <1>2 DEF TakenByInput, Remembering, Job
  <2> QED BY <2>1, <2>2, InputEffect
<1> QED BY <1>1, <1>2 DEF ApplySnapshot

LEMMA RestoreSays == ASSUME TypesOK, Open, RestoreInput PROVE InputSays
<1>1. PICK config : config = win.input
  OBVIOUS
<1>2. InputStep(config)
  BY <1>1 DEF RestoreInput, InputStep
<1> QED BY <1>2, InputEffect

CallsInput == HandleSnapshot \/ RollBack \/ CommandsPrepared
LEMMA CallsInputSays ==
  ASSUME TypesOK, CallsInput
  PROVE  /\ InputSays /\ Open /\ UNCHANGED <<scriptVisible, usesLua, switchVisible, switchConfigured, heard>>
         /\ UNCHANGED <<active, prepared, nextToken>>
         /\ win'.at \in {"idle", "rebuild", "discard"}
<1>1. /\ ScriptTypes /\ win \in Jobs /\ "window" \in Callers /\ win.runtime.token \in Tokens
      /\ ipc.runtime \in Runtimes /\ answers["window"].runtime \in Runtimes
  BY Held, JobTypes DEF TypesOK, ThreadTypes, Callers
<1>2. CallOf("window") => UNCHANGED <<active, prepared, nextToken>>
  BY DEF CallOf, GoOn, scriptVars, Discard, Commit, Prepare, Call
<1>3. CASE HandleSnapshot
  <2>1. ApplySnapshot("request", ipc.runtime) /\ Open
    BY <1>3 DEF HandleSnapshot, Open, Idle, Job
  <2> QED BY <1>1, <1>2, <2>1, ApplySays, ApplyHands DEF flags
<1>4. CASE RollBack
  <2>1. Open /\ RestoreInput /\ UNCHANGED flags /\ CallOf("window") /\ win'.at = "discard"
    BY <1>1, <1>4 DEF RollBack, Open, CallOf, Jobs
  <2> QED BY <1>2, <2>1, RestoreSays DEF flags
<1>5. CASE CommandsPrepared
  <2>1. Open
    BY <1>5 DEF CommandsPrepared, Open
  <2>2. PICK runtime \in Runtimes : runtime = answers["window"].runtime /\ runtime.token \in Tokens
    BY <1>1, JobTypes
  <2>3. CASE ApplySnapshot("commands", runtime)
    BY <1>1, <1>2, <2>1, <2>3, ApplySays, ApplyHands DEF flags
  <2>4. CASE win' = Idle /\ GoOn("window")
             /\ UNCHANGED <<inbox, inputVars, scriptVisible, usesLua, switchVisible, switchConfigured, heard>>
    BY <1>2, <2>1, <2>4 DEF InputSays, inputVars, CallOf, Idle, Job
  <2>5. CASE Discard("window", runtime.token) /\ win' = Job("discard", "commands", runtime)
             /\ UNCHANGED <<inbox, inputVars, flags>>
    BY <1>2, <2>1, <2>2, <2>5 DEF InputSays, inputVars, flags, CallOf, Job
  <2> QED BY <1>5, <2>2, <2>3, <2>4, <2>5 DEF CommandsPrepared
<1> QED BY <1>3, <1>4, <1>5 DEF CallsInput

LEMMA SwitchesKept == TypesOK /\ Switches /\ [WindowNext]_hostVars => Switches'
<1> SUFFICES ASSUME TypesOK, Switches, [WindowNext]_hostVars PROVE Switches'
  OBVIOUS
<1>1. inbox \in Seq(Letters) /\ win \in Jobs
  BY DEF TypesOK, ThreadTypes
<1>2. ASSUME UNCHANGED <<inbox, inputVars, switchVisible, switchConfigured>>, Open' => Open
      PROVE  Switches'
  BY <1>2 DEF Switches, SwitchesHeard, inputVars
<1>3. ASSUME Open, NEW m \in InputLetters, inbox' = Append(inbox, m),
             inputConfig' = NoConfig \/ m \in Reporting(inputVisible')
      PROVE  Switches'
  <2>1. m \in Letters /\ m \in InputLetters
    BY DEF InputLetters
  <2>2. ~Lacks(inbox', InputLetters)
    BY <1>1, <1>3, <2>1, LastAppended
  <2>3. CASE inputConfig' = NoConfig
    BY <2>3 DEF Switches, SwitchesHeard
  <2>4. CASE m \in Reporting(inputVisible')
    <3>1. PICK Q : Q = Reporting(inputVisible')
      OBVIOUS
    <3>2. LastIn(inbox', InputLetters, Q)
      BY <1>1, <1>3, <2>1, <2>4, <3>1, LastAppended
    <3> QED BY <2>2, <3>1, <3>2 DEF Switches, SwitchesHeard
  <2> QED BY <1>3, <2>3, <2>4
<1>4. ASSUME Open, InputSays, UNCHANGED <<switchVisible, switchConfigured>> PROVE Switches'
  <2>1. CASE inbox' = inbox /\ (inputConfig' = NoConfig \/ UNCHANGED <<inputConfig, inputVisible>>)
    BY <1>4, <2>1 DEF Switches, SwitchesHeard
  <2> QED BY <1>3, <1>4, <2>1 DEF InputSays
<1>5. CASE CallsInput
  BY <1>4, <1>5, CallsInputSays
<1>6. CASE Rebuild \/ CommitDone \/ CommitFailed \/ DiscardDone \/ PublishSnapshot \/ Redraw \/ Close
  <2>1. UNCHANGED <<inbox, inputVars, switchVisible, switchConfigured>>
    BY <1>6 DEF Rebuild, CommitDone, CommitFailed, DiscardDone, PublishSnapshot, Redraw, Close, flags
  <2>2. Open
    BY <1>6 DEF Rebuild, CommitDone, CommitFailed, DiscardDone, PublishSnapshot, Redraw, Close, Open, Idle, Job
  <2> QED BY <1>2, <2>1, <2>2
<1>7. CASE JoinIpcAndInput \/ JoinScripts \/ DieOfDangling
  <2>1. win'.at \in {"joining", "ended", "died"}
    BY <1>1, <1>7 DEF JoinIpcAndInput, JoinScripts, DieOfDangling, Idle, Job, Jobs
  <2> QED BY <2>1 DEF Switches, Open
<1>8. CASE IpcThread \/ ReceiveSnapshot \/ ScriptTask \/ ScriptKey \/ UNCHANGED hostVars
  <2>1. /\ UNCHANGED <<inbox, inputVars, switchVisible, switchConfigured>> /\ win'.at = win.at
    BY <1>1, <1>8 DEF IpcThread, SendSnapshot, WindowAnswered, TimeOut, SnapshotRefused, ReceiveSnapshot,
                      ScriptTask, ScriptKey, hostVars, ipcFrame, flags, Jobs
  <2> QED BY <1>2, <2>1 DEF Open
<1>9. ASSUME NEW m \in Letters \ InputLetters, UNCHANGED <<inputVars, switchVisible, switchConfigured>>,
             Open, inbox' = Append(inbox, m)
      PROVE  Switches'
  <2>1. PICK Q : Q = Reporting(inputVisible)
    OBVIOUS
  <2>2. SwitchesHeard
    BY <1>9 DEF Switches
  <2>3. inputConfig # NoConfig => LastIn(inbox, InputLetters, Q)
    BY <2>1, <2>2 DEF SwitchesHeard
  <2>4. inputConfig # NoConfig => LastIn(inbox', InputLetters, Q)
    BY <1>1, <1>9, <2>3, LastAppended
  <2>5. Lacks(inbox', InputLetters) => Lacks(inbox, InputLetters)
    BY <1>1, <1>9, LastAppended
  <2> QED BY <1>9, <2>1, <2>2, <2>4, <2>5 DEF Switches, SwitchesHeard, inputVars
<1>10. CASE ScriptCallback
  <2>1. UNCHANGED <<win, inputVars, switchVisible, switchConfigured>>
    BY <1>10 DEF ScriptCallback, flags
  <2>2. CASE Open
    <3>1. PICK commands \in BOOLEAN : Post(Posted("update", active'.visible, commands, active.token))
      BY <1>10 DEF ScriptCallback
    <3>2. active'.visible \in BOOLEAN /\ active.token \in Tokens
      BY <1>10 DEF ScriptCallback, RunInput, TypesOK, ScriptTypes, Runtimes
    <3>3. PICK visible \in BOOLEAN : visible = active'.visible
      BY <3>2
    <3>4. PICK token \in Tokens : token = active.token
      BY <3>2
    <3>5. Post(Posted("update", visible, commands, token))
      BY <3>1, <3>3, <3>4
    <3>6. PICK m \in Letters : inbox' = Append(inbox, m) /\ m.kind = "update"
      BY <2>2, <3>5, PostEffect
    <3>7. m \notin InputLetters
      BY <3>6 DEF InputLetters
    <3> QED BY <1>9, <2>1, <2>2, <3>6, <3>7
  <2> QED BY <2>1, <2>2 DEF Switches, Open
<1>11. CASE SwitchKey
  <2>1. win' = win /\ inputVisible' = ~inputVisible /\ UNCHANGED <<switchVisible, switchConfigured>>
        /\ Post(Posted("input", inputVisible', TRUE, 0))
    BY <1>11 DEF SwitchKey, flags
  <2>2. CASE Open
    <3>1. inputVisible' \in BOOLEAN /\ 0 \in Tokens
      BY <2>1, Constants
    <3>2. PICK visible \in BOOLEAN : visible = inputVisible'
      BY <3>1
    <3>3. PICK flag \in BOOLEAN : flag = TRUE
      OBVIOUS
    <3>4. Post(Posted("input", visible, flag, 0))
      BY <2>1, <3>2, <3>3
    <3>5. PICK m \in Letters : inbox' = Append(inbox, m) /\ m.kind = "input" /\ m.visible = visible /\ m.flag = flag
      BY <2>2, <3>1, <3>4, PostEffect
    <3>6. m \in InputLetters /\ m \in Reporting(inputVisible')
      BY <3>2, <3>3, <3>5 DEF InputLetters, Reporting
    <3> QED BY <1>3, <2>2, <3>5, <3>6
  <2> QED BY <2>1, <2>2 DEF Switches, Open
<1>12. CASE HandleUpdate \/ HandleInputState
  <2>1. inbox # <<>> /\ inbox' = Tail(inbox) /\ UNCHANGED inputVars /\ Open
    BY <1>12 DEF HandleUpdate, HandleInputState, Open, Idle, Job
  <2>2. PICK Q : Q = Reporting(inputVisible)
    OBVIOUS
  <2> SUFFICES ASSUME inputConfig # NoConfig
               PROVE  /\ LastIn(inbox', InputLetters, Q)
                      /\ Lacks(inbox', InputLetters) => switchConfigured' /\ switchVisible' = inputVisible
    BY <2>1, <2>2 DEF Switches, SwitchesHeard, inputVars
  <2>3. LastIn(inbox, InputLetters, Q) /\ (Lacks(inbox, InputLetters) => switchConfigured /\ switchVisible = inputVisible)
    BY <2>1, <2>2 DEF Switches, SwitchesHeard
  <2>4. /\ LastIn(inbox', InputLetters, Q)
        /\ Lacks(inbox', InputLetters) => Lacks(inbox, InputLetters) \/ Head(inbox) \in InputLetters \cap Q
    BY <1>1, <2>1, <2>3, LastTaken
  <2>5. Head(inbox) \in Letters /\ Head(inbox) \in Range(inbox)
    BY <1>1, <2>1, TailRange
  <2>6. CASE HandleUpdate
    <3>1. Head(inbox) \notin InputLetters /\ UNCHANGED <<switchVisible, switchConfigured>>
      BY <2>6 DEF HandleUpdate, InputLetters
    <3> QED BY <2>3, <2>4, <3>1
  <2>7. CASE HandleInputState
    <3>1. /\ Head(inbox) \in InputLetters
          /\ switchVisible' = Head(inbox).visible /\ switchConfigured' = Head(inbox).flag
      BY <2>5, <2>7 DEF HandleInputState, InputLetters
    <3>2. ~Lacks(inbox, InputLetters)
      BY <2>5, <3>1 DEF Lacks, Range
    <3>3. Head(inbox) \in Q => switchConfigured' /\ switchVisible' = inputVisible
      BY <2>2, <3>1 DEF Reporting
    <3> QED BY <2>4, <3>2, <3>3
  <2> QED BY <1>12, <2>6, <2>7
<1> QED BY <1>5, <1>6, <1>7, <1>8, <1>10, <1>11, <1>12
        DEF WindowNext, WindowThread, ScriptThread, Environment, CallsInput

-----------------------------------------------------------------------------
(* The scripts.  Runtimes run in the order of their tokens, and what the     *)
(* running one decided last is what its last update says, what the window   *)
(* thread heard, or what the answer to the commit brings.                   *)

Ordered ==
  /\ active.token < nextToken /\ heard <= active.token
  /\ \A r \in prepared : active.token < r.token
  /\ \A m \in Range(inbox) : m.token <= active.token
UpdatesOf(token) == {m \in Letters : m.kind = "update" /\ m.token = token}
Saying(visible) == {m \in Letters : m.visible = visible}
ScriptsHeard ==
  /\ LastIn(inbox, UpdatesOf(active.token), Saying(active.visible))
  /\ Committed => win.runtime.token = active.token
  /\ Lacks(inbox, UpdatesOf(active.token)) =>
       /\ heard = active.token => scriptVisible = active.visible
       /\ Committed => win.runtime.visible = active.visible
Scripts == Open => Ordered /\ ScriptsHeard

(* A message of the input thread says nothing about the scripts.            *)
InboxGrows == inbox' = inbox \/ \E m \in InputLetters : inbox' = Append(inbox, m) /\ m.token = 0
LEMMA ScriptsStay ==
  ASSUME TypesOK, Scripts, Open' => Open, InboxGrows,
         UNCHANGED <<active, prepared, nextToken, heard, scriptVisible>>,
         Committed' => Committed /\ win'.runtime = win.runtime
  PROVE  Scripts'
<1> SUFFICES ASSUME Open PROVE (Ordered /\ ScriptsHeard)'
  BY DEF Scripts
<1>1. inbox \in Seq(Letters) /\ active \in Runtimes /\ Tokens \subseteq Nat
  BY Constants DEF TypesOK, ThreadTypes, ScriptTypes, Tokens
<1>2. PICK P, Q : P = UpdatesOf(active.token) /\ Q = Saying(active.visible)
  OBVIOUS
<1>3. Ordered /\ ScriptsHeard /\ LastIn(inbox, P, Q)
  BY <1>2 DEF Scripts, ScriptsHeard
<1>4. CASE inbox' = inbox
  BY <1>3, <1>4 DEF Ordered, ScriptsHeard
<1>5. ASSUME NEW m \in InputLetters, inbox' = Append(inbox, m), m.token = 0
      PROVE  (Ordered /\ ScriptsHeard)'
  <2>1. m \in Letters /\ m \notin P /\ active.token \in Nat
    BY <1>1, <1>2 DEF InputLetters, UpdatesOf, Runtimes
  <2>2. Range(inbox') = Range(inbox) \cup {m}
    BY <1>1, <1>5, <2>1, AppendRange
  <2>3. LastIn(inbox', P, Q) /\ (Lacks(inbox', P) => Lacks(inbox, P))
    BY <1>1, <1>3, <1>5, <2>1, LastAppended
  <2>4. Ordered'
    BY <1>3, <1>5, <2>1, <2>2 DEF Ordered
  <2>5. ScriptsHeard'
    BY <1>2, <1>3, <2>3 DEF ScriptsHeard
  <2> QED BY <2>4, <2>5
<1> QED BY <1>4, <1>5 DEF InboxGrows

LEMMA MessageScripts ==
  ASSUME TypesOK, Scripts, HandleUpdate \/ HandleInputState
  PROVE  Scripts'
<1>1. inbox \in Seq(Letters) /\ active \in Runtimes /\ inbox # <<>> /\ inbox' = Tail(inbox) /\ win = Idle /\ Open
  BY DEF TypesOK, ThreadTypes, ScriptTypes, HandleUpdate, HandleInputState, Open, Idle, Job
<1>2. PICK P, Q : P = UpdatesOf(active.token) /\ Q = Saying(active.visible)
  OBVIOUS
<1>3. Ordered /\ LastIn(inbox, P, Q)
      /\ (Lacks(inbox, P) => (heard = active.token => scriptVisible = active.visible))
  BY <1>1, <1>2 DEF Scripts, ScriptsHeard
<1>4. /\ LastIn(inbox', P, Q)
      /\ Lacks(inbox', P) => Lacks(inbox, P) \/ Head(inbox) \in P \cap Q
  BY <1>1, <1>3, LastTaken
<1>5. /\ Head(inbox) \in Letters /\ Head(inbox) \in Range(inbox) /\ Range(inbox') \subseteq Range(inbox)
  BY <1>1, TailRange
<1>6. UNCHANGED <<active, prepared, nextToken>> /\ ~Committed'
  <2>1. CASE HandleInputState
    BY <1>1, <2>1 DEF HandleInputState, scriptVars, Committed, Idle, Job
  <2>2. CASE HandleUpdate
    <3>1. CASE win' = Idle /\ UNCHANGED scriptVars
      BY <3>1 DEF scriptVars, Committed, Idle, Job
    <3>2. CASE \E config \in Configs :
                 Prepare("window", config) /\ win' = Job("prepare", "commands", [NoRuntime EXCEPT !.config = config])
      BY <3>2 DEF Prepare, Call, Committed, Job
    <3> QED BY <2>2, <3>1, <3>2 DEF HandleUpdate
  <2> QED BY <2>1, <2>2
<1>7. CASE HandleInputState
  <2>1. Head(inbox) \notin P /\ UNCHANGED <<heard, scriptVisible>>
    BY <1>2, <1>7 DEF HandleInputState, UpdatesOf
  <2>2. Ordered'
    BY <1>3, <1>5, <1>6, <2>1 DEF Ordered
  <2>3. ScriptsHeard'
    BY <1>2, <1>3, <1>4, <1>6, <2>1 DEF ScriptsHeard
  <2> QED BY <2>2, <2>3 DEF Scripts
<1>8. CASE HandleUpdate
  <2>1. scriptVisible' = Head(inbox).visible /\ heard' = Head(inbox).token /\ Head(inbox).kind = "update"
    BY <1>8 DEF HandleUpdate
  <2>2. Ordered'
    BY <1>3, <1>5, <1>6, <2>1 DEF Ordered
  <2>3. Lacks(inbox', P) /\ heard' = active.token => scriptVisible' = active.visible
    <3> SUFFICES ASSUME Lacks(inbox', P), heard' = active.token PROVE scriptVisible' = active.visible
      OBVIOUS
    <3>1. Head(inbox) \in P
      BY <1>2, <1>5, <2>1 DEF UpdatesOf
    <3>2. ~Lacks(inbox, P)
      BY <1>5, <3>1 DEF Lacks, Range
    <3> QED BY <1>2, <1>4, <2>1, <3>2 DEF Saying
  <2>4. ScriptsHeard'
    BY <1>2, <1>4, <1>6, <2>3 DEF ScriptsHeard
  <2> QED BY <2>2, <2>4 DEF Scripts
<1> QED BY <1>7, <1>8

(* The script thread.  A candidate it commits is younger than all that ran.  *)
LEMMA ThreadScripts ==
  ASSUME TypesOK, CallsInv, Names, Scripts, ScriptThread
  PROVE  Scripts'
<1>1. /\ UNCHANGED <<win, heard, scriptVisible>> /\ answers \in [Callers -> Replies] /\ "window" \in Callers
      /\ active \in Runtimes /\ inbox \in Seq(Letters) /\ nextToken \in Nat \ {0} /\ Tokens \subseteq Nat
      /\ prepared \subseteq Runtimes
  BY Constants DEF ScriptThread, ScriptTask, ScriptCallback, TypesOK, ScriptTypes, ThreadTypes, flags, Callers, Tokens
<1>2. tasks # <<>> /\ \A who \in Callers : Head(tasks).who # who => answers'[who] = answers[who]
  BY TaskEffect DEF TypesOK, ScriptThread
<1>3. win.at # "commit" \/ Head(tasks).who # "window" => Committed' = Committed
  BY <1>1, <1>2 DEF Committed, Succeeded, Callers
<1>4. Head(tasks).op # "commit" => Committed' = Committed
  BY <1>2, <1>3, TaskTaken
<1> SUFFICES ASSUME Open PROVE (Ordered /\ ScriptsHeard)'
  BY <1>1 DEF Scripts, Open
<1>5. Ordered /\ ScriptsHeard
  BY DEF Scripts
<1>6. active.token \in Nat /\ heard \in Nat /\ (\A r \in prepared : r.token \in Nat)
      /\ (\A m \in Range(inbox) : m.token \in Nat)
  <2>1. Range(inbox) \subseteq Letters
    BY <1>1, RangeTyped
  <2>2. \A m \in Letters : m.token \in Nat
    BY <1>1 DEF Letters
  <2>3. heard \in Nat
    BY <1>1 DEF TypesOK, FlagTypes
  <2> QED BY <1>1, <2>1, <2>2, <2>3 DEF Runtimes
<1>7. ASSUME UNCHANGED <<inbox, active>>, Ordered', Committed' = Committed
      PROVE  (Ordered /\ ScriptsHeard)'
  BY <1>1, <1>5, <1>7 DEF ScriptsHeard
<1>8. CASE ScriptTask /\ RunPrepare
  <2>1. /\ Head(tasks).op # "commit" /\ UNCHANGED <<inbox, active>> /\ nextToken' = nextToken + 1
        /\ \A r \in prepared' : r \in prepared \/ r.token = nextToken
    BY <1>8 DEF ScriptTask, RunPrepare, TakeTask
  <2>2. Ordered'
    BY <1>1, <1>5, <1>6, <2>1 DEF Ordered
  <2> QED BY <1>4, <1>7, <2>1, <2>2
<1>9. CASE ScriptTask /\ (RunDiscard \/ IgnoreInput)
  <2>1. /\ Head(tasks).op # "commit" /\ UNCHANGED <<inbox, active, nextToken>> /\ prepared' \subseteq prepared
    BY <1>9 DEF ScriptTask, RunDiscard, IgnoreInput, TakeTask, AfterDiscard
  <2>2. Ordered'
    BY <1>1, <1>5, <2>1 DEF Ordered
  <2> QED BY <1>4, <1>7, <2>1, <2>2
<1>10. CASE ScriptTask /\ RunCommit
  <2>1. /\ Head(tasks).op = "commit" /\ Head(tasks).who = "window" /\ win.at = "commit"
        /\ Head(tasks).token = win.runtime.token /\ ~Answered("window")
        /\ UNCHANGED <<inbox, nextToken>>
    BY <1>2, <1>10, TaskTaken DEF ScriptTask, RunCommit, TakeTask
  <2>2. ~Committed
    BY <2>1 DEF Committed, Succeeded, Answered
  <2>3. ASSUME NEW candidate \in prepared, candidate.token = Head(tasks).token,
               active' = candidate, prepared' = {}
        PROVE  (Ordered /\ ScriptsHeard)'
    <3>1. candidate = win.runtime /\ candidate.token < nextToken /\ active.token < candidate.token
          /\ candidate.token \in Nat
      BY <1>5, <1>6, <2>1, <2>3 DEF Names, Named, Ordered
    <3>2. heard < candidate.token /\ \A m \in Range(inbox) : m.token < candidate.token
      BY <1>5, <1>6, <3>1 DEF Ordered
    <3>3. \A m \in Range(inbox) : m.token # candidate.token
      BY <1>6, <3>1, <3>2
    <3>4. Lacks(inbox, UpdatesOf(candidate.token))
      BY <3>3 DEF Lacks, UpdatesOf, Range
    <3>5. Ordered'
      BY <1>1, <1>6, <2>1, <2>3, <3>1, <3>2 DEF Ordered
    <3>6. LastIn(inbox, UpdatesOf(candidate.token), Saying(candidate.visible))
      BY <3>4, NoneLast
    <3>7. heard # candidate.token
      BY <1>6, <3>1, <3>2
    <3> QED BY <1>1, <2>1, <2>3, <3>1, <3>5, <3>6, <3>7 DEF ScriptsHeard
  <2>4. ASSUME UNCHANGED <<active, prepared>>, Reply("failed", NoRuntime)
        PROVE  (Ordered /\ ScriptsHeard)'
    <3>1. ~Committed'
      BY <1>1, <2>1, <2>4 DEF Committed, Succeeded, Reply, Answer
    <3>2. Ordered'
      BY <1>1, <1>5, <2>1, <2>4 DEF Ordered
    <3> QED BY <1>7, <2>1, <2>2, <2>4, <3>1, <3>2 DEF Committed
  <2> QED BY <1>10, <2>3, <2>4 DEF RunCommit, NoCandidate
<1>11. CASE ScriptCallback
  <2>1. PICK visible \in BOOLEAN : RunInput(visible)
    BY <1>11 DEF ScriptCallback
  <2>2. /\ Head(tasks).op = "input" /\ UNCHANGED <<prepared, nextToken>>
        /\ active' = [active EXCEPT !.visible = visible]
    BY <2>1 DEF RunInput, TakeTask
  <2>3. active'.token = active.token /\ active'.visible = visible
    BY <1>1, <2>2 DEF Runtimes
  <2>4. PICK commands \in BOOLEAN : Post(Posted("update", active'.visible, commands, active.token))
    BY <1>11 DEF ScriptCallback
  <2>5. PICK token \in Tokens : token = active.token
    BY <1>1 DEF Runtimes
  <2>6. Post(Posted("update", visible, commands, token))
    BY <2>3, <2>4, <2>5
  <2>7. PICK m \in Letters : inbox' = Append(inbox, m) /\ m.kind = "update" /\ m.visible = visible /\ m.token = token
    BY <2>6, PostEffect
  <2>8. m \in UpdatesOf(token) /\ m \in Saying(visible)
    BY <2>7 DEF UpdatesOf, Saying
  <2>9. ~Lacks(inbox', UpdatesOf(token)) /\ LastIn(inbox', UpdatesOf(token), Saying(visible))
    BY <1>1, <2>7, <2>8, LastAppended
  <2>10. Range(inbox') = Range(inbox) \cup {m}
    BY <1>1, <2>7, AppendRange
  <2>11. Ordered'
    BY <1>1, <1>5, <1>6, <2>2, <2>3, <2>5, <2>7, <2>10 DEF Ordered
  <2>12. Committed' = Committed
    BY <1>4, <2>2
  <2> QED BY <1>1, <1>5, <2>3, <2>5, <2>9, <2>11, <2>12 DEF ScriptsHeard
<1> QED BY <1>8, <1>9, <1>10, <1>11 DEF ScriptThread, ScriptTask

LEMMA ScriptsKept == TypesOK /\ CallsInv /\ Names /\ Scripts /\ [WindowNext]_hostVars => Scripts'
<1> SUFFICES ASSUME TypesOK, CallsInv, Names, Scripts, [WindowNext]_hostVars PROVE Scripts'
  OBVIOUS
<1>1. /\ ScriptTypes /\ win \in Jobs /\ "window" \in Callers /\ "ipc" \in Callers
      /\ ipc.runtime.token \in Tokens /\ answers["ipc"].runtime.token \in Tokens
      /\ answers \in [Callers -> Replies] /\ Tokens \subseteq Nat
  BY Held, JobTypes, Constants DEF TypesOK, ThreadTypes, ScriptTypes, Callers, Tokens
<1>2. ASSUME NEW who \in Callers, CallOf(who) PROVE UNCHANGED <<active, prepared, nextToken>>
  BY <1>2 DEF CallOf, GoOn, scriptVars, Discard, Commit, Prepare, Call
<1>3. CASE CallsInput
  <2>1. InboxGrows
    BY <1>3, CallsInputSays DEF InputSays, InboxGrows
  <2>2. ~Committed'
    BY <1>3, CallsInputSays DEF Committed
  <2> QED BY <1>3, <2>1, <2>2, CallsInputSays, ScriptsStay
<1>4. CASE Rebuild
  <2>1. UNCHANGED <<inbox, heard, scriptVisible>> /\ Open
    BY <1>4 DEF Rebuild, Open
  <2>2. UNCHANGED <<active, prepared, nextToken>> /\ ~Committed'
    <3>1. CASE UNCHANGED scriptVars /\ win' = [win EXCEPT !.at = "rollback"]
      BY <1>1, <3>1 DEF scriptVars, Committed, Jobs
    <3>2. CASE Commit("window", win.runtime.token)
      <4>1. PICK task : task = Task("commit", "window", NoConfig, win.runtime.token)
        OBVIOUS
      <4>2. task.who = "window" /\ Call(task)
        BY <3>2, <4>1 DEF Commit, Task
      <4>3. answers'["window"].state = "none" /\ UNCHANGED <<active, prepared, nextToken>>
        BY <1>1, <4>2 DEF Call, Taken, NoAnswer, Answer
      <4> QED BY <4>3 DEF Committed, Succeeded
    <3> QED BY <1>4, <3>1, <3>2 DEF Rebuild
  <2> QED BY <2>1, <2>2, ScriptsStay DEF InboxGrows
<1>5. CASE CommitDone
  <2>1. /\ Committed /\ Open /\ UNCHANGED <<inbox, active, prepared, nextToken>>
        /\ scriptVisible' = win.runtime.visible /\ heard' = win.runtime.token
    BY <1>5 DEF CommitDone, Committed, Open, GoOn
  <2>2. ~Committed'
    BY <1>1, <1>5 DEF CommitDone, Committed, Idle, Job, Jobs
  <2>3. Ordered /\ ScriptsHeard /\ active.token \in Nat
    BY <1>1, <2>1 DEF Scripts, ScriptTypes, Runtimes
  <2>4. Ordered'
    BY <2>1, <2>3 DEF Ordered, ScriptsHeard
  <2>5. ScriptsHeard'
    BY <2>1, <2>2, <2>3 DEF ScriptsHeard
  <2> QED BY <2>4, <2>5 DEF Scripts
<1>6. CASE CommitFailed \/ DiscardDone \/ PublishSnapshot \/ Redraw \/ Close
  <2>1. UNCHANGED <<inbox, heard, scriptVisible>> /\ CallOf("window")
    BY <1>6 DEF CommitFailed, DiscardDone, PublishSnapshot, Redraw, Close, flags, CallOf
  <2>2. Open
    BY <1>6 DEF CommitFailed, DiscardDone, PublishSnapshot, Redraw, Close, Open, Idle, Job
  <2>3. ~Committed'
    BY <1>1, <1>6 DEF CommitFailed, DiscardDone, PublishSnapshot, Redraw, Close, Committed, Idle, Job, Jobs
  <2> QED BY <1>1, <1>2, <2>1, <2>2, <2>3, ScriptsStay DEF InboxGrows
<1>7. CASE JoinIpcAndInput \/ JoinScripts \/ DieOfDangling
  <2>1. win'.at \in {"joining", "ended", "died"}
    BY <1>1, <1>7 DEF JoinIpcAndInput, JoinScripts, DieOfDangling, Idle, Job, Jobs
  <2> QED BY <2>1 DEF Scripts, Open
<1>8. CASE IpcThread \/ ReceiveSnapshot
  <2>1. UNCHANGED <<inbox, heard, scriptVisible>> /\ win'.at = win.at /\ win'.runtime = win.runtime
    BY <1>1, <1>8 DEF IpcThread, SendSnapshot, WindowAnswered, TimeOut, SnapshotRefused, ReceiveSnapshot,
                      ipcFrame, flags, Jobs
  <2>2. CallOf("ipc")
    BY <1>1, <1>8 DEF IpcThread, SendSnapshot, WindowAnswered, TimeOut, SnapshotRefused, ReceiveSnapshot,
                      GiveUp, CallOf
  <2>3. answers'["window"] = answers["window"]
    BY <1>1, <2>2, CallsKeepClaims
  <2> QED BY <1>1, <1>2, <2>1, <2>2, <2>3, ScriptsStay DEF InboxGrows, Open, Committed, Succeeded
<1>9. CASE ScriptKey \/ UNCHANGED hostVars
  <2>1. UNCHANGED <<inbox, heard, scriptVisible, win, active, prepared, nextToken, answers>>
    BY <1>9 DEF ScriptKey, DispatchInput, Call, Task, Callers, flags, hostVars, scriptVars
  <2> QED BY <2>1, ScriptsStay DEF InboxGrows, Open, Committed, Succeeded
<1>10. CASE SwitchKey
  <2>1. UNCHANGED <<heard, scriptVisible, win, active, prepared, nextToken, answers>>
        /\ inputVisible' = ~inputVisible /\ Post(Posted("input", inputVisible', TRUE, 0))
    BY <1>10 DEF SwitchKey, flags, scriptVars
  <2>2. InboxGrows
    <3>1. PICK visible \in BOOLEAN : visible = inputVisible'
      BY <2>1
    <3>2. PICK flag \in BOOLEAN : flag = TRUE
      OBVIOUS
    <3>3. Post(Posted("input", visible, flag, 0)) /\ 0 \in Tokens
      BY <2>1, <3>1, <3>2, Constants
    <3>4. inbox' = inbox \/ \E m \in Letters : inbox' = Append(inbox, m) /\ m.kind = "input" /\ m.token = 0
      BY <3>3, PostEffect
    <3> QED BY <3>4 DEF InboxGrows, InputLetters
  <2> QED BY <2>1, <2>2, ScriptsStay DEF Open, Committed, Succeeded
<1>11. CASE HandleUpdate \/ HandleInputState
  BY <1>11, MessageScripts
<1>12. CASE ScriptThread
  BY <1>12, ThreadScripts
<1> QED BY <1>3, <1>4, <1>5, <1>6, <1>7, <1>8, <1>9, <1>10, <1>11, <1>12
        DEF WindowNext, WindowThread, Environment, CallsInput

-----------------------------------------------------------------------------
(* The overlays.  Between messages they are shown as the flags say, unless    *)
(* they are gone and are still to be drawn or a message of the input thread, *)
(* which comes with every configuration it takes, is still to be handled.   *)

Awaited == ~Lacks(inbox, InputLetters)
AsFlagged == shown = Visibility(scriptVisible, usesLua, switchConfigured, switchVisible)
Undrawn == drawn = NoConfig /\ (render # NoConfig \/ Awaited \/ inputConfig = NoConfig)
Kinds ==
  /\ ipc.outcome = "taken" => win.kind = "request"
  /\ win.at \in {"prepare", "publish"} => win.kind = "commands"
  /\ win.at = "idle" => win.kind = "none"
ShownSound ==
  /\ usesLua = UsesLua(current)
  /\ win.at \in {"rebuild", "commit", "rollback"} => Awaited
  /\ win.kind = "commands" \/ AsFlagged \/ Undrawn
ShownInv == Open => Kinds /\ ShownSound

LEMMA KindsKept ==
  TypesOK /\ (Open => Kinds) /\ [WindowNext]_hostVars => (Open => Kinds)'
<1> SUFFICES ASSUME TypesOK, Open => Kinds, [WindowNext]_hostVars, Open' PROVE Kinds'
  OBVIOUS
<1>1. win \in Jobs /\ ipc \in Requests
  BY DEF TypesOK, ThreadTypes
<1>2. CASE IpcThread \/ ReceiveSnapshot
  <2>1. /\ win'.at = win.at
        /\ \/ win'.kind = win.kind /\ ipc'.outcome # "taken"
           \/ ipc.outcome = "taken" /\ ipc'.outcome = "none"
    BY <1>1, <1>2 DEF IpcThread, SendSnapshot, WindowAnswered, TimeOut, SnapshotRefused, ReceiveSnapshot,
                      ipcFrame, GiveUp, NoRequest, Request, Jobs, Expires
  <2>2. Kinds
    BY <2>1 DEF Open
  <2> QED BY <2>1, <2>2 DEF Kinds
<1>3. CASE HandleSnapshot
  <2>1. PICK runtime \in Runtimes : runtime = ipc.runtime
    BY Held
  <2>2. ApplySnapshot("request", runtime)
    BY <1>3, <2>1 DEF HandleSnapshot
  <2> QED BY <2>2, ApplyHands DEF Kinds
<1>4. CASE CommandsPrepared
  <2>1. win.at = "prepare" /\ ipc' = ipc
    BY <1>4 DEF CommandsPrepared
  <2>2. PICK runtime \in Runtimes : runtime = answers["window"].runtime
    BY Held
  <2>3. ApplySnapshot("commands", runtime) \/ win' = Idle \/ win' = Job("discard", "commands", runtime)
    BY <1>4, <2>2 DEF CommandsPrepared
  <2>4. \/ win'.kind = "commands" /\ win'.at \in {"discard", "rebuild"}
        \/ win' = Idle
    BY <2>3, ApplyHands DEF Job
  <2>5. ipc.outcome # "taken"
    BY <2>1 DEF Open, Kinds
  <2> QED BY <2>1, <2>4, <2>5 DEF Kinds, Idle, Job
<1>5. CASE Rebuild \/ CommitFailed \/ RollBack
  <2>1. /\ ipc' = ipc /\ win'.kind = win.kind /\ win'.at \in {"commit", "rollback", "discard"} /\ Open
    BY <1>1, <1>5 DEF Rebuild, CommitFailed, RollBack, Open, Jobs
  <2> QED BY <2>1 DEF Kinds
<1>6. CASE CommitDone \/ DiscardDone
  <2>1. /\ Open /\ (Reported("applied") \/ Reported("failed"))
        /\ win' = Idle \/ (win'.at = "publish" /\ win'.kind = "commands")
    BY <1>1, <1>6 DEF CommitDone, DiscardDone, Open, Jobs
  <2>2. Open
    BY <1>6 DEF CommitDone, DiscardDone, Open
  <2>3. ipc'.outcome # "taken"
    BY <1>1, <2>1, <2>2 DEF Reported, Kinds, Requests
  <2> QED BY <2>1, <2>3 DEF Kinds, Idle, Job
<1>7. CASE PublishSnapshot
  <2>1. win.at = "publish" /\ ipc' = ipc /\ win' = Idle
    BY <1>7 DEF PublishSnapshot
  <2> QED BY <2>1 DEF Open, Kinds, Idle, Job
<1>8. CASE HandleUpdate
  <2>1. win = Idle /\ ipc' = ipc
    BY <1>8 DEF HandleUpdate
  <2>2. win' = Idle \/ \E config \in Configs : win' = Job("prepare", "commands", [NoRuntime EXCEPT !.config = config])
    BY <1>8 DEF HandleUpdate
  <2>3. win' = Idle \/ (win'.at = "prepare" /\ win'.kind = "commands")
    BY <2>2 DEF Job
  <2> QED BY <2>1, <2>3 DEF Open, Kinds, Idle, Job
<1>9. CASE HandleInputState \/ Redraw \/ ScriptThread \/ ScriptKey \/ SwitchKey \/ UNCHANGED hostVars
  <2>1. UNCHANGED <<win, ipc>>
    BY <1>9 DEF HandleInputState, Redraw, ScriptThread, ScriptTask, ScriptCallback, ScriptKey, SwitchKey, hostVars
  <2> QED BY <2>1 DEF Open, Kinds
<1>10. CASE Close \/ JoinIpcAndInput \/ JoinScripts \/ DieOfDangling
  <2>1. win'.at \in {"closing", "joining", "ended", "died"}
    BY <1>1, <1>10 DEF Close, JoinIpcAndInput, JoinScripts, DieOfDangling, Idle, Job, Jobs
  <2> QED BY <2>1 DEF Open
<1> QED BY <1>2, <1>3, <1>4, <1>5, <1>6, <1>7, <1>8, <1>9, <1>10 DEF WindowNext, WindowThread, Environment

Grows == inbox' = inbox \/ \E m \in Letters : inbox' = Append(inbox, m)
LEMMA StillAwaited == ASSUME TypesOK, Grows, Awaited PROVE Awaited'
<1>1. inbox \in Seq(Letters)
  BY DEF TypesOK, ThreadTypes
<1> QED BY <1>1, LastAppended DEF Grows, Awaited

(* A step that shows, draws and is told nothing.                            *)
LEMMA StillShown ==
  ASSUME TypesOK, Open, Kinds, ShownSound, Grows, UNCHANGED <<flags, current, drawn, render, inputConfig>>,
         win'.at \in {"rebuild", "commit", "rollback"} => win.at \in {"rebuild", "commit", "rollback"},
         win'.kind # "commands" => win.kind # "commands"
  PROVE  ShownSound'
<1>1. Awaited => Awaited'
  BY StillAwaited
<1>2. usesLua' = UsesLua(current')
  BY DEF ShownSound, flags
<1>3. AsFlagged => AsFlagged'
  BY DEF AsFlagged, flags
<1>4. Undrawn => Undrawn'
  BY <1>1 DEF Undrawn
<1> QED BY <1>1, <1>2, <1>3, <1>4 DEF ShownSound, UsesLua

LEMMA CallsInputShown ==
  ASSUME TypesOK, Open, Kinds, ShownSound, CallsInput
  PROVE  ShownSound'
<1>1. InputSays /\ win \in Jobs
  BY CallsInputSays DEF TypesOK, ThreadTypes
<1>2. Grows
  BY <1>1 DEF InputSays, Grows, InputLetters
<1>3. Awaited => Awaited'
  BY <1>2, StillAwaited
<1>4. Undrawn /\ drawn' = drawn /\ render' = render => Undrawn'
  <2> SUFFICES ASSUME Undrawn, drawn' = drawn, render' = render, ~Awaited', inputConfig = NoConfig
               PROVE  inputConfig' = NoConfig
    BY <1>3 DEF Undrawn
  <2>1. ASSUME NEW m \in InputLetters, inbox' = Append(inbox, m) PROVE Awaited'
    BY <2>1, LastAppended DEF TypesOK, ThreadTypes, Awaited, InputLetters
  <2> QED BY <1>1, <2>1 DEF InputSays
<1>5. UNCHANGED flags /\ AsFlagged => AsFlagged'
  BY DEF AsFlagged, flags
<1>6. UNCHANGED <<flags, current>> => usesLua' = UsesLua(current)'
  BY DEF ShownSound, flags, UsesLua
<1>7. ASSUME NEW kind \in {"request", "commands"}, NEW runtime \in Runtimes, ApplySnapshot(kind, runtime),
             kind = "commands" \/ win.kind # "commands"
      PROVE  ShownSound'
  <2>1. /\ UNCHANGED <<flags, current, drawn>>
        /\ \/ win'.at = "discard" /\ render' = render
           \/ win'.at = "rebuild" /\ Awaited'
    BY <1>7, ApplySays DEF Awaited
  <2>2. win'.kind = kind
    BY <1>7, ApplyHands
  <2>3. Undrawn => Undrawn'
    BY <1>4, <2>1 DEF Undrawn
  <2> QED BY <1>5, <1>6, <1>7, <2>1, <2>2, <2>3 DEF ShownSound
<1>8. CASE HandleSnapshot
  <2>1. ApplySnapshot("request", ipc.runtime) /\ win.kind # "commands"
    BY <1>8 DEF HandleSnapshot, Idle, Job
  <2> QED BY <1>7, <2>1, Held
<1>9. CASE RollBack
  <2>1. win.at = "rollback" /\ UNCHANGED <<flags, current, drawn>> /\ win'.at = "discard" /\ win'.kind = win.kind
    BY <1>1, <1>9 DEF RollBack, Jobs
  <2>2. Awaited /\ Awaited'
    BY <1>3, <2>1 DEF ShownSound
  <2>3. Undrawn => Undrawn'
    BY <2>1, <2>2 DEF Undrawn
  <2> QED BY <1>5, <1>6, <2>1, <2>3 DEF ShownSound
<1>10. CASE CommandsPrepared
  <2>1. PICK runtime \in Runtimes : runtime = answers["window"].runtime
    BY Held
  <2>2. CASE ApplySnapshot("commands", runtime)
    BY <1>7, <2>2
  <2>3. CASE win' = Idle /\ UpdateVisibility /\ usesLua' = usesLua /\ UNCHANGED configVars
    BY <2>3 DEF ShownSound, UpdateVisibility, AsFlagged, configVars, UsesLua, Idle, Job
  <2>4. CASE win' = Job("discard", "commands", runtime) /\ UNCHANGED <<flags, configVars>>
    BY <1>6, <2>4 DEF ShownSound, configVars, Job
  <2> QED BY <1>10, <2>1, <2>2, <2>3, <2>4 DEF CommandsPrepared
<1> QED BY <1>8, <1>9, <1>10 DEF CallsInput

LEMMA ShownKept == TypesOK /\ ShownInv /\ [WindowNext]_hostVars => ShownInv'
<1> SUFFICES ASSUME TypesOK, ShownInv, [WindowNext]_hostVars, Open' PROVE ShownSound'
  BY KindsKept DEF ShownInv
<1>1. /\ win \in Jobs /\ ipc \in Requests /\ inbox \in Seq(Letters) /\ shown \in BOOLEAN
      /\ active \in Runtimes /\ 0 \in Tokens
  BY Constants DEF TypesOK, ThreadTypes, FlagTypes, ScriptTypes
<1>2. Open => Kinds /\ ShownSound
  BY DEF ShownInv
<1>3. ASSUME UpdateVisibility, usesLua' = UsesLua(current)',
             win'.at \in {"rebuild", "commit", "rollback"} => Awaited'
      PROVE  ShownSound'
  BY <1>3 DEF ShownSound, AsFlagged, UpdateVisibility
<1>4. CASE CallsInput
  BY <1>2, <1>4, CallsInputSays, CallsInputShown
<1>5. CASE Rebuild
  <2>1. win.at = "rebuild" /\ UNCHANGED <<inbox, usesLua, current, render>> /\ Open
    BY <1>5 DEF Rebuild, Open
  <2>2. Awaited /\ Awaited' /\ usesLua' = UsesLua(current)'
    BY <1>2, <2>1 DEF ShownSound, Awaited, UsesLua
  <2>3. CASE UpdateVisibility
    BY <1>3, <2>2, <2>3
  <2>4. CASE /\ RebuildFails /\ win' = [win EXCEPT !.at = "rollback"] /\ shown' = (shown /\ drawn' = drawn)
             /\ UNCHANGED <<scriptVisible, usesLua, switchVisible, switchConfigured>>
    <3>1. CASE drawn' = drawn
      <4>1. shown' = shown
        BY <1>1, <2>4, <3>1
      <4>2. AsFlagged => AsFlagged'
        BY <2>4, <4>1 DEF AsFlagged
      <4>3. Undrawn => Undrawn'
        BY <2>1, <2>2, <3>1 DEF Undrawn
      <4>4. win'.kind = win.kind
        BY <1>1, <2>4 DEF Jobs
      <4> QED BY <1>2, <2>1, <2>2, <4>2, <4>3, <4>4 DEF ShownSound
    <3>2. CASE drawn' = NoConfig
      BY <2>2, <3>2 DEF ShownSound, Undrawn
    <3> QED BY <2>4, <3>1, <3>2 DEF RebuildFails
  <2> QED BY <1>5, <2>3, <2>4 DEF Rebuild
<1>6. CASE CommitDone
  <2>1. UpdateVisibility /\ usesLua' = UsesLua(current)'
    BY <1>6 DEF CommitDone, UsesLua
  <2>2. win'.at \in {"idle", "publish"}
    BY <1>1, <1>6 DEF CommitDone, Idle, Job, Jobs
  <2> QED BY <1>3, <2>1, <2>2
<1>7. CASE PublishSnapshot \/ HandleInputState \/ Redraw
  <2>1. UpdateVisibility /\ UNCHANGED <<usesLua, current>> /\ Open
    BY <1>7 DEF PublishSnapshot, HandleInputState, Redraw, configVars, Open, Idle, Job
  <2>2. win'.at = "idle"
    BY <1>7 DEF PublishSnapshot, HandleInputState, Redraw, Idle, Job
  <2>3. usesLua' = UsesLua(current)'
    BY <1>2, <2>1 DEF ShownSound, UsesLua
  <2> QED BY <1>3, <2>1, <2>2, <2>3
<1>8. CASE HandleUpdate
  <2>1. UNCHANGED <<usesLua, current>> /\ Open
    BY <1>8 DEF HandleUpdate, configVars, Open, Idle, Job
  <2>2. usesLua' = UsesLua(current)'
    BY <1>2, <2>1 DEF ShownSound, UsesLua
  <2>3. CASE UpdateVisibility /\ win' = Idle
    BY <1>3, <2>2, <2>3 DEF Idle, Job
  <2>4. CASE \E config \in Configs : win' = Job("prepare", "commands", [NoRuntime EXCEPT !.config = config])
    BY <2>2, <2>4 DEF ShownSound, Job
  <2> QED BY <1>8, <2>3, <2>4 DEF HandleUpdate
<1>9. CASE DiscardDone
  <2>1. /\ win.at = "discard" /\ win' = Idle /\ UNCHANGED <<scriptVisible, usesLua, switchVisible, switchConfigured>>
        /\ UNCHANGED <<inbox, configVars, inputVars>> /\ Open
    BY <1>9 DEF DiscardDone, Open
  <2>2. usesLua' = UsesLua(current)' /\ win'.at = "idle" /\ win'.kind = "none"
    BY <1>2, <2>1 DEF ShownSound, UsesLua, configVars, Idle, Job
  <2>3. CASE win.kind = "commands"
    <3>1. UpdateVisibility
      BY <1>9, <2>3 DEF DiscardDone
    <3> QED BY <1>3, <2>2, <3>1
  <2>4. CASE win.kind # "commands"
    <3>1. shown' = shown
      BY <1>9, <2>4 DEF DiscardDone
    <3>2. AsFlagged => AsFlagged'
      BY <2>1, <3>1 DEF AsFlagged
    <3>3. Undrawn => Undrawn'
      BY <2>1 DEF Undrawn, Awaited, configVars, inputVars
    <3> QED BY <1>2, <2>1, <2>2, <2>4, <3>2, <3>3 DEF ShownSound
  <2> QED BY <2>3, <2>4
<1>10. CASE CommitFailed
  <2>1. UNCHANGED <<inbox, configVars, flags, inputVars>> /\ Open /\ win.at = "commit"
    BY <1>10 DEF CommitFailed, Open
  <2>2. win'.kind = win.kind
    BY <1>1, <1>10 DEF CommitFailed, Jobs
  <2> QED BY <1>2, <2>1, <2>2, StillShown DEF configVars, inputVars, Grows
<1>11. CASE IpcThread \/ ReceiveSnapshot
  <2>1. UNCHANGED <<inbox, configVars, flags, inputVars>> /\ win'.at = win.at
    BY <1>1, <1>11 DEF IpcThread, SendSnapshot, WindowAnswered, TimeOut, SnapshotRefused, ReceiveSnapshot,
                       ipcFrame, Jobs
  <2>2. win'.kind = win.kind \/ ipc.outcome = "taken"
    BY <1>1, <1>11 DEF IpcThread, SendSnapshot, WindowAnswered, TimeOut, SnapshotRefused, ReceiveSnapshot, ipcFrame
  <2>3. Open /\ win'.kind # "commands" => win.kind # "commands"
    BY <1>2, <2>2 DEF Kinds
  <2> QED BY <1>2, <2>1, <2>3, StillShown DEF configVars, inputVars, Grows, Open
<1>12. CASE ScriptThread \/ ScriptKey \/ SwitchKey \/ UNCHANGED hostVars
  <2>1. UNCHANGED <<win, configVars, flags, inputConfig>>
    BY <1>12 DEF ScriptThread, ScriptTask, ScriptCallback, ScriptKey, SwitchKey, hostVars, inputVars
  <2>2. Open
    BY <2>1 DEF Open
  <2>3. ASSUME NEW kind \in {"update", "input"}, NEW visible \in BOOLEAN, NEW flag \in BOOLEAN,
               NEW token \in Tokens, Post(Posted(kind, visible, flag, token))
        PROVE  Grows
    BY <2>3, PostEffect DEF Grows
  <2>4. Grows
    <3>1. CASE ScriptCallback
      <4>1. active'.visible \in BOOLEAN /\ active.token \in Tokens
        BY <1>1, <3>1 DEF ScriptCallback, RunInput, Runtimes
      <4>2. PICK visible \in BOOLEAN : visible = active'.visible
        BY <4>1
      <4>3. PICK token \in Tokens : token = active.token
        BY <4>1
      <4>4. PICK commands \in BOOLEAN : Post(Posted("update", visible, commands, token))
        BY <3>1, <4>2, <4>3 DEF ScriptCallback
      <4> QED BY <2>3, <4>4
    <3>2. CASE SwitchKey
      <4>1. inputVisible' \in BOOLEAN
        BY <3>2 DEF SwitchKey
      <4>2. PICK visible \in BOOLEAN : visible = inputVisible'
        BY <4>1
      <4>3. PICK flag \in BOOLEAN : flag = TRUE
        OBVIOUS
      <4>4. Post(Posted("input", visible, flag, 0))
        BY <3>2, <4>2, <4>3 DEF SwitchKey
      <4> QED BY <1>1, <2>3, <4>4
    <3>3. CASE ScriptTask \/ ScriptKey \/ UNCHANGED hostVars
      BY <3>3 DEF ScriptTask, ScriptKey, hostVars, Grows
    <3> QED BY <1>12, <3>1, <3>2, <3>3 DEF ScriptThread
  <2> QED BY <1>2, <2>1, <2>2, <2>4, StillShown DEF configVars
<1>13. CASE Close \/ JoinIpcAndInput \/ JoinScripts \/ DieOfDangling
  <2>1. win'.at \in {"closing", "joining", "ended", "died"}
    BY <1>1, <1>13 DEF Close, JoinIpcAndInput, JoinScripts, DieOfDangling, Idle, Job, Jobs
  <2> QED BY <2>1 DEF Open
<1> QED BY <1>4, <1>5, <1>6, <1>7, <1>8, <1>9, <1>10, <1>11, <1>12, <1>13
        DEF WindowNext, WindowThread, Environment, CallsInput

-----------------------------------------------------------------------------
(* The theorems.                                                            *)

HostInv ==
  /\ TypesOK /\ CallsInv /\ Names /\ Answering /\ Claims /\ Parts /\ Reports
  /\ Switches /\ Scripts /\ ShownInv

LEMMA HostInductive == WindowSpec => []HostInv
<1>1. WindowInit => HostInv
  <2> SUFFICES ASSUME WindowInit PROVE HostInv
    OBVIOUS
  <2>1. /\ win = Idle /\ ipc = NoRequest /\ active = NoRuntime /\ prepared = {}
        /\ {render, input, current, hostState} = {NoConfig}
    BY DEF WindowInit, CoordinatorInit
  <2>2. TypesOK /\ CallsInv /\ Names
    BY InitTypes, InitCalls, InitNames
  <2>3. Answering /\ Claims
    BY <2>1 DEF Answering, Claims, Idle, Job, NoRequest, Request
  <2>4. Parts
    BY <2>1 DEF Parts, ScriptsRun, Committed, Applying, Remembered, Idle, Job, NoRuntime
  <2>5. Reports
    BY <2>1 DEF Reports, KindsKnown, Lagging, Idle, Job, NoRequest, Request
  <2>6. inbox = <<>> /\ inputConfig = NoConfig /\ nextToken = 1 /\ heard = 0 /\ current = NoConfig
        /\ scriptVisible = TRUE /\ usesLua = FALSE /\ switchConfigured = FALSE /\ shown = FALSE
    BY DEF WindowInit, CoordinatorInit
  <2>7. Lacks(inbox, UpdatesOf(active.token)) /\ Range(inbox) = {}
    BY <2>6, EmptyRange DEF Lacks
  <2>8. Switches
    BY <2>6 DEF Switches, SwitchesHeard
  <2>9. Scripts
    <3>1. LastIn(inbox, UpdatesOf(active.token), Saying(active.visible))
      BY <2>7, NoneLast
    <3>2. Ordered
      BY <2>1, <2>6, <2>7 DEF Ordered, NoRuntime
    <3> QED BY <2>1, <2>6, <3>1, <3>2 DEF Scripts, ScriptsHeard, Committed, NoRuntime, Idle, Job
  <2>10. ShownInv
    <3>1. NoConfig \notin LuaConfigs
      BY CoordinatorAssumption, WindowAssumption
    <3>2. usesLua = UsesLua(current)
      <4>1. UsesLua(current) = FALSE
        BY <2>6, <3>1 DEF UsesLua
      <4> QED BY <2>6, <4>1
    <3>3. AsFlagged
      BY <2>6 DEF AsFlagged, Visibility
    <3>4. win.at = "idle" /\ win.kind = "none" /\ ipc.outcome = "none"
      BY <2>1 DEF Idle, Job, NoRequest, Request
    <3> QED BY <3>2, <3>3, <3>4 DEF ShownInv, Kinds, ShownSound
  <2> QED BY <2>2, <2>3, <2>4, <2>5, <2>8, <2>9, <2>10 DEF HostInv
<1>2. HostInv /\ [WindowNext]_hostVars => HostInv'
  BY TypesKept, CallsKept, NamesKept, AnsweringKept, ClaimsKept, PartsKept, ReportsKept,
     SwitchesKept, ScriptsKept, ShownKept DEF HostInv
<1> QED BY <1>1, <1>2, PTL DEF WindowSpec

(* Every variable keeps its type, a thread holds an answer only where it     *)
(* waits for one, and once every thread and every queue is idle no prepared *)
(* configuration, with its Lua states, is left on the script thread.        *)
THEOREM WindowInvariant == WindowSpec => []WindowInv
<1>1. HostInv => WindowInv
  <2> SUFFICES ASSUME HostInv PROVE WindowInv
    OBVIOUS
  <2>1. TypesOK /\ CallsInv /\ Claims
    BY DEF HostInv
  <2>2. CoordinatorTypeOK
    <3>1. nextToken - 1 + Cardinality(PlacesOf(tasks, PrepareTasks)) <= MaxPrepares
      BY <2>1, PreparesArePlaces DEF Counted, QueueTyped, TypesOK, ScriptTypes
    <3>2. Cardinality(PlacesOf(tasks, PrepareTasks)) \in Nat
      BY <2>1, PlacesFinite DEF TypesOK, ScriptTypes
    <3>3. nextToken \in 1..(MaxPrepares + 1)
      BY <2>1, <3>1, <3>2, Constants DEF TypesOK, ScriptTypes
    <3> QED BY <2>1, <3>3 DEF CoordinatorTypeOK, TypesOK, ScriptTypes, Replies
  <2>3. Answered("window") => win.at \in {"prepare", "commit", "discard", "died"}
    BY <2>1 DEF CallsInv, Waiting, Waits, Answered
  <2>4. Answered("ipc") => ipc.at \in {"prepare", "discard"}
    BY <2>1 DEF CallsInv, Waiting, Waits, Answered, TypesOK, ThreadTypes, Requests
  <2>5. WindowTypeOK
    BY <2>1, <2>2, <2>3, <2>4
       DEF WindowTypeOK, TypesOK, ThreadTypes, ConfigTypes, FlagTypes, CountTypes, Jobs, Requests, Letters
  <2>6. NoneLeftPrepared
    <3> SUFFICES ASSUME Quiet PROVE prepared = {}
      BY DEF NoneLeftPrepared
    <3>1. Range(tasks) = {} /\ win.at = "idle" /\ ipc.at = "idle"
      BY EmptyRange DEF Quiet, Idle, Job, NoRequest, Request
    <3> QED BY <2>1, <3>1 DEF Claims, Queued, WindowHolds, IpcHolds
  <2> QED BY <2>5, <2>6 DEF WindowInv
<1> QED BY <1>1, HostInductive, PTL

(* Whenever the window thread waits for a message, what it renders, what it  *)
(* takes the input for, the snapshot scripts switch from and the runtime of  *)
(* the scripts are of one configuration, whatever failed or timed out.      *)
THEOREM WindowPartsAgree == WindowSpec => []PartsAgree
<1>1. HostInv => PartsAgree
  BY DEF HostInv, Parts, PartsAgree, Open, ScriptsRun, Committed, Remembered, Idle, Job
<1> QED BY <1>1, HostInductive, PTL

(* The Host reports the configuration it runs once everything is handled, if *)
(* no snapshot timed out while the window thread worked on it.              *)
THEOREM WindowStateIsCurrent == WindowSpec => []StateIsCurrent
<1>1. HostInv => StateIsCurrent
  BY DEF HostInv, Reports, Lagging, StateIsCurrent, Quiet, Idle, Job, NoRequest, Request
<1> QED BY <1>1, HostInductive, PTL

(* Once every message is handled the overlays are shown as the scripts of    *)
(* the running configuration, its profile and the switches of the input     *)
(* thread say, whichever application failed, timed out or was overtaken, if  *)
(* the last word of the scripts came from those that run.                   *)
THEOREM WindowShownAsDecided == WindowSpec => []ShownAsDecided
<1>1. HostInv => ShownAsDecided
  <2> SUFFICES ASSUME HostInv, Quiet, heard = active.token, inputConfig # NoConfig, drawn = render
               PROVE  shown = Visibility(active.visible, current \in LuaConfigs, TRUE, inputVisible)
    BY DEF ShownAsDecided
  <2>1. TypesOK /\ SwitchesHeard /\ ScriptsHeard /\ Kinds /\ ShownSound
    BY DEF HostInv, Quiet, Idle, Job, Open, Switches, Scripts, ShownInv
  <2>2. \A P : Lacks(inbox, P)
    BY DEF Quiet, Lacks
  <2>3. switchConfigured /\ switchVisible = inputVisible
    BY <2>1, <2>2 DEF SwitchesHeard
  <2>4. scriptVisible = active.visible
    BY <2>1, <2>2 DEF ScriptsHeard
  <2>5. win.kind # "commands" /\ ~Undrawn
    BY <2>2 DEF Quiet, Idle, Job, Undrawn, Awaited
  <2>6. AsFlagged /\ usesLua = (current \in LuaConfigs) /\ switchConfigured = TRUE
    BY <2>1, <2>3, <2>5 DEF ShownSound, UsesLua, TypesOK, FlagTypes
  <2> QED BY <2>3, <2>4, <2>6 DEF AsFlagged
<1> QED BY <1>1, HostInductive, PTL
=============================================================================
