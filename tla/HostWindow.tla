----------------------------- MODULE HostWindow -----------------------------
(***************************************************************************)
(* How the Host applies a configuration (prototype_app.cpp,                 *)
(* OverlayApplication).  The IPC thread prepares a snapshot of the settings *)
(* UI on the script thread, sends it to the window thread and waits, holding *)
(* the mutex of IpcHostState all the while; the window thread applies it to *)
(* the input thread, to the overlays and to the scripts, or rolls back.     *)
(* Script callbacks run on the script thread and post what they decided to  *)
(* the window thread, which applies a configuration of its own when a       *)
(* script switches profiles, and then publishes it under the same mutex.    *)
(*                                                                         *)
(* The input thread is here what InputSystem shows it to be: a configuration *)
(* is applied, refused with the old one intact, or lost, and a change of    *)
(* the state is posted to the window thread.                                *)
(***************************************************************************)
EXTENDS ScriptCoordinator

CONSTANTS LuaConfigs,           \* configurations whose profile Lua controls
          InitiallyOn,          \* configurations whose switches start visible
          MaxApplies,           \* bound on the snapshots the UI sends
          MaxSwitches,          \* bound on the callbacks that switch profiles
          MaxInputs             \* bound on the input events
ASSUME WindowAssumption ==
  /\ LuaConfigs \subseteq Configs /\ InitiallyOn \subseteq Configs
  /\ {MaxApplies, MaxSwitches, MaxInputs} \subseteq Nat /\ MaxPrepares = MaxApplies + MaxSwitches

VARIABLES
  win,                          \* where the window thread is, with its candidate,
                                \* previous_render and previous_input
  ipc,                          \* where the IPC thread is, with its request
  inbox,                        \* messages posted to the controller window
  render, input, current,       \* render_configuration_, input_configuration_, current_snapshot_json_
  drawn,                        \* the configuration the overlays were built from
  scriptVisible, usesLua,       \* script_visibility_, profile_uses_lua_
  switchVisible, switchConfigured,   \* switch_visibility_ and .._configured_
  shown,                        \* what update_overlay_visibility told the overlays
  hostState,                    \* the snapshot in IpcHostState
  inputConfig, inputVisible,    \* what the input thread runs and evaluates
  heard,                        \* ghost: the runtime scriptVisible comes from
  dangling, torn,               \* ghosts: a call timed out; an answer, amid the handler
  applies, switches, inputs     \* ghosts for the bounds

flags == <<scriptVisible, usesLua, switchVisible, switchConfigured, shown, heard>>
configVars == <<render, input, current, drawn>>
inputVars == <<inputConfig, inputVisible>>
counts == <<applies, switches, inputs>>
hostVars == <<scriptVars, win, ipc, inbox, configVars, flags, hostState, inputVars,
              dangling, torn, counts>>

AnyConfig == Configs \cup {NoConfig}
Job(at, kind, runtime) ==
  [at |-> at, kind |-> kind, runtime |-> runtime, render |-> NoConfig, input |-> NoConfig]
Idle == Job("idle", "none", NoRuntime)
Request(at, runtime, outcome) == [at |-> at, runtime |-> runtime, outcome |-> outcome]
NoRequest == Request("idle", NoRuntime, "none")
Posted(kind, visible, flag, token) ==
  [kind |-> kind, visible |-> visible, flag |-> flag, token |-> token]

WindowTypeOK ==
  /\ CoordinatorTypeOK
  /\ win \in [at : {"idle", "prepare", "rebuild", "commit", "rollback", "discard",
                    "publish",
                    "closing", "joining", "ended", "died"},
              kind : {"none", "request", "torn", "commands"}, runtime : Runtimes,
              render : AnyConfig, input : AnyConfig]
  /\ ipc \in [at : {"idle", "prepare", "send", "discard", "stopped"}, runtime : Runtimes,
              outcome : {"none", "sent", "taken", "applied", "failed"}]
  /\ inbox \in Seq([kind : {"update", "input"}, visible : BOOLEAN, flag : BOOLEAN, token : Tokens])
  /\ {render, input, current, drawn, hostState, inputConfig} \subseteq AnyConfig
  /\ {scriptVisible, usesLua, switchVisible, switchConfigured, shown, inputVisible,
      dangling, torn} \subseteq BOOLEAN
  /\ heard \in Tokens
  /\ Answered("window") => win.at \in {"prepare", "commit", "discard", "died"}
  /\ Answered("ipc") => ipc.at \in {"prepare", "discard"}
  /\ applies \in 0..MaxApplies /\ switches \in 0..MaxSwitches /\ inputs \in 0..MaxInputs

WindowInit ==
  /\ CoordinatorInit
  /\ win = Idle /\ ipc = NoRequest /\ inbox = <<>>
  /\ render = NoConfig /\ input = NoConfig /\ current = NoConfig /\ drawn = NoConfig
  /\ hostState = NoConfig /\ inputConfig = NoConfig
  /\ scriptVisible = TRUE /\ usesLua = FALSE
  /\ switchVisible = TRUE /\ switchConfigured = FALSE
  /\ shown = FALSE /\ heard = 0
  /\ inputVisible = FALSE /\ dangling = FALSE /\ torn = FALSE
  /\ applies = 0 /\ switches = 0 /\ inputs = 0

(* The controller window exists: configuration_target_ is set.              *)
Open == win.at \notin {"closing", "joining", "ended", "died"}
Alive == win.at \notin {"ended", "died"}
Post(message) == inbox' = IF Open THEN Append(inbox, message) ELSE inbox

-----------------------------------------------------------------------------
(* The input thread.                                                        *)

(* A key bound by a script: the event is queued on the script thread.       *)
ScriptKey ==
  /\ Alive /\ inputConfig # NoConfig
  /\ inputs < MaxInputs
  /\ inputs' = inputs + 1
  /\ DispatchInput
  /\ UNCHANGED <<win, ipc, inbox, configVars, flags, hostState, inputVars, dangling, torn,
                 applies, switches>>

(* A key that changes the switches: the new state is posted.                *)
SwitchKey ==
  /\ Alive /\ inputConfig # NoConfig
  /\ inputs < MaxInputs
  /\ inputs' = inputs + 1
  /\ inputVisible' = ~inputVisible
  /\ Post(Posted("input", inputVisible', TRUE, 0))
  /\ UNCHANGED <<scriptVars, win, ipc, configVars, flags, hostState, inputConfig, dangling, torn,
                 applies, switches>>

(* apply_configuration, called by the window thread: applied and published, *)
(* refused without a trace, or the old configuration is lost as well.  A    *)
(* call may also time out after five seconds: it counts as refused, yet its *)
(* message stays with the input thread, which handles it before any later   *)
(* one, on a stack frame that is gone.                                      *)
Published(config) ==
  /\ inputConfig' = config
  /\ inputVisible' = (config \in InitiallyOn)
  /\ Post(Posted("input", inputVisible', TRUE, 0))
InputApplied(config) == Published(config) /\ UNCHANGED dangling
InputRefused == UNCHANGED <<inputVars, inbox, dangling>>
InputTimedOut(config) ==
  /\ dangling' = TRUE
  /\ Published(config) \/ UNCHANGED <<inputVars, inbox>>
InputLost ==
  /\ UNCHANGED dangling
  /\ inputConfig' = NoConfig
  /\ \/ inputVisible' \in BOOLEAN /\ Post(Posted("input", inputVisible', FALSE, 0))
     \/ UNCHANGED <<inputVisible, inbox>>

-----------------------------------------------------------------------------
(* The script thread, when a callback ran: the update is posted.  It may ask *)
(* for another profile.                                                     *)

ScriptCallback ==
  /\ \E visible \in BOOLEAN : RunInput(visible)
  /\ \E commands \in BOOLEAN :
       /\ commands => switches < MaxSwitches
       /\ switches' = IF commands THEN switches + 1 ELSE switches
       /\ Post(Posted("update", active'.visible, commands, active.token))
  /\ UNCHANGED <<win, ipc, configVars, flags, hostState, inputVars, dangling, torn, applies, inputs>>

ScriptTask ==
  /\ RunPrepare \/ RunCommit \/ RunDiscard \/ IgnoreInput
  /\ UNCHANGED <<win, ipc, inbox, configVars, flags, hostState, inputVars, dangling, torn, counts>>

-----------------------------------------------------------------------------
(* The IPC thread, inside IpcHostState::apply: it holds the mutex whenever   *)
(* it is not idle.                                                          *)

MutexFree == ipc.at \in {"idle", "stopped"}
ipcFrame == <<win, inbox, configVars, flags, inputVars, torn, switches, inputs>>

ReceiveSnapshot ==
  /\ ipc.at = "idle"
  /\ applies < MaxApplies
  /\ applies' = applies + 1
  /\ \E config \in Configs :
       /\ Prepare("ipc", config)
       /\ ipc' = Request("prepare", [NoRuntime EXCEPT !.config = config], "none")
  /\ UNCHANGED <<ipcFrame, hostState, dangling>>

GiveUp(runtime) == Discard("ipc", runtime.token) /\ ipc' = Request("discard", runtime, "none")

(* The snapshot is sent to the window, unless it does not parse or there is *)
(* no window.                                                               *)
SendSnapshot ==
  /\ ipc.at = "prepare" /\ Answered("ipc")
  /\ LET runtime == answers["ipc"].runtime
     IN \/ ~Succeeded("ipc") /\ ipc' = NoRequest /\ GoOn("ipc")
        \/ Succeeded("ipc") /\ GiveUp(runtime)
        \/ /\ Succeeded("ipc") /\ Open
           /\ ipc' = Request("send", runtime, "sent")
           /\ GoOn("ipc")
  /\ UNCHANGED <<ipcFrame, hostState, dangling, applies>>

(* Mutated form: no answer is a success, as SendMessage is without timeout. *)
MutAccepted == ipc.outcome \in {"applied", "failed"}

(* The window handled the message.  The state takes the snapshot only when  *)
(* the handler did not fail; the discards that follow find nothing.         *)
Accepted == ipc.outcome = "applied"
WindowAnswered ==
  /\ ipc.at = "send" /\ ipc.outcome \in {"applied", "failed"}
  /\ hostState' = IF Accepted THEN ipc.runtime.config ELSE hostState
  /\ ipc' = NoRequest
  /\ UNCHANGED <<scriptVars, ipcFrame, dangling, applies>>

(* Mutated form: SendMessage, which has no time-out.                        *)
MutExpires == ipc.outcome = "sent" /\ ~Open
Expires == ipc.outcome \in {"sent", "taken"}

(* Ten seconds pass or the window counts as hung: ApplyTimeout.  A handler  *)
(* that has begun goes on with a request that lives on this thread's stack. *)
(* A window that is gone fails the call at once.                            *)
TimeOut ==
  /\ ipc.at = "send" /\ Expires
  /\ GiveUp(ipc.runtime)
  /\ dangling' = (dangling \/ Open)
  /\ torn' = (torn \/ ipc.outcome = "taken")
  /\ win' = IF ipc.outcome = "taken" THEN [win EXCEPT !.kind = "torn"] ELSE win
  /\ UNCHANGED <<inbox, configVars, flags, inputVars, hostState, counts>>

SnapshotRefused ==
  /\ ipc.at = "discard" /\ Answered("ipc")
  /\ ipc' = NoRequest
  /\ GoOn("ipc")
  /\ UNCHANGED <<ipcFrame, hostState, dangling, applies>>

-----------------------------------------------------------------------------
(* The window thread.  update_overlay_visibility, on the values a step sets. *)

Visibility(scripts, lua, configured, switch) == scripts /\ (lua \/ (configured /\ switch))
UpdateVisibility == shown' = Visibility(scriptVisible', usesLua', switchConfigured', switchVisible')

applyFrame == <<hostState, counts, torn>>
windowFrame == <<hostState, dangling, counts>>

(* Answer the sender of a snapshot, unless it has gone, or end an update.    *)
Reported(outcome) ==
  IF win.kind = "request" THEN ipc' = [ipc EXCEPT !.outcome = outcome] ELSE ipc' = ipc

(* rebuild_overlays: it fails before the old overlays are gone, when an      *)
(* image cannot be decoded, or after, when a window or a surface cannot be   *)
(* made.                                                                    *)
Rebuilt(config) == drawn' = config
RebuildFails == drawn' \in {drawn, NoConfig}

(* Mutated form: the configurations are not remembered before they change.  *)
MutRemembering(job) == [job EXCEPT !.render = job.runtime.config, !.input = job.runtime.config]
Remembering(job) == [job EXCEPT !.render = render, !.input = input]

(* The window thread takes the answer it came here with, if there is one.    *)
TakeAnswer(kind) == IF kind = "commands" THEN GoOn("window") ELSE UNCHANGED scriptVars

(* apply_snapshot: the input thread refuses the bindings and the candidate   *)
(* is discarded; or it takes them.                                          *)
RefusedByInput(kind, runtime) ==
  /\ InputRefused \/ InputLost \/ InputTimedOut(runtime.config)
  /\ Discard("window", runtime.token)
  /\ win' = Job("discard", kind, runtime)
  /\ UNCHANGED <<configVars, flags>>
TakenByInput(kind, runtime) ==
  /\ InputApplied(runtime.config)
  /\ render' = runtime.config /\ input' = runtime.config
  /\ win' = Remembering(Job("rebuild", kind, runtime))
  /\ TakeAnswer(kind)
  /\ UNCHANGED <<current, drawn, flags>>
ApplySnapshot(kind, runtime) == RefusedByInput(kind, runtime) \/ TakenByInput(kind, runtime)

(* A sent message is handled before any posted one.                         *)
NoneSent == ipc.outcome # "sent"
HandleSnapshot ==
  /\ win = Idle /\ ipc.outcome = "sent"
  /\ ApplySnapshot("request", ipc.runtime)
  /\ ipc' = [ipc EXCEPT !.outcome = "taken"]
  /\ UNCHANGED applyFrame

(* The overlays are rebuilt, then the scripts are committed.                *)
Rebuild ==
  /\ win.at = "rebuild"
  /\ UNCHANGED <<scriptVisible, usesLua, switchVisible, switchConfigured, heard>>
  /\ \/ /\ Rebuilt(win.runtime.config)
        /\ Commit("window", win.runtime.token)
        /\ win' = [win EXCEPT !.at = "commit"]
        /\ UpdateVisibility
     \/ /\ RebuildFails
        /\ win' = [win EXCEPT !.at = "rollback"]
        /\ shown' = (shown /\ drawn' = drawn)
        /\ UNCHANGED scriptVars
  /\ UNCHANGED <<ipc, inbox, render, input, current, inputVars, windowFrame, torn>>

(* Mutated form: profile_uses_lua_ is not set.                              *)
MutUsesLua(config) == usesLua
UsesLua(config) == config \in LuaConfigs

(* The scripts are committed: everything else follows in one go.  A torn     *)
(* request is worked on as if its memory were still there.                  *)
CommitDone ==
  /\ win.at = "commit" /\ Succeeded("window")
  /\ scriptVisible' = win.runtime.visible /\ heard' = win.runtime.token
  /\ usesLua' = UsesLua(win.runtime.config)
  /\ UNCHANGED <<switchVisible, switchConfigured>>
  /\ UpdateVisibility
  /\ current' = win.runtime.config
  /\ Reported("applied")
  /\ win' = IF win.kind = "commands" THEN [win EXCEPT !.at = "publish"] ELSE Idle
  /\ GoOn("window")
  /\ UNCHANGED <<inbox, render, input, drawn, inputVars, windowFrame, torn>>

(* A commit fails when the candidate is gone: the sender gave up meanwhile. *)
CommitFailed ==
  /\ win.at = "commit" /\ answers["window"].state = "failed"
  /\ win' = [win EXCEPT !.at = "rollback"]
  /\ GoOn("window")
  /\ UNCHANGED <<ipc, inbox, configVars, flags, inputVars, windowFrame, torn>>

(* The catch block: the overlays stay as the failure left them.  The input   *)
(* thread gets its old configuration back if there was one.                 *)
RestoreInput ==
  IF win.input = NoConfig THEN InputRefused
  ELSE InputApplied(win.input) \/ InputRefused \/ InputLost \/ InputTimedOut(win.input)
RollBack ==
  /\ win.at = "rollback"
  /\ render' = win.render /\ input' = win.input
  /\ RestoreInput
  /\ Discard("window", win.runtime.token)
  /\ win' = [win EXCEPT !.at = "discard"]
  /\ UNCHANGED <<ipc, current, drawn, flags, applyFrame>>

(* The candidate is discarded, and the failure goes to the sender, or to the *)
(* log when a script asked; the update then shows what it said before.      *)
DiscardDone ==
  /\ win.at = "discard" /\ Answered("window")
  /\ Reported("failed")
  /\ win' = Idle
  /\ UNCHANGED <<scriptVisible, usesLua, switchVisible, switchConfigured, heard>>
  /\ IF win.kind = "commands" THEN UpdateVisibility ELSE shown' = shown
  /\ GoOn("window")
  /\ UNCHANGED <<inbox, configVars, inputVars, windowFrame, torn>>

(* publish_host_snapshot waits for the mutex of IpcHostState.               *)
PublishSnapshot ==
  /\ win.at = "publish" /\ MutexFree
  /\ hostState' = win.runtime.config
  /\ win' = Idle
  /\ UNCHANGED <<scriptVisible, usesLua, switchVisible, switchConfigured, heard>>
  /\ UpdateVisibility
  /\ UNCHANGED <<scriptVars, ipc, inbox, configVars, inputVars, dangling, torn, counts>>

(* An update of the scripts.  Commands switch to some configuration, once    *)
(* there is one to start from.                                              *)
HandleUpdate ==
  /\ win = Idle /\ NoneSent
  /\ inbox # <<>> /\ Head(inbox).kind = "update"
  /\ inbox' = Tail(inbox)
  /\ scriptVisible' = Head(inbox).visible /\ heard' = Head(inbox).token
  /\ UNCHANGED <<usesLua, switchVisible, switchConfigured>>
  /\ \/ /\ UpdateVisibility
        /\ win' = Idle
        /\ UNCHANGED scriptVars
     \/ /\ Head(inbox).flag /\ current # NoConfig
        /\ \E config \in Configs :
             /\ Prepare("window", config)
             /\ win' = Job("prepare", "commands", [NoRuntime EXCEPT !.config = config])
        /\ shown' = shown
  /\ UNCHANGED <<ipc, configVars, inputVars, windowFrame, torn>>

(* The configuration the scripts want is prepared: it is refused, does not   *)
(* parse, or is applied like one of the UI.                                 *)
CommandsPrepared ==
  /\ win.at = "prepare" /\ Answered("window")
  /\ LET runtime == answers["window"].runtime
     IN \/ /\ ~Succeeded("window")
           /\ win' = Idle
           /\ GoOn("window")
           /\ UNCHANGED <<inbox, configVars, inputVars, dangling,
                          scriptVisible, usesLua, switchVisible, switchConfigured, heard>>
           /\ UpdateVisibility
        \/ /\ Succeeded("window")
           /\ Discard("window", runtime.token)
           /\ win' = Job("discard", "commands", runtime)
           /\ UNCHANGED <<inbox, configVars, inputVars, dangling, flags>>
        \/ Succeeded("window") /\ ApplySnapshot("commands", runtime)
  /\ UNCHANGED <<ipc, applyFrame>>

(* A state of the input thread.                                             *)
HandleInputState ==
  /\ win = Idle /\ NoneSent
  /\ inbox # <<>> /\ Head(inbox).kind = "input"
  /\ inbox' = Tail(inbox)
  /\ switchVisible' = Head(inbox).visible /\ switchConfigured' = Head(inbox).flag
  /\ UNCHANGED <<scriptVisible, usesLua, heard>>
  /\ UpdateVisibility
  /\ UNCHANGED <<scriptVars, ipc, win, configVars, inputVars, windowFrame, torn>>

(* A display change, a toast or its timer rebuilds the overlays; a failure   *)
(* there closes the Host, as Close does.                                    *)
Redraw ==
  /\ win = Idle /\ NoneSent /\ drawn # render
  /\ Rebuilt(render)
  /\ UNCHANGED <<scriptVisible, usesLua, switchVisible, switchConfigured, heard>>
  /\ UpdateVisibility
  /\ UNCHANGED <<scriptVars, ipc, inbox, win, render, input, current, inputVars,
                 windowFrame, torn>>

-----------------------------------------------------------------------------
(* The end.  The window is destroyed; shutdown joins the IPC thread, then    *)
(* the input thread, then the script thread.                                *)

Close ==
  /\ win = Idle
  /\ win' = Job("closing", "none", NoRuntime)
  /\ UNCHANGED <<scriptVars, ipc, inbox, configVars, flags, inputVars, windowFrame, torn>>
JoinIpcAndInput ==
  /\ win.at = "closing" /\ ipc.at = "idle"
  /\ ipc' = [ipc EXCEPT !.at = "stopped"]
  /\ inputConfig' = NoConfig
  /\ win' = [win EXCEPT !.at = "joining"]
  /\ UNCHANGED <<scriptVars, inbox, configVars, flags, inputVisible, windowFrame, torn>>
JoinScripts ==
  /\ win.at = "joining"
  /\ StopCoordinator
  /\ win' = [win EXCEPT !.at = "ended"]
  /\ UNCHANGED <<ipc, inbox, configVars, flags, inputVars, windowFrame, torn>>

(* The memory of a request that timed out is used by the window thread, or   *)
(* by the input thread: the process may die of it, at a step or when the     *)
(* message comes late, and nothing of its state is left.                    *)
DieOfDangling ==
  /\ dangling /\ Alive
  /\ win' = [Idle EXCEPT !.at = "died"]
  /\ tasks' = <<>> /\ active' = NoRuntime /\ prepared' = {} /\ nextToken' = 1
  /\ answers' = [who \in Callers |-> NoAnswer]
  /\ ipc' = NoRequest /\ inbox' = <<>>
  /\ render' = NoConfig /\ input' = NoConfig /\ current' = NoConfig /\ drawn' = NoConfig
  /\ hostState' = NoConfig /\ inputConfig' = NoConfig /\ inputVisible' = FALSE
  /\ scriptVisible' = TRUE /\ usesLua' = FALSE /\ switchVisible' = TRUE
  /\ switchConfigured' = FALSE /\ shown' = FALSE /\ heard' = 0
  /\ UNCHANGED <<dangling, torn, counts>>

-----------------------------------------------------------------------------
WindowThread ==
  \/ HandleSnapshot \/ Rebuild \/ CommitDone \/ CommitFailed \/ RollBack \/ DiscardDone
  \/ PublishSnapshot \/ HandleUpdate \/ CommandsPrepared \/ HandleInputState
  \/ JoinIpcAndInput \/ JoinScripts
IpcThread == SendSnapshot \/ WindowAnswered \/ TimeOut \/ SnapshotRefused
ScriptThread == ScriptTask \/ ScriptCallback
Environment == ScriptKey \/ SwitchKey \/ ReceiveSnapshot \/ Redraw \/ Close

WindowNext ==
  \/ Alive /\ (WindowThread \/ IpcThread \/ ScriptThread \/ Environment)
  \/ DieOfDangling
WindowSpec == WindowInit /\ [][WindowNext]_hostVars
WindowFairness ==
  /\ WF_hostVars(Alive /\ WindowThread)
  /\ WF_hostVars(Alive /\ IpcThread)
  /\ WF_hostVars(Alive /\ ScriptThread)
FairWindowSpec == WindowSpec /\ WindowFairness

-----------------------------------------------------------------------------
(* Safety.  Nothing is under way in any thread.                             *)
Quiet == win = Idle /\ ipc = NoRequest /\ tasks = <<>> /\ inbox = <<>>

(* Between two messages the window thread never holds a mixture: what it     *)
(* renders, the snapshot scripts switch from and the runtime the script      *)
(* thread runs are of one configuration, whichever step of an application    *)
(* failed, timed out or lost its candidate.                                 *)
PartsAgree ==
  win = Idle => render = current /\ input = current /\ active.config = current

(* The state the Host reports over IPC is the configuration it runs, when no *)
(* answer timed out in the middle of the handler: the mutex orders the       *)
(* snapshots of the UI and those of the scripts as the window applied them. *)
StateIsCurrent == Quiet /\ ~torn => hostState = current

(* No prepared configuration, each with its Lua states, is left behind by    *)
(* failures, time-outs and applications that overlap.                       *)
NoneLeftPrepared == Quiet => prepared = {}

(* What holds of every state.                                               *)
WindowInv == WindowTypeOK /\ NoneLeftPrepared

(* Once everything is handled the overlays are shown as the scripts and the  *)
(* switches say, if the last word of the scripts came from those that run.  *)
ShownAsDecided ==
  Quiet /\ heard = active.token /\ inputConfig # NoConfig /\ drawn = render =>
    shown = Visibility(active.visible, current \in LuaConfigs, TRUE, inputVisible)

-----------------------------------------------------------------------------
(* Liveness.                                                                *)

(* A snapshot of the UI is answered, although its thread holds the mutex the *)
(* window thread may be waiting for.                                        *)
SnapshotIsAnswered == ipc.at # "idle" ~> ipc.at \in {"idle", "stopped"}

(* The window thread comes back to its messages, or has ended.              *)
WindowReturns == win.at # "idle" ~> win = Idle \/ ~Alive
=============================================================================
