--------------------------- MODULE OverlayWindows ---------------------------
(***************************************************************************)
(* The window thread of the Host as the owner of the overlay windows and of  *)
(* the render thread: start, rebuild_overlays, the toasts and shutdown       *)
(* (prototype_app.cpp).  Everything that changes what is on the screen goes  *)
(* through rebuild_overlays, which asks the render thread three times and    *)
(* replaces every window in between.                                        *)
(*                                                                         *)
(* What happens to the input bindings and the scripts when a snapshot is     *)
(* applied is the subject of HostWindow; here it is only the render          *)
(* configuration.  The message box of a fatal error is not modelled (it is   *)
(* left out when dialogs are suppressed).                                    *)
(***************************************************************************)
EXTENDS RenderThread, ToastQueue, FiniteSets

CONSTANTS Default,              \* make_default_render_configuration()
          ToastsOff,            \* configurations with toasts disabled
          NoMonitor,            \* the toast's monitor is unknown, or was unplugged
          MaxRebuilds           \* bound on the calls of rebuild_overlays
ASSUME OverlayAssumption ==
  /\ NoMonitor \notin Monitors /\ Default \in Assetless /\ ToastsOff \subseteq RenderConfigs
  /\ MaxRebuilds \in Nat /\ MaxToasts = MaxToastNumber

VARIABLES
  windowPc,                     \* where the window thread is
  handler,                      \* what called rebuild_overlays
  config, previous,             \* render_configuration_, and previous_render of apply_snapshot
  windows,                      \* overlays_
  timer,                        \* the toast timer is set
  rebuilds,                     \* calls of rebuild_overlays (bound only)
  rebuilt,                      \* history: the last change of what is to be shown reached the screen
  timerLost                     \* history: SetTimer failed for the active toast

windowVars == <<windowPc, handler, config, previous, windows, timer, rebuilds, rebuilt, timerLost>>
vars == <<allRenderVars, toastVars, windowVars>>

OverlayTypeOK ==
  /\ RenderTypeOK /\ ToastTypeOK
  /\ windowPc \in {"starting", "awaiting", "idle", "preparing", "releasing", "rebuilding",
                   "closing", "releasingLast", "stopping", "joining", "ended"}
  /\ handler \in {"none", "start", "apply", "toast", "timer", "display"}
  /\ config \in RenderConfigs /\ previous \in RenderConfigs \cup {NoRender}
  /\ windows \subseteq HostWindows
  /\ timer \in BOOLEAN /\ rebuilt \in BOOLEAN /\ timerLost \in BOOLEAN /\ rebuilds \in 0..MaxRebuilds

Init ==
  /\ RenderInit /\ ToastInit
  /\ windowPc = "starting" /\ handler = "none" /\ config = Default /\ previous = NoRender
  /\ windows = {} /\ timer = FALSE /\ rebuilds = 0 /\ rebuilt = FALSE /\ timerLost = FALSE

-----------------------------------------------------------------------------
(* Start: the worker, then its first sign of life. *)

Begin ==
  /\ windowPc = "starting" /\ StartWorker
  /\ windowPc' = "awaiting"
  /\ UNCHANGED <<renderVars, toastVars, handler, config, previous, windows, timer, rebuilds, rebuilt, timerLost>>

\* rebuild_overlays begins with a request to prepare the configuration; a render
\* thread that died before refuses it.
Rebuild(by) ==
  /\ rebuilds < MaxRebuilds /\ rebuilds' = rebuilds + 1
  /\ handler' = by /\ rebuilt' = FALSE
  /\ windowPc' = "preparing"
  /\ IF failure
     THEN UNCHANGED renderVars
     ELSE Send(Ask("prepare", {}, Snapshot(0, config'))) /\ UNCHANGED published

FirstRebuild ==
  /\ windowPc = "awaiting" /\ owner = "started" /\ ready /\ ~failure
  /\ UNCHANGED config /\ Rebuild("start")
  /\ UNCHANGED <<workerVars, toastVars, previous, windows, timer, timerLost>>
\* The render thread could not start: the application ends.
StartFails ==
  /\ windowPc = "awaiting" /\ owner \in {"started", "refused"} /\ (failure \/ owner = "refused")
  /\ windowPc' = IF owner = "refused" THEN "stopping" ELSE "joining"
  /\ UNCHANGED <<allRenderVars, toastVars, handler, config, previous, windows, timer, rebuilds, rebuilt, timerLost>>

-----------------------------------------------------------------------------
(* rebuild_overlays fails: the sender of a snapshot or of a toast is told,   *)
(* in any other handler the error is fatal.                                  *)

ConfigAfterFailure == IF handler = "apply" THEN previous ELSE config
LeaveHandler == handler' = "none" /\ previous' = NoRender
Throw ==
  /\ config' = ConfigAfterFailure /\ LeaveHandler
  /\ windowPc' = IF handler \in {"apply", "toast"} THEN "idle" ELSE "closing"
  /\ UNCHANGED <<toastVars, timer, rebuilds, rebuilt, timerLost>>

Prepared ==
  /\ windowPc = "preparing" /\ Returned /\ ~Refused
  /\ Send(Ask("release", {}, Snapshot(0, NoRender))) /\ UNCHANGED published
  /\ windowPc' = "releasing"
  /\ UNCHANGED <<workerVars, toastVars, handler, config, previous, windows, timer, rebuilds, rebuilt, timerLost>>
PreparationFails ==
  /\ windowPc = "preparing" /\ Returned /\ Refused
  /\ Throw /\ UNCHANGED <<allRenderVars, windows>>

\* The old windows go.  A new snapshot is published, and a window created for
\* every monitor, and one for the toast if its monitor is still there.
ShownToasts == IF config \in ToastsOff THEN {} ELSE toast
Targets(version, monitors, toastMonitor) ==
  [version : {version}, monitor : monitors, shows : {0}] \cup
  [version : {version}, monitor : monitors \cap {toastMonitor}, shows : {t.number : t \in ShownToasts}]
\* next_snapshot_version_; a number that was taken but not published is free again.
NextVersion == published.version + 1
Replaced ==
  /\ windowPc = "releasing" /\ Returned /\ ~Refused
  /\ NextVersion <= MaxVersions
  /\ \E monitors \in (SUBSET Monitors) \ {{}}, toastMonitor \in Monitors \cup {NoMonitor} :
       LET targets == Targets(NextVersion, monitors, toastMonitor) IN
       /\ windows' = targets
       /\ Send(Ask("rebuild", targets, Snapshot(NextVersion, config)))
       /\ published' = Snapshot(NextVersion, config)
  /\ windowPc' = "rebuilding"
  /\ UNCHANGED <<workerVars, toastVars, handler, config, previous, timer, rebuilds, rebuilt, timerLost>>
\* Without a monitor the snapshot cannot be published; a window may not be created.
ReplacementFails ==
  /\ windowPc = "releasing" /\ Returned /\ ~Refused
  /\ NextVersion <= MaxVersions
  /\ \/ windows' = {} /\ UNCHANGED published
     \/ \E monitors \in (SUBSET Monitors) \ {{}}, toastMonitor \in Monitors \cup {NoMonitor} :
          /\ \E made \in SUBSET Targets(NextVersion, monitors, toastMonitor) : windows' = made
          /\ published' = Snapshot(NextVersion, config)
  /\ Throw
  /\ UNCHANGED <<request, requested, completed, refused, ready, failure, job, renderPc, device, decoded,
                 surfaces, recovery, losses, workerVars>>

RebuildDone ==
  /\ windowPc = "rebuilding" /\ Returned /\ ~Refused
  /\ windowPc' = "idle" /\ rebuilt' = TRUE /\ LeaveHandler
  /\ UNCHANGED <<allRenderVars, toastVars, config, windows, timer, rebuilds, timerLost>>
DrawingFails ==
  /\ windowPc = "rebuilding" /\ Returned /\ Refused
  /\ Throw /\ UNCHANGED <<allRenderVars, windows>>

-----------------------------------------------------------------------------
(* The handlers. *)

Apply(c) ==
  /\ windowPc = "idle"
  /\ previous' = config /\ config' = c /\ Rebuild("apply")
  /\ UNCHANGED <<workerVars, toastVars, windows, timer, timerLost>>

DisplayChanged ==
  /\ windowPc = "idle" /\ UNCHANGED config /\ Rebuild("display")
  /\ UNCHANGED <<workerVars, toastVars, previous, windows, timer, timerLost>>

\* schedule_toast_timer: one timer, for as long as a toast is active.
MutTimerAfter == timer
TimerAfter == toast' # {}
Schedule == timer' = TimerAfter /\ timerLost' = FALSE
NoTimer == toast' # {} /\ timer' = FALSE /\ timerLost' = TRUE     \* SetTimer fails

ShowToast(message) ==
  /\ windowPc = "idle" /\ config \notin ToastsOff
  /\ Push(message)
  /\ \/ Schedule /\ UNCHANGED config /\ Rebuild("toast")
     \/ NoTimer /\ rebuilt' = FALSE /\ UNCHANGED <<renderVars, windowPc, handler, config, rebuilds>>
  /\ UNCHANGED <<workerVars, previous, windows>>

\* WM_TIMER may come a little before the toast's time is over.
AdvanceToasts ==
  /\ windowPc = "idle" /\ timer
  /\ Advance
  /\ \/ Schedule /\ UNCHANGED config /\ Rebuild("timer")
     \/ NoTimer /\ windowPc' = "closing" /\ UNCHANGED <<renderVars, handler, config, rebuilds, rebuilt>>
  /\ UNCHANGED <<workerVars, previous, windows>>

Close ==
  /\ windowPc = "idle" /\ windowPc' = "closing"
  /\ UNCHANGED <<allRenderVars, toastVars, handler, config, previous, windows, timer, rebuilds, rebuilt, timerLost>>

-----------------------------------------------------------------------------
(* shutdown: the surfaces, the windows, then the render thread.  When the     *)
(* render thread has failed the windows go without waiting for it.           *)

ReleaseLast ==
  /\ windowPc = "closing" /\ timer' = FALSE
  /\ IF failure
     THEN windowPc' = "stopping" /\ windows' = {} /\ UNCHANGED renderVars
     ELSE /\ Send(Ask("release", {}, Snapshot(0, NoRender))) /\ UNCHANGED published
          /\ windowPc' = "releasingLast" /\ UNCHANGED windows
  /\ UNCHANGED <<workerVars, toastVars, handler, config, previous, rebuilds, rebuilt, timerLost>>
DestroyWindows ==
  /\ windowPc = "releasingLast" /\ Returned
  /\ windows' = {} /\ windowPc' = "stopping"
  /\ UNCHANGED <<allRenderVars, toastVars, handler, config, previous, timer, rebuilds, rebuilt, timerLost>>
StopWorker ==
  /\ windowPc = "stopping" /\ RequestStop /\ windowPc' = "joining"
  /\ UNCHANGED <<renderVars, workerPc, workerFailure, owner, toastVars, handler, config, previous, windows,
                 timer, rebuilds, rebuilt, timerLost>>
JoinWorker ==
  /\ windowPc = "joining" /\ Join /\ windowPc' = "ended"
  /\ UNCHANGED <<renderVars, workerState, workerPc, workerFailure, stopRequested, toastVars, handler, config,
                 previous, windows, timer, rebuilds, rebuilt, timerLost>>

\* The application has ended.
Ended == windowPc = "ended" /\ UNCHANGED vars

WindowStep ==
  \/ Begin \/ FirstRebuild \/ StartFails \/ Prepared \/ PreparationFails \/ Replaced \/ ReplacementFails
  \/ RebuildDone \/ DrawingFails \/ ReleaseLast \/ DestroyWindows \/ StopWorker \/ JoinWorker
RenderNext == RenderStep /\ UNCHANGED <<toastVars, windowVars>>
WorkerNext == (WorkerStep \/ OwnerStep) /\ UNCHANGED <<renderVars, toastVars, windowVars>>
Wake == WakeSpuriously /\ UNCHANGED <<renderVars, toastVars, windowVars>>
Lose == LoseDevice /\ UNCHANGED <<toastVars, windowVars>>
Elapse == TimeIsOver /\ UNCHANGED <<allRenderVars, windowVars>>
Next ==
  \/ WindowStep \/ RenderNext \/ WorkerNext \/ Wake \/ Lose \/ Elapse
  \/ \E c \in RenderConfigs : Apply(c)
  \/ \E message \in Messages : ShowToast(message)
  \/ AdvanceToasts \/ DisplayChanged \/ Close \/ Ended

Spec == Init /\ [][Next]_vars

\* Every thread goes on while it can; time passes, and a timer that is set is
\* served.  Nobody has to wake a thread for no reason.
Fairness ==
  /\ WF_vars(WindowStep) /\ WF_vars(RenderNext)
  /\ WF_vars(OwnerStep /\ UNCHANGED <<renderVars, toastVars, windowVars>>)
  /\ WF_vars(WorkerStep /\ UNCHANGED <<renderVars, toastVars, windowVars>>)
  /\ WF_vars(Elapse) /\ WF_vars(AdvanceToasts)
FairSpec == Spec /\ Fairness

-----------------------------------------------------------------------------
(* What must hold. *)

\* A window is destroyed only after the render thread released its surface,
\* in every order of rebuilds, losses of the device and shutdown.  When the
\* render thread has failed the code does not wait for it (see the README).
SurfacesHaveWindows == ~failure => surfaces \subseteq windows

\* No surface outlives the device it was made with, recovery included.
DeviceOutlivesSurfaces == surfaces # {} => device # "none"

\* The render thread never draws for a snapshot that is no longer the
\* published one, so the exception that would end the Host is never thrown.
RequestMatchesSnapshot == BeginDraw => MatchesSnapshot

\* When rebuild_overlays has returned, what is on the screen is the current
\* configuration and the current toast: every window has a surface, the asset
\* decoded is that of the configuration, and no toast is shown but the active one.
ScreenIsCurrent ==
  windowPc = "idle" /\ rebuilt /\ ~failure =>
    /\ surfaces = windows /\ windows # {}
    /\ published.config = config
    /\ decoded = (IF config \in Assetless THEN NoRender ELSE config)
    /\ {w.shows : w \in windows} \subseteq {0} \cup {t.number : t \in toast}
    /\ config \in ToastsOff => {w.shows : w \in windows} = {0}

\* What holds of every state.
OverlayInv == OverlayTypeOK /\ RequestMatchesSnapshot /\ ScreenIsCurrent

\* The last message of a key is never lost to an older one: until it was shown to
\* its end it is active or waits, whatever preempted or replaced it.
NewestIsKept ==
  \A k \in Keys : newest[k] # 0 =>
    \E m \in toast \cup pending : m.key = k /\ m.number = newest[k]

Waiting == windowPc \in {"preparing", "releasing", "rebuilding", "releasingLast"}
\* The window thread never waits for the render thread for good, also when
\* that has failed.
RequestsReturn == Waiting ~> ~Waiting

\* Shutdown comes to its end: the render thread stops and is joined.
ShutdownEnds == windowPc \in {"closing", "stopping", "joining"} ~> windowPc = "ended"

\* The active toast gives way in the end, unless its timer could not be set,
\* the Host ends, or the bound on rebuilds is reached.
ToastGoes ==
  \A n \in 1..MaxToasts :
    (\E t \in toast : t.number = n) ~>
      \/ \A t \in toast : t.number # n
      \/ timerLost \/ windowPc = "ended" \/ rebuilds = MaxRebuilds

\* start() returns when the worker runs or has failed (host_threads.h:73).
StartReturns == owner = "checking" ~> owner \in {"started", "refused", "joined"}
=============================================================================
