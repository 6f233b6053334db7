--------------------------- MODULE OverlayProofs ----------------------------
(***************************************************************************)
(* What is proved of the overlay windows for any configurations, monitors,   *)
(* keys, priorities and bounds: the toast queue never loses the last message *)
(* of a key to an older one; a window is destroyed only when its surface is  *)
(* released, no surface outlives its device, the render thread never meets a *)
(* snapshot other than the one it was asked to draw, and after every rebuild *)
(* the screen shows the current configuration and toast.                     *)
(*                                                                         *)
(* NewestIsKept is not inductive: replacing a pending message of the same    *)
(* key is harmless only because what is pending is older than what is        *)
(* active, and because no two pending messages share a key.                  *)
(* Nor is ScreenIsCurrent: ScreenInv says what the windows and the render    *)
(* thread have got to at each place of a rebuild.                            *)
(***************************************************************************)
EXTENDS OverlayWindows, TLAPS

Kept == toast \cup pending

ToastInv ==
  /\ arrived \in Nat
  /\ newest \in [Keys -> Nat]
  /\ Kept \subseteq Messages
  /\ \A k \in Keys : newest[k] <= arrived
  /\ \A m \in Kept : m.number <= arrived
  /\ \A m \in Kept : newest[m.key] # 0 => m.number <= newest[m.key]
  /\ \A t, u \in toast : t = u
  /\ \A p, q \in pending : p.key = q.key => p = q
  /\ \A t \in toast, p \in pending : p.key = t.key => p.number < t.number
  /\ NewestIsKept

LEMMA ToastInitially == Init => ToastInv
  BY ToastAssumption DEF Init, ToastInit, ToastInv, Kept, NewestIsKept, Messages

\* Every action of the window thread, the render thread and their environment
\* leaves the queue alone or is one of its three operations.
LEMMA QueueSteps ==
  ASSUME [Next]_vars
  PROVE  \/ \E message \in Messages : Push(message)
         \/ Advance \/ TimeIsOver \/ UNCHANGED toastVars
<1>1. CASE WindowStep
  BY <1>1 DEF WindowStep, Begin, FirstRebuild, StartFails, Prepared, PreparationFails, Replaced, ReplacementFails,
     RebuildDone, DrawingFails, ReleaseLast, DestroyWindows, StopWorker, JoinWorker, Throw, toastVars
<1>2. CASE RenderNext \/ WorkerNext \/ Wake \/ Lose
  BY <1>2 DEF RenderNext, WorkerNext, Wake, Lose, toastVars
<1>3. CASE Elapse
  BY <1>3 DEF Elapse
<1>4. CASE (\E c \in RenderConfigs : Apply(c)) \/ DisplayChanged \/ Close
  BY <1>4 DEF Apply, DisplayChanged, Close, toastVars
<1>5. CASE \E message \in Messages : ShowToast(message)
  BY <1>5 DEF ShowToast
<1>6. CASE AdvanceToasts
  BY <1>6 DEF AdvanceToasts
<1>7. CASE Ended \/ UNCHANGED vars
  BY <1>7 DEF Ended, vars, toastVars
<1> QED BY <1>1, <1>2, <1>3, <1>4, <1>5, <1>6, <1>7 DEF Next

LEMMA PushKeeps ==
  ASSUME ToastInv, NEW message \in Messages, Push(message)
  PROVE  ToastInv'
<1>1. message.number = arrived + 1 /\ arrived' = arrived + 1 /\ message.key \in Keys /\ message.number \in Nat
  BY DEF Push, Messages, ToastInv
<1>2. newest' = [newest EXCEPT ![message.key] = arrived + 1]
  BY DEF Push
<1>3. \A m \in Kept : m.number < message.number
  BY <1>1, ToastAssumption DEF ToastInv, Messages
<1>4. CASE ShowNow(message)
  <2>1. toast' = {message}
    BY <1>4 DEF ShowNow, Activate
  <2>2. CASE SameKey(message)
    <3>1. pending' = pending
      BY <1>4, <2>2 DEF ShowNow, Preempted
    <3>2. PICK shown \in toast : shown.key = message.key
      BY <2>2 DEF SameKey
    <3>3. toast = {shown}
      BY <3>2 DEF ToastInv
    <3> QED BY <1>1, <1>2, <1>3, <2>1, <3>1, <3>2, <3>3 DEF ToastInv, Kept, NewestIsKept, Messages
  <2>3. CASE ~SameKey(message)
    <3>1. pending' = Others(pending, toast) \cup toast
      BY <1>4, <2>3 DEF ShowNow, Preempted, Queued
    <3>2. pending' \subseteq Kept
      BY <3>1 DEF Others, Kept
    <3>3. \A p, q \in pending' : p.key = q.key => p = q
      BY <3>1 DEF Others, ToastInv
    <3>4. \A k \in Keys \ {message.key} : newest[k] # 0 =>
             \E m \in pending' : m.key = k /\ m.number = newest[k]
      <4>1. SUFFICES ASSUME NEW k \in Keys \ {message.key}, newest[k] # 0
                     PROVE  \E m \in pending' : m.key = k /\ m.number = newest[k]
        OBVIOUS
      <4>2. PICK m \in Kept : m.key = k /\ m.number = newest[k]
        BY <4>1 DEF ToastInv, NewestIsKept, Kept
      <4>3. CASE m \in toast
        BY <4>2, <4>3, <3>1
      <4>4. CASE m \in pending
        <5>1. \A t \in toast : t.key = m.key => FALSE
          <6>1. SUFFICES ASSUME NEW t \in toast, t.key = m.key
                         PROVE  FALSE
            OBVIOUS
          <6>2. m.number < t.number /\ t.number <= newest[t.key]
            BY <6>1, <4>1, <4>2, <4>4 DEF ToastInv, Kept
          <6>3. t.number \in Nat /\ m.number \in Nat /\ newest[k] \in Nat
            BY <4>4, ToastAssumption DEF ToastInv, Kept, Messages
          <6> QED BY <4>2, <6>1, <6>2, <6>3
        <5> QED BY <4>2, <4>4, <5>1, <3>1 DEF Others
      <4> QED BY <4>2, <4>3, <4>4 DEF Kept
    <3> QED BY <1>1, <1>2, <1>3, <2>1, <3>2, <3>3, <3>4 DEF ToastInv, Kept, NewestIsKept, Messages
  <2> QED BY <2>2, <2>3
<1>5. CASE ShowLater(message)
  <2>1. pending' = Others(pending, {message}) \cup {message} /\ toast' = toast
    BY <1>5 DEF ShowLater, Queued
  <2>2. \A t \in toast : t.key # message.key
    BY <1>5, <1>1 DEF ShowLater, Preempts, ToastInv
  <2>3. \A p, q \in pending' : p.key = q.key => p = q
    BY <2>1 DEF Others, ToastInv
  <2>4. \A t \in toast', p \in pending' : p.key = t.key => p.number < t.number
    BY <2>1, <2>2 DEF Others, ToastInv
  <2>5. Kept' \subseteq Kept \cup {message}
    BY <2>1 DEF Others, Kept
  <2>6. \A k \in Keys \ {message.key} : newest[k] # 0 =>
             \E m \in Kept' : m.key = k /\ m.number = newest[k]
    <3>1. SUFFICES ASSUME NEW k \in Keys \ {message.key}, newest[k] # 0
                   PROVE  \E m \in Kept' : m.key = k /\ m.number = newest[k]
      OBVIOUS
    <3>2. PICK m \in Kept : m.key = k /\ m.number = newest[k]
      BY <3>1 DEF ToastInv, NewestIsKept, Kept
    <3>3. m \in Kept'
      BY <2>1, <3>1, <3>2 DEF Kept, Others
    <3> QED BY <3>2, <3>3
  <2>7. \A k \in Keys : newest'[k] # 0 => \E m \in Kept' : m.key = k /\ m.number = newest'[k]
    BY <1>1, <1>2, <2>1, <2>6 DEF ToastInv, Kept
  <2>8. newest' \in [Keys -> Nat] /\ (\A k \in Keys : newest'[k] <= arrived') /\ arrived' \in Nat
    BY <1>1, <1>2 DEF ToastInv
  <2>9. \A m \in Kept' : m \in Messages /\ m.number <= arrived'
    BY <1>1, <1>3, <2>5, ToastAssumption DEF ToastInv, Messages
  <2>10. \A m \in Kept' : newest'[m.key] # 0 => m.number <= newest'[m.key]
    <3>1. SUFFICES ASSUME NEW m \in Kept', newest'[m.key] # 0 PROVE m.number <= newest'[m.key]
      OBVIOUS
    <3>2. CASE m.key = message.key
      BY <1>1, <1>2, <2>9, <3>1, <3>2 DEF ToastInv
    <3>3. CASE m.key # message.key
      BY <1>1, <1>2, <2>5, <3>1, <3>3 DEF ToastInv
    <3> QED BY <3>2, <3>3
  <2> QED BY <2>1, <2>3, <2>4, <2>7, <2>8, <2>9, <2>10 DEF ToastInv, Kept, NewestIsKept
<1> QED BY <1>4, <1>5 DEF Push

LEMMA AdvanceKeeps ==
  ASSUME ToastInv, Advance
  PROVE  ToastInv'
<1>1. arrived' = arrived
  BY DEF Advance
<1>2. CASE UNCHANGED <<toast, pending, newest>>
  BY <1>1, <1>2 DEF ToastInv, Kept, NewestIsKept
<1>3. CASE Shown /\ (NoneLeft \/ \E message \in pending : Follow(message))
  <2>1. newest' \in [Keys -> Nat] /\ \A k \in Keys : newest'[k] \in {0, newest[k]}
    BY <1>3 DEF Shown, ToastInv
  <2>2. toast' \subseteq pending /\ pending' = pending \ toast' /\ \A t, u \in toast' : t = u
    BY <1>3 DEF NoneLeft, Follow, Activate
  <2>3. pending = Kept'
    BY <2>2 DEF Kept
  <2>4. \A k \in Keys : newest'[k] # 0 => \E m \in pending : m.key = k /\ m.number = newest'[k]
    <3>1. SUFFICES ASSUME NEW k \in Keys, newest'[k] # 0
                   PROVE  \E m \in pending : m.key = k /\ m.number = newest'[k]
      OBVIOUS
    <3>2. newest'[k] = newest[k] /\ \A shown \in toast : shown.number # newest[k]
      BY <1>3, <3>1 DEF Shown
    <3> QED BY <3>1, <3>2 DEF ToastInv, NewestIsKept
  <2>5. \A t \in toast', p \in pending' : p.key # t.key
    BY <2>2 DEF ToastInv
  <2>6. \A m \in pending : newest'[m.key] # 0 => m.number <= newest'[m.key]
    BY <2>1 DEF ToastInv, Kept, Messages
  <2>7. \A k \in Keys : newest'[k] <= arrived'
    BY <1>1, <2>1 DEF ToastInv
  <2> QED BY <1>1, <2>1, <2>2, <2>3, <2>4, <2>5, <2>6, <2>7 DEF ToastInv, Kept, NewestIsKept
<1> QED BY <1>2, <1>3 DEF Advance

\* The queue keeps its order by age within a key in every reachable state.
THEOREM ToastsStayOrdered == Spec => []ToastInv
<1>1. ToastInv /\ [Next]_vars => ToastInv'
  <2>1. SUFFICES ASSUME ToastInv, [Next]_vars PROVE ToastInv'
    OBVIOUS
  <2>2. CASE \E message \in Messages : Push(message)
    BY <2>1, <2>2, PushKeeps
  <2>3. CASE Advance
    BY <2>1, <2>3, AdvanceKeeps
  <2>4. CASE TimeIsOver \/ UNCHANGED toastVars
    BY <2>1, <2>4 DEF TimeIsOver, toastVars, ToastInv, Kept, NewestIsKept
  <2> QED BY <2>1, <2>2, <2>3, <2>4, QueueSteps
<1> QED BY ToastInitially, <1>1, PTL DEF Spec

\* The last message of a key is active or waits until it was shown to its end
\* (push, advance and enqueue_or_replace of render_state.cpp).
THEOREM NewestStaysKept == Spec => []NewestIsKept
<1>1. ToastInv => NewestIsKept
  BY DEF ToastInv
<1> QED BY <1>1, ToastsStayOrdered, PTL

-----------------------------------------------------------------------------
(* The window thread and the render thread.  As long as the render thread    *)
(* lives, at most one request is under way, the window thread waits for it,  *)
(* and what the render thread serves is that request.  This is what makes    *)
(* the surfaces, the windows and the snapshot agree although each is changed *)
(* by one thread only.                                                       *)

UnderWay == requested = completed + 1
Serving == renderPc \in {"serving", "releasing", "recovering", "completing"}

Handshake ==
  /\ requested = completed \/ UnderWay
  /\ UnderWay => Waiting
  /\ Serving => UnderWay /\ job = request
  /\ renderPc \in {"releasing", "recovering"} => job.kind = "rebuild"
  /\ renderPc # "cleaning"
  /\ request.generation = requested
RightRequest ==
  /\ windowPc = "preparing" => request.kind = "prepare"
  /\ windowPc \in {"releasing", "releasingLast"} => request.kind = "release"
  /\ windowPc = "rebuilding" =>
       request.kind = "rebuild" /\ request.targets = windows /\ request.version = published.version
SurfacesRight ==
  /\ surfaces \subseteq windows
  /\ windowPc \in {"starting", "awaiting", "stopping", "joining", "ended"} => surfaces = {}
  /\ windowPc \in {"releasing", "releasingLast"} /\ (~UnderWay \/ renderPc = "completing") => surfaces = {}
DeviceRight ==
  /\ renderPc = "starting" => surfaces = {}
  /\ windowPc = "starting" => workerPc = "none"
  /\ workerPc \in {"none", "entering", "announcing"} => renderPc = "starting"
  /\ Running /\ renderPc \notin {"starting", "recovering"} => device # "none"

RenderInv ==
  /\ requested \in Nat /\ completed \in Nat /\ failure \in BOOLEAN
  /\ failure => renderPc = "cleaning"
  /\ ~failure => Handshake /\ RightRequest /\ SurfacesRight /\ DeviceRight
  /\ DeviceOutlivesSurfaces

LEMMA RenderInitially == Init => RenderInv
<1> SUFFICES ASSUME Init PROVE RenderInv
  OBVIOUS
<1>1. requested = 0 /\ completed = 0 /\ renderPc = "starting" /\ windowPc = "starting" /\ surfaces = {} /\ ~failure
      /\ workerPc = "none" /\ failure \in BOOLEAN
  BY DEF Init, RenderInit, WorkerInit
<1>2. request.generation = 0
  BY DEF Init, RenderInit, NoRequest
<1> QED BY <1>1, <1>2 DEF RenderInv, Handshake, RightRequest, SurfacesRight, DeviceRight, UnderWay,
     Serving, Waiting, Running, DeviceOutlivesSurfaces

\* Steps of the window thread.
LEMMA WindowKeeps ==
  ASSUME RenderInv, WindowStep
  PROVE  RenderInv'
<1> USE DEF RenderInv, Handshake, RightRequest, SurfacesRight, DeviceRight, UnderWay, Serving, Waiting, Running,
            DeviceOutlivesSurfaces
<1>1. CASE Begin
  BY <1>1 DEF Begin, StartWorker, renderVars
<1>2. CASE FirstRebuild
  BY <1>2 DEF FirstRebuild, Rebuild, Send, Ask, Snapshot, workerVars
<1>3. CASE StartFails
  BY <1>3 DEF StartFails, allRenderVars, renderVars, workerVars
<1>4. CASE Prepared
  BY <1>4 DEF Prepared, Send, Ask, Snapshot, Returned, Refused, workerVars
<1>5. CASE PreparationFails \/ DrawingFails
  BY <1>5 DEF PreparationFails, DrawingFails, Throw, LeaveHandler, Returned, Refused, allRenderVars, renderVars, workerVars
<1>6. CASE Replaced
  BY <1>6 DEF Replaced, Send, Ask, Snapshot, Returned, Refused, workerVars
<1>7. CASE ReplacementFails
  BY <1>7 DEF ReplacementFails, Throw, LeaveHandler, Returned, Refused, workerVars
<1>8. CASE RebuildDone
  BY <1>8 DEF RebuildDone, Returned, Refused, allRenderVars, renderVars, workerVars
<1>9. CASE ReleaseLast
  BY <1>9 DEF ReleaseLast, Send, Ask, Snapshot, renderVars, workerVars
<1>10. CASE DestroyWindows
  BY <1>10 DEF DestroyWindows, Returned, allRenderVars, renderVars, workerVars
<1>11. CASE StopWorker \/ JoinWorker
  BY <1>11 DEF StopWorker, JoinWorker, RequestStop, Join, renderVars
<1> QED BY <1>1, <1>2, <1>3, <1>4, <1>5, <1>6, <1>7, <1>8, <1>9, <1>10, <1>11 DEF WindowStep

\* Steps of the render thread.
LEMMA RenderKeeps ==
  ASSUME RenderInv, RenderNext
  PROVE  RenderInv'
<1> USE DEF RenderInv, Handshake, RightRequest, SurfacesRight, DeviceRight, UnderWay, Serving, Waiting, Running,
            DeviceOutlivesSurfaces
<1>0. UNCHANGED <<windowPc, windows>>
  BY DEF RenderNext, windowVars
<1>1. CASE StartRendering
  <2>1. renderPc = "starting" /\ ~failure /\ surfaces = {} /\ surfaces' = {}
    BY <1>1 DEF StartRendering
  <2>2. CASE Dies
    BY <1>0, <1>1, <2>1, <2>2 DEF StartRendering, Dies
  <2>3. CASE renderPc' = "waiting"
    <3>0. workerPc = "body"
      BY <1>1 DEF StartRendering
    <3>1. /\ device' = "ready"
          /\ UNCHANGED <<request, requested, completed, failure, job, published, workerPc>>
      BY <1>1, <2>3 DEF StartRendering, Dies, workerVars
    <3> QED BY <1>0, <2>1, <2>3, <3>0, <3>1
  <2> QED BY <1>1, <2>2, <2>3 DEF StartRendering
<1>2. CASE TakeRequest
  BY <1>0, <1>2 DEF TakeRequest, workerVars
<1>3. CASE Prepare \/ Release
  BY <1>0, <1>3 DEF Prepare, Release, Served, workerVars
<1>4. CASE Draw
  BY <1>0, <1>4 DEF Draw, BeginDraw, Served, workerVars
<1>5. CASE DrawFails \/ MismatchedSnapshot
  BY <1>0, <1>5 DEF DrawFails, MismatchedSnapshot, BeginDraw, Dies, workerVars
<1>6. CASE FindLost
  BY <1>0, <1>6 DEF FindLost, BeginDraw, workerVars
<1>7. CASE ReleaseLost
  BY <1>0, <1>7 DEF ReleaseLost, ReleasedFirst, workerVars
<1>8. CASE Recreate
  BY <1>0, <1>8 DEF Recreate, Served, workerVars
<1>9. CASE RecoveryFails
  BY <1>0, <1>9 DEF RecoveryFails, Dies, workerVars
<1>10. CASE Complete
  BY <1>0, <1>10 DEF Complete, workerVars
<1>11. CASE StopRendering \/ CleanUp
  BY <1>0, <1>11 DEF StopRendering, CleanUp
<1> QED
  BY <1>1, <1>2, <1>3, <1>4, <1>5, <1>6, <1>7, <1>8, <1>9, <1>10, <1>11 DEF RenderNext, RenderStep

\* Handlers that begin on the window thread, and steps of the environment.
LEMMA HandlersKeep ==
  ASSUME RenderInv,
         \/ \E c \in RenderConfigs : Apply(c)
         \/ \E message \in Messages : ShowToast(message)
         \/ AdvanceToasts \/ DisplayChanged \/ Close
  PROVE  RenderInv'
<1> USE DEF RenderInv, Handshake, RightRequest, SurfacesRight, DeviceRight, UnderWay, Serving, Waiting, Running,
            DeviceOutlivesSurfaces
<1>1. CASE \E c \in RenderConfigs : Apply(c)
  BY <1>1 DEF Apply, Rebuild, Send, Ask, Snapshot, renderVars, workerVars
<1>2. CASE \E message \in Messages : ShowToast(message)
  BY <1>2 DEF ShowToast, NoTimer, Rebuild, Send, Ask, Snapshot, renderVars, workerVars
<1>3. CASE AdvanceToasts
  BY <1>3 DEF AdvanceToasts, NoTimer, Rebuild, Send, Ask, Snapshot, renderVars, workerVars
<1>4. CASE DisplayChanged \/ Close
  BY <1>4 DEF DisplayChanged, Close, Rebuild, Send, Ask, Snapshot, allRenderVars, renderVars, workerVars
<1> QED BY <1>1, <1>2, <1>3, <1>4

LEMMA OthersKeep ==
  ASSUME RenderInv, WorkerNext \/ Wake \/ Lose \/ Elapse \/ Ended \/ UNCHANGED vars
  PROVE  RenderInv'
<1> USE DEF RenderInv, Handshake, RightRequest, SurfacesRight, DeviceRight, UnderWay, Serving, Waiting, Running,
            DeviceOutlivesSurfaces
<1>1. CASE WorkerNext \/ Wake
  <2>1. UNCHANGED <<renderVars, windowVars>>
    BY <1>1 DEF WorkerNext, Wake
  <2>2. /\ workerPc' = "body" => workerPc = "body" \/ workerPc = "announcing"
        /\ workerPc' \in {"none", "entering", "announcing"} => workerPc \in {"none", "entering", "announcing"}
        /\ workerPc = "none" => workerPc' = "none"
    BY <1>1 DEF WorkerNext, Wake, WakeSpuriously, WorkerStep, OwnerStep, CheckStarted, FallAsleep, LeaveStart,
       EnterWorker, AnnounceRunning, WorkerReturned, KeepFailure, WorkerFailed, AnnounceEnd
  <2> QED BY <2>1, <2>2 DEF renderVars, windowVars
<1>2. CASE Lose
  BY <1>2 DEF Lose, LoseDevice, windowVars, workerVars
<1>3. CASE Elapse \/ Ended \/ UNCHANGED vars
  BY <1>3 DEF Elapse, Ended, vars, allRenderVars, renderVars, workerVars, windowVars
<1> QED BY <1>1, <1>2, <1>3

\* The two threads stay in step, whatever is lost, fails or is closed.
THEOREM RenderStaysInStep == Spec => []RenderInv
<1>1. RenderInv /\ [Next]_vars => RenderInv'
  BY WindowKeeps, RenderKeeps, HandlersKeep, OthersKeep DEF Next
<1> QED BY RenderInitially, <1>1, PTL DEF Spec

\* While the render thread lives, a window is destroyed only after its surface
\* was released (rebuild_overlays and shutdown).
THEOREM WindowsOutliveSurfaces == Spec => []SurfacesHaveWindows
<1>1. RenderInv => SurfacesHaveWindows
  BY DEF RenderInv, SurfacesRight, SurfacesHaveWindows
<1> QED BY <1>1, RenderStaysInStep, PTL

\* No surface outlives the device it was made with (rebuild_targets and the end
\* of the render thread).
THEOREM DeviceStaysForSurfaces == Spec => []DeviceOutlivesSurfaces
<1>1. RenderInv => DeviceOutlivesSurfaces
  BY DEF RenderInv
<1> QED BY <1>1, RenderStaysInStep, PTL

\* The render thread draws for the published snapshot only: "Render request does
\* not match the published Host snapshot" is never thrown.
THEOREM RequestsStayMatched == Spec => []RequestMatchesSnapshot
<1>1. RenderInv => RequestMatchesSnapshot
  BY DEF RenderInv, Handshake, RightRequest, UnderWay, Waiting, Serving, RequestMatchesSnapshot, BeginDraw,
     MatchesSnapshot, Running
<1> QED BY <1>1, RenderStaysInStep, PTL
-----------------------------------------------------------------------------
(* Types.  What apply_snapshot goes back to after a failure is a             *)
(* configuration, because only its own rebuild reads it.                     *)

Types == OverlayTypeOK /\ (handler = "apply" => previous \in RenderConfigs)

\* The parts of the state a step of one thread leaves alone.
WindowTypes ==
  /\ windowPc \in {"starting", "awaiting", "idle", "preparing", "releasing", "rebuilding",
                   "closing", "releasingLast", "stopping", "joining", "ended"}
  /\ handler \in {"none", "start", "apply", "toast", "timer", "display"}
  /\ config \in RenderConfigs /\ previous \in RenderConfigs \cup {NoRender}
  /\ windows \subseteq HostWindows
  /\ timer \in BOOLEAN /\ rebuilt \in BOOLEAN /\ timerLost \in BOOLEAN /\ rebuilds \in 0..MaxRebuilds
  /\ handler = "apply" => previous \in RenderConfigs
JobTypes(r, sent) ==
  /\ r.kind \in {"none", "prepare", "release", "rebuild"} /\ r.targets \subseteq HostWindows
  /\ r.version \in 0..MaxVersions /\ r.config \in RenderConfigs \cup {NoRender}
  /\ r.generation \in 0..sent
RenderTypes ==
  /\ requested \in Nat /\ completed \in 0..requested
  /\ {refused, ready, failure} \subseteq BOOLEAN
  /\ renderPc \in {"starting", "waiting", "serving", "releasing", "recovering", "completing", "cleaning"}
  /\ device \in {"none", "ready", "lost"}
  /\ decoded \in RenderConfigs \cup {NoRender}
  /\ surfaces \subseteq HostWindows
  /\ recovery \in {"cold", "ready", "releasing", "recreating", "failed"}
  /\ published \in [version : 0..MaxVersions, config : RenderConfigs \cup {NoRender}]
  /\ losses \in 0..MaxLosses
  /\ JobTypes(request, requested) /\ JobTypes(job, requested)

LEMMA TypesAreParts == Types <=> WorkerTypeOK /\ RenderTypes /\ ToastTypeOK /\ WindowTypes
<1>1. RenderTypeOK <=> WorkerTypeOK /\ RenderTypes
  <2>1. (\A r \in {request, job} : JobTypes(r, requested)) <=> JobTypes(request, requested) /\ JobTypes(job, requested)
    OBVIOUS
  <2> QED BY <2>1 DEF RenderTypeOK, RenderTypes, JobTypes
<1> QED BY <1>1 DEF Types, OverlayTypeOK, WindowTypes

LEMMA TypesInitially == Init => Types
<1>1. Init => WorkerTypeOK
  BY DEF Init, RenderInit, WorkerInit, WorkerTypeOK
<1>2. Init => RenderTypes
  <2> SUFFICES ASSUME Init PROVE RenderTypes
    OBVIOUS
  <2>1. JobTypes(NoRequest, 0)
    BY RenderAssumption DEF JobTypes, NoRequest
  <2>2. published \in [version : 0..MaxVersions, config : RenderConfigs \cup {NoRender}]
    BY RenderAssumption DEF Init, RenderInit, Snapshot
  <2>3. 0 \in 0..MaxVersions /\ 0 \in 0..MaxLosses /\ 0 \in 0..0 /\ {} \subseteq HostWindows
    BY RenderAssumption
  <2>4. requested = 0 /\ completed = 0 /\ request = NoRequest /\ job = NoRequest /\ losses = 0
    BY DEF Init, RenderInit
  <2>5. JobTypes(request, requested) /\ JobTypes(job, requested)
    BY <2>1, <2>4
  <2>6. {refused, ready, failure} \subseteq BOOLEAN
    BY DEF Init, RenderInit
  <2> QED BY <2>2, <2>3, <2>4, <2>5, <2>6 DEF Init, RenderInit, RenderTypes
<1>3. Init => ToastTypeOK
  <2> SUFFICES ASSUME Init PROVE ToastTypeOK
    OBVIOUS
  <2>1. 0 \in 0..MaxToasts
    BY ToastAssumption
  <2> QED BY <2>1 DEF Init, ToastInit, ToastTypeOK
<1>4. Init => WindowTypes
  <2> SUFFICES ASSUME Init PROVE WindowTypes
    OBVIOUS
  <2>1. Default \in RenderConfigs /\ 0 \in 0..MaxRebuilds
    BY OverlayAssumption, RenderAssumption
  <2> QED BY <2>1 DEF Init, WindowTypes
<1> QED BY <1>1, <1>2, <1>3, <1>4, TypesAreParts

LEMMA WorkerKeepsTypes ==
  ASSUME WorkerTypeOK, [Next]_vars
  PROVE  WorkerTypeOK'
<1> USE DEF WorkerTypeOK
<1>1. CASE UNCHANGED workerVars
  BY <1>1 DEF workerVars
<1>2. CASE WorkerStep \/ OwnerStep \/ WakeSpuriously
  BY <1>2 DEF WorkerStep, OwnerStep, WakeSpuriously, CheckStarted, FallAsleep, LeaveStart, EnterWorker,
     AnnounceRunning, WorkerReturned, KeepFailure, WorkerFailed, AnnounceEnd, Woken
<1>3. CASE Begin \/ StopWorker \/ JoinWorker
  BY <1>3 DEF Begin, StopWorker, JoinWorker, StartWorker, RequestStop, Asked, Join
<1>4. CASE StopRendering \/ CleanUp
  BY <1>4 DEF StopRendering, CleanUp
<1>5. [Next]_vars => \/ UNCHANGED workerVars \/ WorkerStep \/ OwnerStep \/ WakeSpuriously
                     \/ Begin \/ StopWorker \/ JoinWorker \/ StopRendering \/ CleanUp
  <2>1. CASE WindowStep
    BY <2>1 DEF WindowStep, FirstRebuild, StartFails, Prepared, PreparationFails, Replaced, ReplacementFails,
       RebuildDone, DrawingFails, ReleaseLast, DestroyWindows, allRenderVars
  <2>2. CASE RenderNext
    BY <2>2 DEF RenderNext, RenderStep, StartRendering, TakeRequest, Prepare, Release, Draw, DrawFails, FindLost,
       ReleaseLost, Recreate, RecoveryFails, MismatchedSnapshot, Complete, Served, Dies
  <2>3. CASE WorkerNext \/ Wake \/ Lose \/ Elapse
    BY <2>3 DEF WorkerNext, Wake, Lose, LoseDevice, Elapse, allRenderVars
  <2>4. CASE (\E c \in RenderConfigs : Apply(c)) \/ (\E message \in Messages : ShowToast(message))
    BY <2>4 DEF Apply, ShowToast
  <2>5. CASE AdvanceToasts \/ DisplayChanged \/ Close
    BY <2>5 DEF AdvanceToasts, DisplayChanged, Close, allRenderVars
  <2>6. CASE Ended \/ UNCHANGED vars
    BY <2>6 DEF Ended, vars, allRenderVars
  <2> QED BY <2>1, <2>2, <2>3, <2>4, <2>5, <2>6 DEF Next
<1> QED BY <1>1, <1>2, <1>3, <1>4, <1>5

LEMMA QueueKeepsTypes ==
  ASSUME ToastTypeOK, [Next]_vars
  PROVE  ToastTypeOK'
<1> USE ToastAssumption DEF ToastTypeOK
<1>1. CASE \E message \in Messages : Push(message)
  <2>1. PICK message \in Messages : Push(message)
    BY <1>1
  <2>2. arrived' = message.number /\ message.number \in 1..MaxToasts /\ message.key \in Keys
    BY <2>1 DEF Push, Messages
  <2>3. newest' \in [Keys -> 0..MaxToasts]
    BY <2>1, <2>2 DEF Push
  <2>4. toast' \subseteq Messages /\ (\A one, other \in toast' : one = other) /\ pending' \subseteq Messages
        /\ over' \in BOOLEAN
    BY <2>1 DEF Push, ShowNow, ShowLater, Activate, Preempted, Queued, Others
  <2> QED BY <2>2, <2>3, <2>4
<1>2. CASE Advance
  <2>1. newest' \in [Keys -> 0..MaxToasts]
    BY <1>2 DEF Advance, Shown
  <2> QED BY <1>2, <2>1 DEF Advance, NoneLeft, Follow, Activate
<1>3. CASE TimeIsOver \/ UNCHANGED toastVars
  BY <1>3 DEF TimeIsOver, toastVars
<1> QED BY <1>1, <1>2, <1>3, QueueSteps

\* A request keeps the types, with the snapshot it may publish.
LEMMA SendKeepsTypes ==
  ASSUME RenderTypes,
         NEW kind \in {"prepare", "release", "rebuild"}, NEW targets \in SUBSET HostWindows,
         NEW version \in 0..MaxVersions, NEW c \in RenderConfigs \cup {NoRender},
         Send(Ask(kind, targets, Snapshot(version, c))),
         published' \in [version : 0..MaxVersions, config : RenderConfigs \cup {NoRender}]
  PROVE  RenderTypes'
<1>1. requested' = requested + 1 /\ requested' \in Nat /\ completed' \in 0..requested'
  BY DEF Send, RenderTypes
<1>2. request' = [kind |-> kind, targets |-> targets, version |-> version, config |-> c,
                  generation |-> requested + 1]
  BY DEF Send, Ask, Snapshot
<1>3. JobTypes(request', requested')
  BY <1>1, <1>2 DEF JobTypes, RenderTypes
<1>4. JobTypes(job, requested) => JobTypes(job, requested')
  BY <1>1 DEF JobTypes, RenderTypes
<1>5. UNCHANGED <<refused, ready, failure, job, renderPc, device, decoded, surfaces, recovery, losses>>
  BY DEF Send
<1> QED BY <1>1, <1>3, <1>4, <1>5 DEF RenderTypes

\* The windows of a rebuild are windows of the Host.
LEMMA TargetsAreWindows ==
  ASSUME ToastTypeOK, NEW version \in 1..MaxVersions, NEW monitors \in SUBSET Monitors, NEW toastMonitor
  PROVE  Targets(version, monitors, toastMonitor) \subseteq HostWindows
<1>1. {t.number : t \in ShownToasts} \subseteq 0..MaxToastNumber
  BY OverlayAssumption, RenderAssumption, ToastAssumption DEF ShownToasts, ToastTypeOK, Messages
<1>2. 0 \in 0..MaxToastNumber
  BY RenderAssumption
<1> QED BY <1>1, <1>2 DEF Targets, HostWindows

\* A configuration is prepared under its own name.
LEMMA DecodedTyped ==
  ASSUME RenderTypes, NEW c \in RenderConfigs \cup {NoRender}
  PROVE  Decoded(c) \in RenderConfigs \cup {NoRender}
  BY DEF Decoded, RenderTypes

LEMMA RenderKeepsTypes ==
  ASSUME RenderTypes, RenderStep \/ LoseDevice
  PROVE  RenderTypes'
<1>1. job.config \in RenderConfigs \cup {NoRender} /\ job.targets \subseteq HostWindows
      /\ job.generation \in 0..requested /\ published.config \in RenderConfigs \cup {NoRender}
  BY DEF RenderTypes, JobTypes
<1>2. CASE StartRendering
  BY <1>2 DEF StartRendering, Dies, RenderTypes
<1>3. CASE TakeRequest
  BY <1>3 DEF TakeRequest, RenderTypes
<1>4. CASE Prepare \/ Release
  BY <1>1, <1>4, DecodedTyped DEF Prepare, Release, Served, RenderTypes
<1>5. CASE Draw
  BY <1>1, <1>5, DecodedTyped DEF Draw, Served, RenderTypes
<1>6. CASE DrawFails \/ MismatchedSnapshot \/ FindLost
  BY <1>1, <1>6 DEF DrawFails, MismatchedSnapshot, FindLost, Dies, RenderTypes
<1>7. CASE ReleaseLost
  BY <1>7 DEF ReleaseLost, ReleasedFirst, RenderTypes
<1>8. CASE Recreate
  BY <1>1, <1>8, DecodedTyped DEF Recreate, Served, RenderTypes
<1>9. CASE RecoveryFails
  BY <1>1, <1>9 DEF RecoveryFails, Dies, RenderTypes
<1>10. CASE Complete
  <2>1. JobTypes(NoRequest, requested)
    BY RenderAssumption DEF JobTypes, NoRequest, RenderTypes
  <2> QED BY <1>1, <1>10, <2>1 DEF Complete, RenderTypes
<1>11. CASE StopRendering \/ CleanUp
  BY <1>11 DEF StopRendering, CleanUp, RenderTypes
<1>12. CASE LoseDevice
  BY <1>12, RenderAssumption DEF LoseDevice, RenderTypes
<1> QED BY <1>2, <1>3, <1>4, <1>5, <1>6, <1>7, <1>8, <1>9, <1>10, <1>11, <1>12 DEF RenderStep

\* rebuild_overlays keeps the types, whatever called it.
LEMMA RebuildKeepsTypes ==
  ASSUME RenderTypes, NEW by \in {"start", "apply", "toast", "timer", "display"}, Rebuild(by),
         config' \in RenderConfigs, rebuilds \in 0..MaxRebuilds
  PROVE  /\ RenderTypes'
         /\ rebuilds' \in 0..MaxRebuilds /\ handler' = by /\ rebuilt' = FALSE /\ windowPc' = "preparing"
<1>1. rebuilds' \in 0..MaxRebuilds
  BY OverlayAssumption DEF Rebuild
<1>2. ASSUME failure PROVE RenderTypes'
  <2>1. UNCHANGED renderVars
    BY <1>2 DEF Rebuild
  <2> QED BY <2>1 DEF renderVars, RenderTypes, JobTypes
<1>3. ASSUME ~failure PROVE RenderTypes'
  <2>1. PICK c \in RenderConfigs : c = config'
    OBVIOUS
  <2>2. {} \in SUBSET HostWindows /\ 0 \in 0..MaxVersions /\ Send(Ask("prepare", {}, Snapshot(0, c)))
    BY <1>3, <2>1, RenderAssumption DEF Rebuild
  <2>3. published' \in [version : 0..MaxVersions, config : RenderConfigs \cup {NoRender}]
    BY <1>3 DEF Rebuild, RenderTypes
  <2> QED BY <2>2, <2>3, SendKeepsTypes
<1> QED BY <1>1, <1>2, <1>3 DEF Rebuild

\* No step takes a variable out of its type.
LEMMA StepKeepsTypes ==
  ASSUME Types, [Next]_vars
  PROVE  Types'
<1>1. WorkerTypeOK /\ RenderTypes /\ ToastTypeOK /\ WindowTypes
  BY TypesAreParts
<1>2. WorkerTypeOK' /\ ToastTypeOK'
  BY <1>1, WorkerKeepsTypes, QueueKeepsTypes
<1>3. 0 \in 0..MaxVersions /\ {} \in SUBSET HostWindows /\ NoRender \in RenderConfigs \cup {NoRender}
      /\ {"release", "rebuild"} \subseteq {"prepare", "release", "rebuild"}
  BY RenderAssumption
<1>4. UNCHANGED renderVars => RenderTypes'
  BY <1>1 DEF renderVars, RenderTypes, JobTypes
<1>5. Send(Ask("release", {}, Snapshot(0, NoRender))) /\ UNCHANGED published => RenderTypes'
  <2> SUFFICES ASSUME Send(Ask("release", {}, Snapshot(0, NoRender))), UNCHANGED published PROVE RenderTypes'
    OBVIOUS
  <2>1. published' \in [version : 0..MaxVersions, config : RenderConfigs \cup {NoRender}]
    BY <1>1 DEF RenderTypes
  <2>2. "release" \in {"prepare", "release", "rebuild"}
    OBVIOUS
  <2> QED BY <1>1, <1>3, <2>1, <2>2, SendKeepsTypes
<1>6. UNCHANGED windowVars => WindowTypes'
  BY <1>1 DEF windowVars, WindowTypes
<1>7. RenderTypes' /\ WindowTypes' => Types'
  <2>1. (WorkerTypeOK /\ RenderTypes /\ ToastTypeOK /\ WindowTypes)' => Types'
    BY TypesAreParts, PTL
  <2> QED BY <1>2, <2>1
<1>8. ConfigAfterFailure \in RenderConfigs
  BY <1>1 DEF ConfigAfterFailure, WindowTypes
<1>9. Throw /\ windows' \subseteq HostWindows => WindowTypes'
  BY <1>1, <1>8 DEF Throw, LeaveHandler, WindowTypes
<1>10. ASSUME WindowStep PROVE RenderTypes' /\ WindowTypes'
  <2>1. CASE Begin \/ StartFails \/ StopWorker \/ JoinWorker
    BY <1>1, <1>4, <2>1 DEF Begin, StartFails, StopWorker, JoinWorker, allRenderVars, WindowTypes
  <2>2. CASE FirstRebuild
    <3>1. RenderTypes' /\ rebuilds' \in 0..MaxRebuilds /\ handler' = "start" /\ rebuilt' = FALSE
          /\ windowPc' = "preparing"
      BY <1>1, <2>2, RebuildKeepsTypes DEF FirstRebuild, WindowTypes
    <3> QED BY <1>1, <2>2, <3>1 DEF FirstRebuild, WindowTypes
  <2>3. CASE Prepared
    BY <1>1, <1>5, <2>3 DEF Prepared, WindowTypes
  <2>4. CASE PreparationFails \/ DrawingFails
    BY <1>1, <1>4, <1>9, <2>4 DEF PreparationFails, DrawingFails, allRenderVars, WindowTypes
  <2>5. CASE Replaced
    <3>1. PICK monitors \in SUBSET Monitors, toastMonitor \in Monitors \cup {NoMonitor} :
            /\ windows' = Targets(NextVersion, monitors, toastMonitor)
            /\ Send(Ask("rebuild", Targets(NextVersion, monitors, toastMonitor), Snapshot(NextVersion, config)))
            /\ published' = Snapshot(NextVersion, config)
      BY <2>5 DEF Replaced
    <3>2. NextVersion \in 1..MaxVersions /\ NextVersion \in 0..MaxVersions /\ config \in RenderConfigs
      BY <1>1, <2>5, RenderAssumption DEF Replaced, NextVersion, RenderTypes, WindowTypes
    <3>3. windows' \subseteq HostWindows
      BY <1>1, <3>1, <3>2, TargetsAreWindows
    <3>4. published' \in [version : 0..MaxVersions, config : RenderConfigs \cup {NoRender}]
      BY <3>1, <3>2 DEF Snapshot
    <3>5. RenderTypes'
      BY <1>1, <1>3, <3>1, <3>2, <3>3, <3>4, SendKeepsTypes
    <3> QED BY <1>1, <2>5, <3>3, <3>5 DEF Replaced, WindowTypes
  <2>6. CASE ReplacementFails
    <3>1. NextVersion \in 1..MaxVersions /\ config \in RenderConfigs
      BY <1>1, <2>6, RenderAssumption DEF ReplacementFails, NextVersion, RenderTypes, WindowTypes
    <3>2. windows' \subseteq HostWindows
          /\ published' \in [version : 0..MaxVersions, config : RenderConfigs \cup {NoRender}]
      <4>1. CASE windows' = {} /\ UNCHANGED published
        BY <1>1, <4>1 DEF RenderTypes
      <4>2. CASE \E monitors \in (SUBSET Monitors) \ {{}}, toastMonitor \in Monitors \cup {NoMonitor} :
                   /\ \E made \in SUBSET Targets(NextVersion, monitors, toastMonitor) : windows' = made
                   /\ published' = Snapshot(NextVersion, config)
        BY <1>1, <3>1, <4>2, TargetsAreWindows DEF Snapshot
      <4> QED BY <2>6, <4>1, <4>2 DEF ReplacementFails
    <3>3. RenderTypes'
      BY <1>1, <2>6, <3>2 DEF ReplacementFails, RenderTypes, JobTypes
    <3> QED BY <1>9, <2>6, <3>2, <3>3 DEF ReplacementFails
  <2>7. CASE RebuildDone
    BY <1>1, <1>4, <2>7 DEF RebuildDone, LeaveHandler, allRenderVars, WindowTypes
  <2>8. CASE ReleaseLast
    BY <1>1, <1>4, <1>5, <2>8 DEF ReleaseLast, WindowTypes
  <2>9. CASE DestroyWindows
    BY <1>1, <1>4, <2>9 DEF DestroyWindows, allRenderVars, WindowTypes
  <2> QED BY <1>10, <2>1, <2>2, <2>3, <2>4, <2>5, <2>6, <2>7, <2>8, <2>9 DEF WindowStep
<1>11. ASSUME RenderNext \/ Lose PROVE RenderTypes' /\ WindowTypes'
  BY <1>1, <1>6, <1>11, RenderKeepsTypes DEF RenderNext, Lose
<1>12. ASSUME WorkerNext \/ Wake \/ Elapse \/ Ended \/ UNCHANGED vars PROVE RenderTypes' /\ WindowTypes'
  BY <1>4, <1>6, <1>12 DEF WorkerNext, Wake, Elapse, Ended, vars, allRenderVars
<1>13. ASSUME NEW by \in {"start", "apply", "toast", "timer", "display"}, Rebuild(by), config' \in RenderConfigs
       PROVE  RenderTypes' /\ rebuilds' \in 0..MaxRebuilds /\ handler' = by /\ rebuilt' = FALSE
              /\ windowPc' = "preparing"
  BY <1>1, <1>13, RebuildKeepsTypes DEF WindowTypes
<1>14. ASSUME NEW c \in RenderConfigs, Apply(c) PROVE RenderTypes' /\ WindowTypes'
  <2>1. RenderTypes' /\ rebuilds' \in 0..MaxRebuilds /\ handler' = "apply" /\ rebuilt' = FALSE
        /\ windowPc' = "preparing"
    BY <1>13, <1>14 DEF Apply
  <2> QED BY <1>1, <1>14, <2>1 DEF Apply, WindowTypes
<1>15. ASSUME DisplayChanged \/ Close PROVE RenderTypes' /\ WindowTypes'
  <2>1. CASE Close
    BY <1>1, <1>4, <2>1 DEF Close, allRenderVars, WindowTypes
  <2>2. CASE DisplayChanged
    <3>1. RenderTypes' /\ rebuilds' \in 0..MaxRebuilds /\ handler' = "display" /\ rebuilt' = FALSE
          /\ windowPc' = "preparing"
      BY <1>1, <1>13, <2>2 DEF DisplayChanged, WindowTypes
    <3> QED BY <1>1, <2>2, <3>1 DEF DisplayChanged, WindowTypes
  <2> QED BY <1>15, <2>1, <2>2
<1>16. ASSUME NEW message \in Messages, ShowToast(message) PROVE RenderTypes' /\ WindowTypes'
  <2>1. CASE Schedule /\ UNCHANGED config /\ Rebuild("toast")
    <3>1. RenderTypes' /\ rebuilds' \in 0..MaxRebuilds /\ handler' = "toast" /\ rebuilt' = FALSE
          /\ windowPc' = "preparing"
      BY <1>1, <1>13, <2>1 DEF WindowTypes
    <3> QED BY <1>1, <1>16, <2>1, <3>1 DEF ShowToast, Schedule, TimerAfter, WindowTypes
  <2>2. CASE NoTimer /\ rebuilt' = FALSE /\ UNCHANGED <<renderVars, windowPc, handler, config, rebuilds>>
    BY <1>1, <1>4, <1>16, <2>2 DEF ShowToast, NoTimer, WindowTypes
  <2> QED BY <1>16, <2>1, <2>2 DEF ShowToast
<1>17. ASSUME AdvanceToasts PROVE RenderTypes' /\ WindowTypes'
  <2>1. CASE Schedule /\ UNCHANGED config /\ Rebuild("timer")
    <3>1. RenderTypes' /\ rebuilds' \in 0..MaxRebuilds /\ handler' = "timer" /\ rebuilt' = FALSE
          /\ windowPc' = "preparing"
      BY <1>1, <1>13, <2>1 DEF WindowTypes
    <3> QED BY <1>1, <1>17, <2>1, <3>1 DEF AdvanceToasts, Schedule, TimerAfter, WindowTypes
  <2>2. CASE NoTimer /\ windowPc' = "closing" /\ UNCHANGED <<renderVars, handler, config, rebuilds, rebuilt>>
    BY <1>1, <1>4, <1>17, <2>2 DEF AdvanceToasts, NoTimer, WindowTypes
  <2> QED BY <1>17, <2>1, <2>2 DEF AdvanceToasts
<1> QED BY <1>7, <1>10, <1>11, <1>12, <1>14, <1>15, <1>16, <1>17 DEF Next

\* No variable of the window thread, the render thread, the worker and the queue
\* leaves its type.
THEOREM TypesHold == Spec => []Types
<1>1. Types /\ [Next]_vars => Types'
  BY StepKeepsTypes
<1> QED BY TypesInitially, <1>1, PTL DEF Spec

-----------------------------------------------------------------------------
(* What is on the screen.  ScreenIsCurrent is about the moment the window    *)
(* thread is idle again; it is carried there by what holds while it waits    *)
(* for the last of the three requests: the snapshot published and the        *)
(* windows made are those of the configuration and the toast of now, and     *)
(* once the request is served every window has its surface.  In between the  *)
(* render thread changes nothing, because it has nothing to serve and is     *)
(* only asked to stop when the window thread will not be idle again.         *)

Expected == IF config \in Assetless THEN NoRender ELSE config
WindowsRight ==
  /\ windows # {} /\ published.config = config
  /\ {w.shows : w \in windows} \subseteq {0} \cup {t.number : t \in toast}
  /\ config \in ToastsOff => {w.shows : w \in windows} = {0}
Drawn == surfaces = windows /\ decoded = Expected
ScreenInv ==
  /\ stopRequested => windowPc \in {"joining", "ended"}
  /\ windowPc \in {"preparing", "releasing", "rebuilding"} => ~rebuilt
  /\ windowPc = "rebuilding" => WindowsRight
  /\ windowPc = "rebuilding" /\ ~failure /\ (~UnderWay \/ renderPc = "completing") => Drawn
  /\ windowPc = "idle" /\ rebuilt /\ ~failure => WindowsRight /\ Drawn

LEMMA ScreenInitially == Init => ScreenInv
  BY DEF Init, RenderInit, WorkerInit, ScreenInv

LEMMA ScreenShows == ScreenInv => ScreenIsCurrent
  BY DEF ScreenInv, WindowsRight, Drawn, Expected, ScreenIsCurrent

\* The windows of a rebuild show the configuration, and no toast but the active one.
LEMMA TargetsShow ==
  ASSUME NEW version, NEW monitors, monitors # {}, NEW toastMonitor
  PROVE  LET shown == {w.shows : w \in Targets(version, monitors, toastMonitor)}
         IN /\ Targets(version, monitors, toastMonitor) # {}
            /\ shown \subseteq {0} \cup {t.number : t \in toast}
            /\ config \in ToastsOff => shown = {0}
<1> DEFINE Main == [version : {version}, monitor : monitors, shows : {0}]
           Own == [version : {version}, monitor : monitors \cap {toastMonitor}, shows : {t.number : t \in ShownToasts}]
<1>1. PICK m \in monitors : TRUE
  OBVIOUS
<1>2. [version |-> version, monitor |-> m, shows |-> 0] \in Main
  OBVIOUS
<1>3. {w.shows : w \in Main} = {0}
  BY <1>2
<1>4. {w.shows : w \in Own} \subseteq {t.number : t \in ShownToasts}
  OBVIOUS
<1>5. Targets(version, monitors, toastMonitor) = Main \cup Own
  BY DEF Targets
<1>6. {w.shows : w \in Main \cup Own} = {w.shows : w \in Main} \cup {w.shows : w \in Own}
  OBVIOUS
<1>7. ShownToasts \subseteq toast /\ (config \in ToastsOff => ShownToasts = {})
  BY DEF ShownToasts
<1> HIDE DEF Main, Own
<1> QED BY <1>2, <1>3, <1>4, <1>5, <1>6, <1>7

\* Once the render thread has drawn for a configuration, its asset is decoded.
LEMMA DecodedIsExpected ==
  ASSUME published.config = config
  PROVE  Decoded(published.config) = Expected
  BY DEF Decoded, Cached, Expected

LEMMA WindowKeepsScreen ==
  ASSUME RenderInv, ScreenInv, WindowStep
  PROVE  ScreenInv'
<1> USE DEF ScreenInv
<1>1. CASE Begin \/ StartFails
  BY <1>1 DEF Begin, StartFails, StartWorker, renderVars, allRenderVars, workerVars
<1>2. CASE FirstRebuild
  BY <1>2 DEF FirstRebuild, Rebuild, workerVars
<1>3. CASE Prepared
  BY <1>3 DEF Prepared, workerVars
<1>4. CASE PreparationFails \/ DrawingFails
  BY <1>4 DEF PreparationFails, DrawingFails, Throw, allRenderVars, workerVars
<1>5. CASE Replaced
  <2>1. PICK monitors \in (SUBSET Monitors) \ {{}}, toastMonitor \in Monitors \cup {NoMonitor} :
          /\ windows' = Targets(NextVersion, monitors, toastMonitor)
          /\ Send(Ask("rebuild", Targets(NextVersion, monitors, toastMonitor), Snapshot(NextVersion, config)))
          /\ published' = Snapshot(NextVersion, config)
    BY <1>5 DEF Replaced
  <2>2. UNCHANGED <<config, toast, rebuilt, stopRequested, failure, renderPc>> /\ windowPc' = "rebuilding"
        /\ windowPc = "releasing" /\ requested' = requested + 1 /\ completed' = completed
    BY <1>5, <2>1 DEF Replaced, toastVars, workerVars, Send
  <2>3. WindowsRight'
    <3>1. /\ windows' # {}
          /\ {w.shows : w \in windows'} \subseteq {0} \cup {t.number : t \in toast}
          /\ config \in ToastsOff => {w.shows : w \in windows'} = {0}
      <4>1. {w.shows : w \in windows'} = {w.shows : w \in Targets(NextVersion, monitors, toastMonitor)}
        BY <2>1
      <4>2. monitors # {}
        BY <2>1
      <4> QED BY <2>1, <4>1, <4>2, TargetsShow
    <3>2. published'.config = config
      BY <2>1 DEF Snapshot
    <3> QED BY <2>2, <3>1, <3>2 DEF WindowsRight
  <2>4. ~failure => UnderWay' /\ renderPc' # "completing"
    BY <1>5, <2>2 DEF Replaced, Returned, Refused, UnderWay, RenderInv, Handshake, Serving
  <2> QED BY <2>2, <2>3, <2>4
<1>6. CASE ReplacementFails
  BY <1>6 DEF ReplacementFails, Throw, workerVars
<1>7. CASE RebuildDone
  <2>1. WindowsRight /\ ~failure /\ ~UnderWay
    BY <1>7 DEF RebuildDone, Returned, Refused, UnderWay, RenderInv
  <2>2. Drawn
    BY <1>7, <2>1 DEF RebuildDone
  <2>3. WindowsRight' /\ Drawn'
    BY <1>7, <2>1, <2>2 DEF RebuildDone, allRenderVars, renderVars, toastVars, WindowsRight, Drawn, Expected
  <2>4. windowPc' = "idle" /\ stopRequested' = stopRequested /\ windowPc = "rebuilding"
    BY <1>7 DEF RebuildDone, allRenderVars, workerVars
  <2> QED BY <2>3, <2>4
<1>8. CASE ReleaseLast \/ DestroyWindows
  BY <1>8 DEF ReleaseLast, DestroyWindows, allRenderVars, workerVars
<1>9. CASE StopWorker \/ JoinWorker
  BY <1>9 DEF StopWorker, JoinWorker
<1> QED BY <1>1, <1>2, <1>3, <1>4, <1>5, <1>6, <1>7, <1>8, <1>9 DEF WindowStep

\* The render thread changes what is decoded or drawn only while it serves a
\* request, or at its end.
LEMMA RenderKeepsScreen ==
  ASSUME RenderInv, ScreenInv, RenderNext
  PROVE  ScreenInv'
<1>1. UNCHANGED <<windowPc, config, windows, rebuilt, toast, stopRequested, published>>
  BY DEF RenderNext, windowVars, toastVars, RenderStep, StartRendering, TakeRequest, Prepare, Release, Draw,
     DrawFails, FindLost, ReleaseLost, Recreate, RecoveryFails, MismatchedSnapshot, Complete, StopRendering,
     CleanUp, Served, Dies, workerVars
<1>2. WindowsRight' <=> WindowsRight
  BY <1>1 DEF WindowsRight
<1>3. Expected' = Expected
  BY <1>1 DEF Expected
<1>4. CASE failure'
  BY <1>1, <1>2, <1>4 DEF ScreenInv
<1>5. CASE ~failure' /\ ~failure
  <2>0. /\ UnderWay => Waiting
        /\ Serving => UnderWay
        /\ renderPc # "cleaning"
        /\ windowPc = "rebuilding" /\ Serving => job.kind = "rebuild" /\ job.targets = windows
        /\ windowPc = "rebuilding" => published.config = config
    BY <1>5 DEF RenderInv, Handshake, RightRequest, ScreenInv, WindowsRight, Waiting
  <2>1. CASE StartRendering
    <3>1. ~Dies
      BY <1>5 DEF Dies
    <3>2. UNCHANGED <<requested, completed, surfaces, decoded>> /\ renderPc = "starting" /\ renderPc' = "waiting"
          /\ (surfaces = {} \/ TRUE)
      BY <2>1, <3>1 DEF StartRendering, Dies
    <3> QED BY <1>1, <1>2, <1>3, <1>5, <3>2 DEF ScreenInv, Drawn, UnderWay
  <2>2. CASE TakeRequest
    BY <1>1, <1>2, <1>3, <1>5, <2>2 DEF TakeRequest, ScreenInv, Drawn, UnderWay
  <2>3. CASE Prepare \/ Release
    BY <1>1, <1>2, <1>3, <1>5, <2>0, <2>3 DEF Prepare, Release, Served, ScreenInv, Drawn, UnderWay, Waiting, Serving
  <2>4. CASE Draw
    <3>1. Serving /\ UNCHANGED <<requested, completed>> /\ surfaces' = job.targets /\ decoded' = Decoded(published.config)
      BY <2>4 DEF Draw, BeginDraw, Served, Serving
    <3>2. windowPc = "rebuilding" => Drawn'
      BY <1>1, <1>3, <2>0, <3>1, DecodedIsExpected DEF Drawn
    <3>3. windowPc # "idle"
      BY <2>0, <3>1 DEF Waiting
    <3> QED BY <1>1, <1>2, <1>5, <3>1, <3>2, <3>3 DEF ScreenInv, UnderWay
  <2>5. ~(DrawFails \/ MismatchedSnapshot \/ RecoveryFails)
    BY <1>5 DEF DrawFails, MismatchedSnapshot, RecoveryFails, Dies
  <2>11. ~CleanUp
    BY <2>0 DEF CleanUp
  <2>6. CASE FindLost
    BY <1>1, <1>2, <1>3, <1>5, <2>0, <2>6 DEF FindLost, BeginDraw, ScreenInv, Drawn, UnderWay, Waiting, Serving
  <2>7. CASE ReleaseLost
    BY <1>1, <1>2, <1>3, <1>5, <2>0, <2>7 DEF ReleaseLost, ScreenInv, Drawn, UnderWay, Waiting, Serving
  <2>8. CASE Recreate
    BY <1>1, <1>2, <1>3, <1>5, <2>0, <2>8, DecodedIsExpected
    DEF Recreate, Served, ScreenInv, Drawn, UnderWay, Waiting, Serving
  <2>9. CASE Complete
    BY <1>1, <1>2, <1>3, <1>5, <2>0, <2>9 DEF Complete, ScreenInv, Drawn, UnderWay, Waiting, Serving
  <2>10. CASE StopRendering
    BY <1>1, <1>2, <1>3, <1>5, <2>0, <2>10 DEF StopRendering, ScreenInv, Drawn, UnderWay, Waiting, Serving
  <2> QED BY <2>1, <2>2, <2>3, <2>4, <2>5, <2>6, <2>7, <2>8, <2>9, <2>10, <2>11 DEF RenderNext, RenderStep
<1>6. CASE ~failure' /\ failure
  BY <1>6 DEF RenderNext, RenderStep, StartRendering, TakeRequest, Prepare, Release, Draw,
     DrawFails, FindLost, ReleaseLost, Recreate, RecoveryFails, MismatchedSnapshot, Complete, StopRendering,
     CleanUp, Served, Dies
<1> QED BY <1>4, <1>5, <1>6

LEMMA HandlersKeepScreen ==
  ASSUME ScreenInv,
         \/ \E c \in RenderConfigs : Apply(c)
         \/ \E message \in Messages : ShowToast(message)
         \/ AdvanceToasts \/ DisplayChanged \/ Close
  PROVE  ScreenInv'
<1> USE DEF ScreenInv
<1>1. CASE \E c \in RenderConfigs : Apply(c)
  BY <1>1 DEF Apply, Rebuild, workerVars
<1>2. CASE \E message \in Messages : ShowToast(message)
  BY <1>2 DEF ShowToast, NoTimer, Rebuild, workerVars
<1>3. CASE AdvanceToasts
  BY <1>3 DEF AdvanceToasts, NoTimer, Rebuild, workerVars
<1>4. CASE DisplayChanged \/ Close
  BY <1>4 DEF DisplayChanged, Close, Rebuild, allRenderVars, workerVars
<1> QED BY <1>1, <1>2, <1>3, <1>4

LEMMA OthersKeepScreen ==
  ASSUME ScreenInv, WorkerNext \/ Wake \/ Lose \/ Elapse \/ Ended \/ UNCHANGED vars
  PROVE  ScreenInv'
<1>1. UNCHANGED <<windowVars, requested, completed, renderPc, surfaces, decoded, failure, published, toast>>
  BY DEF WorkerNext, Wake, Lose, LoseDevice, Elapse, TimeIsOver, Ended, vars, allRenderVars, renderVars, toastVars
<1>2. stopRequested' = stopRequested
  BY DEF WorkerNext, Wake, Lose, LoseDevice, Elapse, Ended, vars, allRenderVars, workerVars, WakeSpuriously,
     WorkerStep, OwnerStep, CheckStarted, FallAsleep, LeaveStart, EnterWorker, AnnounceRunning, WorkerReturned,
     KeepFailure, WorkerFailed, AnnounceEnd
<1> QED BY <1>1, <1>2 DEF windowVars, ScreenInv, WindowsRight, Drawn, Expected, UnderWay

\* Whenever rebuild_overlays has returned and the render thread lives, the screen
\* shows the current configuration and the current toast, whatever was applied,
\* shown, lost or refused before.
THEOREM ScreenStaysRight == Spec => []ScreenInv
<1>1. RenderInv /\ ScreenInv /\ [Next]_vars => ScreenInv'
  BY WindowKeepsScreen, RenderKeepsScreen, HandlersKeepScreen, OthersKeepScreen DEF Next
<1> QED BY ScreenInitially, RenderStaysInStep, <1>1, PTL DEF Spec

\* What the render run checks of every state: the types, that the render thread
\* never draws for another snapshot than the published one, and that the screen
\* shows what was decided last.
THEOREM OverlaysAreRight == Spec => []OverlayInv
<1>1. Types /\ RequestMatchesSnapshot /\ ScreenIsCurrent => OverlayInv
  BY DEF Types, OverlayInv
<1> QED BY <1>1, TypesHold, RequestsStayMatched, ScreenStaysRight, ScreenShows, PTL
=============================================================================
