---------------------------- MODULE RenderThread ----------------------------
(***************************************************************************)
(* The Host's render thread (RenderCoordinator, DeviceRecoveryStateMachine). *)
(* The window thread hands it one request at a time and waits for the        *)
(* generation of that request to be completed, or for the render thread to   *)
(* have failed for good.  Only a request to prepare a configuration may fail *)
(* and leave the thread alive.  All waits of the coordinator are on          *)
(* predicates changed under its mutex, so each is a guard here.              *)
(*                                                                         *)
(* Of the graphics device the model keeps whether it exists and works, which *)
(* configuration's asset is decoded, and which windows have a surface.       *)
(***************************************************************************)
EXTENDS Naturals, HostWorker

CONSTANTS RenderConfigs, NoRender,
          Undecodable,          \* configurations whose asset cannot be decoded
          Assetless,            \* configurations without an image
          Monitors,
          MaxVersions,          \* bound on the snapshots published
          MaxToastNumber,       \* the largest number of a toast
          MaxLosses             \* bound on the losses of the device
ASSUME RenderAssumption ==
  /\ NoRender \notin RenderConfigs /\ Undecodable \subseteq RenderConfigs
  /\ Assetless \subseteq RenderConfigs \ Undecodable
  /\ MaxVersions \in Nat /\ MaxToastNumber \in Nat /\ MaxLosses \in Nat

VARIABLES
  request,                      \* requested_*: the last request
  requested, completed,         \* requested_generation_, completed_generation_
  refused,                      \* completed_request_failure_ of the last completed request
  ready, failure,               \* ready_; failure_ is set
  job, renderPc,                \* the request being served, and how far it is
  device, decoded, surfaces, recovery,
  published,                    \* the snapshot in AtomicHostSnapshot
  losses                        \* how often the device was lost (bound only)

renderVars == <<request, requested, completed, refused, ready, failure, job, renderPc, device, decoded,
                surfaces, recovery, published, losses>>
allRenderVars == <<renderVars, workerVars>>

\* A window is identified by the version it was built for, its monitor and what it shows:
\* the profile (0) or the toast of that number.
HostWindows == [version : 1..MaxVersions, monitor : Monitors, shows : 0..MaxToastNumber]
Snapshot(version, config) == [version |-> version, config |-> config]
Ask(kind, targets, snapshot) ==
  [kind |-> kind, targets |-> targets, version |-> snapshot.version, config |-> snapshot.config,
   generation |-> requested + 1]
NoRequest == [kind |-> "none", targets |-> {}, version |-> 0, config |-> NoRender, generation |-> 0]

RenderTypeOK ==
  /\ WorkerTypeOK
  /\ \A r \in {request, job} :
       /\ r.kind \in {"none", "prepare", "release", "rebuild"} /\ r.targets \subseteq HostWindows
       /\ r.version \in 0..MaxVersions /\ r.config \in RenderConfigs \cup {NoRender}
       /\ r.generation \in 0..requested
  /\ requested \in Nat /\ completed \in 0..requested
  /\ {refused, ready, failure} \subseteq BOOLEAN
  /\ renderPc \in {"starting", "waiting", "serving", "releasing", "recovering", "completing", "cleaning"}
  /\ device \in {"none", "ready", "lost"}
  /\ decoded \in RenderConfigs \cup {NoRender}
  /\ surfaces \subseteq HostWindows
  /\ recovery \in {"cold", "ready", "releasing", "recreating", "failed"}
  /\ published \in [version : 0..MaxVersions, config : RenderConfigs \cup {NoRender}]
  /\ losses \in 0..MaxLosses

RenderInit ==
  /\ WorkerInit
  /\ request = NoRequest /\ requested = 0 /\ completed = 0 /\ refused = FALSE
  /\ ready = FALSE /\ failure = FALSE /\ job = NoRequest /\ renderPc = "starting"
  /\ device = "none" /\ decoded = NoRender /\ surfaces = {} /\ recovery = "cold"
  /\ published = Snapshot(0, NoRender) /\ losses = 0

-----------------------------------------------------------------------------
(* Requests of the window thread: rebuild and prepare_configuration. *)

Send(r) ==
  /\ request' = r /\ requested' = requested + 1
  /\ UNCHANGED <<completed, refused, ready, failure, job, renderPc, device, decoded, surfaces, recovery, losses>>
MutReturned == completed >= requested
EarlyReturned == completed + 1 >= requested \/ failure
Returned == completed >= requested \/ failure
Refused == failure \/ refused

-----------------------------------------------------------------------------
(* The render thread. *)

Running == workerPc = "body"

\* An exception other than that of a preparation: failure_ is set and its
\* waiters woken before the surfaces are released.
Dies ==
  /\ recovery' = "failed" /\ failure' = TRUE /\ renderPc' = "cleaning"
  /\ UNCHANGED <<request, requested, completed, refused, ready, job, published, losses, workerVars>>
CleanUp ==
  /\ Running /\ renderPc = "cleaning"
  /\ surfaces' = {} /\ device' = "none" /\ decoded' = NoRender
  /\ workerPc' = "thrown"
  /\ UNCHANGED <<request, requested, completed, refused, ready, failure, job, renderPc, recovery, published,
                 losses, workerState, workerFailure, stopRequested, owner>>

StartRendering ==
  /\ Running /\ renderPc = "starting"
  /\ \/ /\ device' = "ready" /\ recovery' = "ready" /\ ready' = TRUE /\ renderPc' = "waiting"
        /\ UNCHANGED <<request, requested, completed, refused, failure, job, decoded, surfaces, published,
                       losses, workerVars>>
     \/ Dies /\ UNCHANGED <<device, decoded, surfaces>>

TakeRequest ==
  /\ Running /\ renderPc = "waiting" /\ requested > completed /\ ~stopRequested
  /\ job' = request /\ renderPc' = "serving"
  /\ UNCHANGED <<request, requested, completed, refused, ready, failure, device, decoded, surfaces, recovery,
                 published, losses, workerVars>>

Served ==
  /\ renderPc' = "completing"
  /\ UNCHANGED <<request, requested, completed, ready, failure, job, published, losses, workerVars>>

\* prepare_configuration: an asset that is decoded already is not decoded again.
Prepares(config) == device = "ready" /\ config \notin Undecodable
MutCached(config) == decoded # NoRender \/ config \in Assetless
Cached(config) == config = decoded \/ config \in Assetless
Decoded(config) == IF config \in Assetless THEN NoRender ELSE IF Cached(config) THEN decoded ELSE config
Prepare ==
  /\ Running /\ renderPc = "serving" /\ job.kind = "prepare"
  /\ Served
  /\ \/ /\ Prepares(job.config) \/ Cached(job.config)
        /\ decoded' = Decoded(job.config)
        /\ refused' = FALSE
     \/ ~Cached(job.config) /\ refused' = TRUE /\ UNCHANGED decoded
  /\ UNCHANGED <<device, surfaces, recovery>>

Release ==
  /\ Running /\ renderPc = "serving" /\ job.kind = "release"
  /\ Served
  /\ surfaces' = {} /\ refused' = FALSE
  /\ UNCHANGED <<device, decoded, recovery>>

MatchesSnapshot == published.version = job.version
BeginDraw == Running /\ renderPc = "serving" /\ job.kind = "rebuild"
MismatchedSnapshot == BeginDraw /\ ~MatchesSnapshot /\ Dies /\ UNCHANGED <<device, decoded, surfaces>>

\* The old surfaces go, and one is made for each target.
Draw ==
  /\ BeginDraw /\ MatchesSnapshot /\ device = "ready"
  /\ Prepares(published.config) \/ Cached(published.config)
  /\ Served
  /\ surfaces' = job.targets /\ decoded' = Decoded(published.config) /\ refused' = FALSE
  /\ UNCHANGED <<device, recovery>>
\* Something fails that is not the loss of the device, after some surfaces were made.
DrawFails ==
  /\ BeginDraw /\ MatchesSnapshot
  /\ \E made \in SUBSET job.targets : surfaces' = made
  /\ Dies /\ UNCHANGED <<device, decoded>>

\* The device was lost after some surfaces were made: the surfaces are released,
\* then the device, then all of it is made again, once.
FindLost ==
  /\ BeginDraw /\ MatchesSnapshot /\ device = "lost" /\ Cached(published.config)
  /\ renderPc' = "releasing" /\ recovery' = "releasing"
  /\ \E made \in SUBSET job.targets : surfaces' = made
  /\ UNCHANGED <<request, requested, completed, refused, ready, failure, job, device, decoded, published, losses,
                 workerVars>>
MutReleasedFirst == surfaces
ReleasedFirst == {}
ReleaseLost ==
  /\ Running /\ renderPc = "releasing"
  /\ renderPc' = "recovering" /\ recovery' = "recreating"
  /\ surfaces' = ReleasedFirst /\ device' = "none" /\ decoded' = NoRender
  /\ UNCHANGED <<request, requested, completed, refused, ready, failure, job, published, losses, workerVars>>
Recreate ==
  /\ Running /\ renderPc = "recovering" /\ published.config \notin Undecodable
  /\ Served
  /\ device' = "ready" /\ surfaces' = job.targets /\ decoded' = Decoded(published.config)
  /\ recovery' = "ready" /\ refused' = FALSE
RecoveryFails ==
  /\ Running /\ renderPc = "recovering"
  /\ \/ UNCHANGED <<device, surfaces>>
     \/ device' = "ready" /\ \E made \in SUBSET job.targets : surfaces' = made
  /\ Dies /\ UNCHANGED decoded

Complete ==
  /\ Running /\ renderPc = "completing"
  /\ completed' = job.generation /\ renderPc' = "waiting" /\ job' = NoRequest
  /\ UNCHANGED <<request, requested, refused, ready, failure, device, decoded, surfaces, recovery,
                 published, losses, workerVars>>

\* The stop token ends the wait: what is left is released.
StopRendering ==
  /\ Running /\ renderPc = "waiting" /\ stopRequested
  /\ surfaces' = {} /\ device' = "none" /\ decoded' = NoRender
  /\ workerPc' = "returned"
  /\ UNCHANGED <<request, requested, completed, refused, ready, failure, job, renderPc, recovery, published,
                 losses, workerState, workerFailure, stopRequested, owner>>

RenderStep ==
  \/ StartRendering \/ TakeRequest \/ Prepare \/ Release \/ Draw \/ DrawFails \/ FindLost \/ ReleaseLost \/ Recreate
  \/ RecoveryFails \/ MismatchedSnapshot \/ Complete \/ StopRendering \/ CleanUp

\* The graphics device is removed or reset (external).
LoseDevice ==
  /\ device = "ready" /\ losses < MaxLosses
  /\ device' = "lost" /\ losses' = losses + 1
  /\ UNCHANGED <<request, requested, completed, refused, ready, failure, job, renderPc, decoded, surfaces,
                 recovery, published, workerVars>>
=============================================================================
