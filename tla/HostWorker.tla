----------------------------- MODULE HostWorker -----------------------------
(***************************************************************************)
(* A worker thread of the Host and the thread that owns it                  *)
(* (HostWorkerThread, host_threads.cpp).  The owner starts it and waits on  *)
(* a condition variable until it runs or has failed; later it asks it to    *)
(* stop and joins it.  The worker announces its states through an atomic    *)
(* that is NOT guarded by the mutex of the condition variable, so the       *)
(* owner's check of the state and its falling asleep are two steps, and an  *)
(* announcement between them finds nobody to wake.                          *)
(*                                                                         *)
(* What the worker does between "body" and its end belongs to the module    *)
(* that extends this one.                                                   *)
(***************************************************************************)

VARIABLES
  workerState,                  \* state_
  workerPc,                     \* where the worker thread is
  workerFailure,                \* failure_ is set
  stopRequested,                \* the stop token
  owner                         \* where the owner is in start() or join()

workerVars == <<workerState, workerPc, workerFailure, stopRequested, owner>>

WorkerTypeOK ==
  /\ workerState \in {"created", "starting", "running", "stop_requested", "stopped", "failed"}
  /\ workerPc \in {"none", "entering", "announcing", "body", "returned", "thrown", "failing", "ending", "gone"}
  /\ owner \in {"created", "checking", "blocking", "blocked", "leaving", "started", "refused", "joined"}
  /\ workerFailure \in BOOLEAN /\ stopRequested \in BOOLEAN

WorkerInit ==
  /\ workerState = "created" /\ workerPc = "none" /\ owner = "created"
  /\ workerFailure = FALSE /\ stopRequested = FALSE

-----------------------------------------------------------------------------
(* The owner. *)

StartWorker ==
  /\ owner = "created" /\ workerState = "created"
  /\ workerState' = "starting" /\ workerPc' = "entering" /\ owner' = "checking"
  /\ UNCHANGED <<workerFailure, stopRequested>>

\* The predicate is evaluated, and the owner goes to sleep, with the mutex held.
Announced == workerState \in {"running", "failed", "stopped"}
OwnerHoldsMutex == owner = "blocking"
CheckStarted ==
  /\ owner = "checking"
  /\ owner' = IF Announced THEN "leaving" ELSE "blocking"
  /\ UNCHANGED <<workerState, workerPc, workerFailure, stopRequested>>
FallAsleep ==
  /\ owner = "blocking" /\ owner' = "blocked"
  /\ UNCHANGED <<workerState, workerPc, workerFailure, stopRequested>>

\* A condition variable may also wake a waiting thread for no reason.
WakeSpuriously ==
  /\ owner = "blocked" /\ owner' = "checking"
  /\ UNCHANGED <<workerState, workerPc, workerFailure, stopRequested>>

LeaveStart ==
  /\ owner = "leaving" /\ owner' = IF workerFailure THEN "refused" ELSE "started"
  /\ UNCHANGED <<workerState, workerPc, workerFailure, stopRequested>>

MutAsked == stopRequested
Asked == TRUE                   \* thread_.request_stop()
\* request_stop(): a worker that has already ended keeps its state.
RequestStop ==
  /\ workerPc # "none"
  /\ workerState' = IF workerState = "running" THEN "stop_requested" ELSE workerState
  /\ stopRequested' = Asked
Join == workerPc \in {"none", "gone"} /\ owner' = "joined"

-----------------------------------------------------------------------------
(* The worker thread (run). *)

Woken == IF owner = "blocked" THEN "checking" ELSE owner       \* notify_all

EnterWorker ==
  /\ workerPc = "entering"
  /\ workerPc' = "announcing" /\ workerState' = "running"
  /\ UNCHANGED <<workerFailure, stopRequested, owner>>
AnnounceRunning ==
  /\ workerPc = "announcing"
  /\ workerPc' = "body" /\ owner' = Woken
  /\ UNCHANGED <<workerState, workerFailure, stopRequested>>
WorkerReturned ==
  /\ workerPc = "returned"
  /\ workerPc' = "ending" /\ workerState' = "stopped"
  /\ UNCHANGED <<workerFailure, stopRequested, owner>>
KeepFailure ==
  /\ workerPc = "thrown" /\ ~OwnerHoldsMutex
  /\ workerPc' = "failing" /\ workerFailure' = TRUE
  /\ UNCHANGED <<workerState, stopRequested, owner>>
WorkerFailed ==
  /\ workerPc = "failing"
  /\ workerPc' = "ending" /\ workerState' = "failed"
  /\ UNCHANGED <<workerFailure, stopRequested, owner>>
AnnounceEnd ==
  /\ workerPc = "ending"
  /\ workerPc' = "gone" /\ owner' = Woken
  /\ UNCHANGED <<workerState, workerFailure, stopRequested>>

\* The owner while it is in start(), and the worker outside of its body.
OwnerStep == CheckStarted \/ FallAsleep \/ LeaveStart
WorkerStep ==
  EnterWorker \/ AnnounceRunning \/ WorkerReturned \/ KeepFailure \/ WorkerFailed \/ AnnounceEnd
=============================================================================
