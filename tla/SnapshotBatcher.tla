--------------------------- MODULE SnapshotBatcher ---------------------------
(***************************************************************************)
(* SnapshotApplyBatcher of the settings UI: callers queue versioned         *)
(* snapshots, a worker task that lives only while there is something to do  *)
(* waits 16 ms, takes everything queued as one batch, sends the newest      *)
(* snapshot of the batch and answers all of its callers.                    *)
(*                                                                         *)
(* A call is named by the version it queued.  The sections of the code that *)
(* run under its lock are single actions; everything between two of them -  *)
(* the delay, the send, the loop back - is a place where callers run.       *)
(***************************************************************************)
EXTENDS Naturals

CONSTANTS MaxVersion,       \* bound on the versions callers queue
          Snapshots,        \* the contents a caller may queue
          Outcomes,         \* how a send ends: normally, or by which exception
          NoBatch           \* the null PendingSnapshot

ASSUME BatcherAssumption == /\ MaxVersion \in Nat
                            /\ Outcomes \cap {"none", "waiting", "cancelled"} = {}
                            /\ NoBatch \notin [version : 1..MaxVersion,
                                               snapshot : Snapshots,
                                               calls : SUBSET (1..MaxVersion)]

VARIABLES pending,          \* the batch that is being collected
          inflight,         \* the batch the worker has taken and is sending
          worker,           \* where the worker task is, "none" when it is null
          highestVersion,   \* newest version queued
          results,          \* state of each call's completion
          stopping,         \* shutdown was cancelled by DisposeAsync
          sent              \* newest version handed to the sender

bvars == <<pending, inflight, worker, highestVersion, results, stopping, sent>>

Versions == 1..MaxVersion
Batches == [version : Versions, snapshot : Snapshots, calls : SUBSET Versions]
WorkerStates == {"none", "window", "sending", "recheck"}
CallStates == {"none", "waiting", "cancelled"} \cup Outcomes

BatcherTypeOK ==
  /\ pending \in Batches \cup {NoBatch}
  /\ inflight \in Batches \cup {NoBatch}
  /\ worker \in WorkerStates
  /\ highestVersion \in 0..MaxVersion
  /\ results \in [Versions -> CallStates]
  /\ stopping \in BOOLEAN
  /\ sent \in 0..MaxVersion

BatcherInit ==
  /\ pending = NoBatch
  /\ inflight = NoBatch
  /\ worker = "none"
  /\ highestVersion = 0
  /\ results = [v \in Versions |-> "none"]
  /\ stopping = FALSE
  /\ sent = 0

-----------------------------------------------------------------------------
CallsOf(batch) == IF batch = NoBatch THEN {} ELSE batch.calls

(* Mutated forms of the helpers below, each with the slip of a plausible      *)
(* edit.  They take no part in the specification: put in the place of the     *)
(* helper they show that a property can fail.                                 *)
MutBatchForgetsCalls(version, snapshot) ==
  [version |-> version, snapshot |-> snapshot, calls |-> {version}]
MutAnswerNewest(calls, outcome) ==
  [v \in Versions |-> IF v \in calls /\ v = sent THEN outcome ELSE results[v]]
MutAbandonNobody == {}

-----------------------------------------------------------------------------
(* QueueAsync refuses a version that does not increase.                     *)
Increases(version) == version > highestVersion

(* It starts a batch, or overwrites the content of the one being collected.  *)
BatchWith(version, snapshot) ==
  [version |-> version, snapshot |-> snapshot, calls |-> {version} \cup CallsOf(pending)]

(* It starts the worker task if there is none.  The guard on stopping is the *)
(* callers': App.Dispose disposes the workspace, the only caller, before the *)
(* client.                                                                   *)
QueueAsync(version, snapshot) ==
  /\ ~stopping
  /\ Increases(version)
  /\ highestVersion' = version
  /\ pending' = BatchWith(version, snapshot)
  /\ worker' = IF worker = "none" THEN "window" ELSE worker
  /\ results' = [results EXCEPT ![version] = "waiting"]
  /\ UNCHANGED <<inflight, stopping, sent>>

(* The delay ends, perhaps just before a shutdown: under the lock the worker *)
(* takes the batch, and it hands its newest snapshot to the sender.  With no *)
(* batch it would retire; WorkerHoldsBatch says it always finds one.         *)
TakeBatch ==
  /\ worker = "window"
  /\ inflight' = pending
  /\ pending' = NoBatch
  /\ IF pending = NoBatch
       THEN worker' = "none" /\ UNCHANGED sent
       ELSE worker' = "sending" /\ sent' = pending.version
  /\ UNCHANGED <<highestVersion, results, stopping>>

(* Every caller of a batch gets the same outcome.                           *)
Answered(calls, outcome) ==
  [v \in Versions |-> IF v \in calls THEN outcome ELSE results[v]]

(* The sender returns or throws.                                            *)
Complete(outcome) ==
  /\ worker = "sending"
  /\ results' = Answered(inflight.calls, outcome)
  /\ inflight' = NoBatch
  /\ worker' = "recheck"
  /\ UNCHANGED <<pending, highestVersion, stopping, sent>>

(* The second locked section: go round again if more was queued meanwhile,  *)
(* else the worker task retires.                                            *)
RetireUnlessMore == worker' = IF pending = NoBatch THEN "none" ELSE "window"

Recheck ==
  /\ worker = "recheck"
  /\ RetireUnlessMore
  /\ UNCHANGED <<pending, inflight, highestVersion, results, stopping, sent>>

(* The delay is cancelled by shutdown: what is still queued is abandoned.   *)
Abandoned == CallsOf(pending)

AbandonBatch ==
  /\ worker = "window"
  /\ stopping
  /\ pending' = NoBatch
  /\ worker' = "none"
  /\ results' = Answered(Abandoned, "cancelled")
  /\ UNCHANGED <<inflight, highestVersion, stopping, sent>>

(* DisposeAsync cancels the shutdown token and then awaits the worker.      *)
DisposeBatcher ==
  /\ ~stopping
  /\ stopping' = TRUE
  /\ UNCHANGED <<pending, inflight, worker, highestVersion, results, sent>>

BatcherNext ==
  \/ \E v \in Versions, s \in Snapshots : QueueAsync(v, s)
  \/ TakeBatch
  \/ \E outcome \in Outcomes : Complete(outcome)
  \/ Recheck
  \/ AbandonBatch
  \/ DisposeBatcher

(* The runtime runs a ready continuation; the sender always returns, because *)
(* a request ends with its answer, with the connection or with shutdown.     *)
WorkerStep == \/ TakeBatch \/ Recheck \/ AbandonBatch
              \/ \E outcome \in Outcomes : Complete(outcome)

BatcherSpec == BatcherInit /\ [][BatcherNext]_bvars
FairBatcherSpec == BatcherSpec /\ WF_bvars(WorkerStep)

-----------------------------------------------------------------------------
(* A waiting call belongs to exactly one of the two batches, and a batch has *)
(* only waiting calls: no completion is dropped or answered twice when       *)
(* batches change hands.                                                     *)
WaitingCallsAreOwned ==
  /\ {v \in Versions : results[v] = "waiting"} = CallsOf(pending) \cup CallsOf(inflight)
  /\ CallsOf(pending) \cap CallsOf(inflight) = {}

(* No lost wake-up: something queued always has a worker to send it, even    *)
(* when it is queued between the end of a send and the worker's last check.  *)
NoStrandedBatch == pending # NoBatch => worker # "none"

(* A batch carries its newest version, and everything collected is newer     *)
(* than everything already handed to the sender.                             *)
NewestWins ==
  /\ pending # NoBatch =>
       /\ pending.version = highestVersion
       /\ highestVersion \in pending.calls
       /\ \A v \in pending.calls : sent < v /\ v <= pending.version
  /\ inflight # NoBatch =>
       /\ inflight.version = sent
       /\ sent \in inflight.calls
       /\ \A v \in inflight.calls : v <= sent

(* The worker holds a batch exactly while it sends, finds one whenever the    *)
(* window ends, and sends only what was queued.  With the invariants above this is what every step preserves.     *)
WorkerHoldsBatch ==
  /\ inflight # NoBatch <=> worker = "sending"
  /\ worker = "window" => pending # NoBatch
  /\ sent <= highestVersion

BatcherInv ==
  BatcherTypeOK /\ WaitingCallsAreOwned /\ NoStrandedBatch /\ NewestWins /\ WorkerHoldsBatch

(* The versions that reach the Host strictly increase: an overtaken version  *)
(* can not go out after the one that overtook it.                            *)
SentOnlyIncreases == [][sent' # sent => sent' > sent]_bvars

(* Every queued call is answered, whatever the sender does and whenever the  *)
(* batcher is disposed.                                                      *)
EveryCallAnswered == \A v \in Versions : results[v] = "waiting" ~> results[v] # "waiting"

(* The batcher implements the promise of SnapshotDelivery.                   *)
Delivery == INSTANCE SnapshotDelivery WITH offered <- highestVersion, delivered <- sent
DeliverySpec == Delivery!DSpec
=============================================================================
