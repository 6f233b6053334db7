--------------------------- MODULE ConfigSyncProofs ---------------------------
(***************************************************************************)
(* Proofs about SnapshotBatcher for every number of versions and every set  *)
(* of snapshots: BatcherInv is inductive, the safety invariants the runs    *)
(* check are its conjuncts, and the batcher implements SnapshotDelivery.    *)
(* Then about ConfigSync for any number of versions, contents, crashes and  *)
(* changes by scripts: the batcher inside is SnapshotBatcher, and with its  *)
(* invariant those of the pipe and of the Host's state.                     *)
(***************************************************************************)
EXTENDS ConfigSync, SequenceFacts

LEMMA InitInv == BatcherInit => BatcherInv
<1> SUFFICES ASSUME BatcherInit PROVE BatcherInv
  OBVIOUS
<1> USE DEF BatcherInit
<1>1. BatcherTypeOK
  <2>1. results \in [Versions -> CallStates]
    BY DEF CallStates
  <2>2. 0 \in 0..MaxVersion
    BY BatcherAssumption
  <2> QED BY <2>1, <2>2 DEF BatcherTypeOK, WorkerStates
<1>2. WaitingCallsAreOwned
  BY DEF WaitingCallsAreOwned, CallsOf
<1>3. NoStrandedBatch /\ NewestWins /\ WorkerHoldsBatch
  BY DEF NoStrandedBatch, NewestWins, WorkerHoldsBatch
<1> QED BY <1>1, <1>2, <1>3 DEF BatcherInv

LEMMA QueuePreserves ==
  ASSUME NEW version \in Versions, NEW snapshot \in Snapshots, BatcherInv,
         QueueAsync(version, snapshot)
  PROVE  BatcherInv'
<1> USE DEF BatcherInv, QueueAsync, Increases, BatchWith
<1>1. pending' \in Batches /\ pending' # NoBatch
  BY BatcherAssumption DEF BatcherTypeOK, Batches, CallsOf, Versions
<1>2. BatcherTypeOK'
  BY <1>1 DEF BatcherTypeOK, Versions, CallStates, WorkerStates
<1>3. version \notin CallsOf(inflight)
  BY BatcherAssumption DEF NewestWins, WorkerHoldsBatch, CallsOf, BatcherTypeOK, Batches, Versions
<1>4. CallsOf(pending)' = {version} \cup CallsOf(pending)
  BY <1>1 DEF CallsOf
<1>5. WaitingCallsAreOwned'
  <2>1. {v \in Versions : results'[v] = "waiting"}
          = {version} \cup {v \in Versions : results[v] = "waiting"}
    BY DEF BatcherTypeOK
  <2>2. CallsOf(inflight)' = CallsOf(inflight)
    BY DEF CallsOf
  <2> QED BY <1>3, <1>4, <2>1, <2>2 DEF WaitingCallsAreOwned
<1>6. NoStrandedBatch'
  BY <1>1 DEF NoStrandedBatch, BatcherTypeOK, WorkerStates
<1>7. NewestWins'
  <2>1. sent < version
    BY BatcherAssumption DEF WorkerHoldsBatch, BatcherTypeOK, Versions
  <2>2. \A v \in pending'.calls : sent < v /\ v <= version
    BY <2>1, BatcherAssumption DEF NewestWins, CallsOf, BatcherTypeOK, Batches, Versions
  <2> QED BY <2>2 DEF NewestWins
<1>8. WorkerHoldsBatch'
  <2>1. sent <= version
    BY BatcherAssumption DEF WorkerHoldsBatch, BatcherTypeOK, Versions
  <2> QED BY <1>1, <2>1 DEF WorkerHoldsBatch
<1> QED BY <1>2, <1>5, <1>6, <1>7, <1>8

LEMMA TakePreserves ==
  ASSUME BatcherInv, TakeBatch
  PROVE  BatcherInv'
<1> USE DEF BatcherInv, TakeBatch
<1>1. inflight = NoBatch /\ pending # NoBatch
  BY DEF WorkerHoldsBatch
<1>2. pending \in Batches /\ pending.version \in Versions
  BY <1>1 DEF BatcherTypeOK, Batches
<1>3. BatcherTypeOK'
  <2>1. worker' = "sending" /\ sent' \in 0..MaxVersion
    BY <1>1, <1>2, BatcherAssumption DEF Versions
  <2> QED BY <1>2, <2>1 DEF BatcherTypeOK, WorkerStates
<1>4. WaitingCallsAreOwned'
  BY <1>1 DEF WaitingCallsAreOwned, CallsOf
<1>5. NoStrandedBatch'
  BY DEF NoStrandedBatch
<1>6. NewestWins'
  BY <1>1, <1>2 DEF NewestWins
<1>7. WorkerHoldsBatch'
  BY <1>1, <1>2, BatcherAssumption DEF WorkerHoldsBatch, NewestWins, BatcherTypeOK, Versions
<1> QED BY <1>3, <1>4, <1>5, <1>6, <1>7

LEMMA CompletePreserves ==
  ASSUME NEW outcome \in Outcomes, BatcherInv, Complete(outcome)
  PROVE  BatcherInv'
<1> USE DEF BatcherInv, Complete, Answered
<1>1. BatcherTypeOK'
  BY DEF BatcherTypeOK, CallStates, WorkerStates
<1>2. WaitingCallsAreOwned'
  <2>1. CallsOf(inflight) = inflight.calls
    BY DEF WorkerHoldsBatch, CallsOf
  <2>2. {v \in Versions : results'[v] = "waiting"} = CallsOf(pending)
    BY <2>1, BatcherAssumption DEF WaitingCallsAreOwned, BatcherTypeOK
  <2> QED BY <2>2 DEF WaitingCallsAreOwned, CallsOf
<1>3. NoStrandedBatch'
  BY DEF NoStrandedBatch
<1>4. NewestWins' /\ WorkerHoldsBatch'
  BY DEF NewestWins, WorkerHoldsBatch, NoStrandedBatch
<1> QED BY <1>1, <1>2, <1>3, <1>4

LEMMA AbandonPreserves ==
  ASSUME BatcherInv, AbandonBatch
  PROVE  BatcherInv'
<1> USE DEF BatcherInv, AbandonBatch, Abandoned, Answered
<1>1. inflight = NoBatch
  BY DEF WorkerHoldsBatch
<1>2. BatcherTypeOK'
  BY DEF BatcherTypeOK, CallStates, WorkerStates
<1>3. WaitingCallsAreOwned'
  BY <1>1 DEF WaitingCallsAreOwned, CallsOf, BatcherTypeOK
<1>4. NoStrandedBatch' /\ NewestWins' /\ WorkerHoldsBatch'
  BY <1>1 DEF NoStrandedBatch, NewestWins, WorkerHoldsBatch
<1> QED BY <1>2, <1>3, <1>4

(* Steps that move only the worker or the shutdown flag.                    *)
LEMMA QuietPreserves ==
  ASSUME BatcherInv, Recheck \/ DisposeBatcher \/ UNCHANGED bvars
  PROVE  BatcherInv'
  BY DEF BatcherInv, BatcherTypeOK, WaitingCallsAreOwned, NoStrandedBatch, NewestWins,
         WorkerHoldsBatch, CallsOf, Recheck, RetireUnlessMore, DisposeBatcher, bvars,
         WorkerStates

LEMMA NextPreserves == BatcherInv /\ [BatcherNext]_bvars => BatcherInv'
  BY QueuePreserves, TakePreserves, CompletePreserves, AbandonPreserves, QuietPreserves
  DEF BatcherNext

(* In every reachable state of the batcher all of its invariants hold, for  *)
(* any number of versions and snapshots.                                    *)
THEOREM BatcherInvariant == BatcherSpec => []BatcherInv
  BY InitInv, NextPreserves, PTL DEF BatcherSpec

(* RunAsync and QueueAsync lose no completion and answer none twice.        *)
THEOREM BatcherOwnsCalls == BatcherSpec => []WaitingCallsAreOwned
  BY BatcherInvariant, PTL DEF BatcherInv

(* A queued batch always has a worker: RunAsync never retires past one.     *)
THEOREM BatcherNeverStrands == BatcherSpec => []NoStrandedBatch
  BY BatcherInvariant, PTL DEF BatcherInv

(* The versions RunAsync hands to the sender strictly increase.             *)
THEOREM BatcherSendsInOrder == BatcherSpec => SentOnlyIncreases
<1>1. BatcherInv /\ [BatcherNext]_bvars => [sent' # sent => sent' > sent]_bvars
  <2> SUFFICES ASSUME BatcherInv, BatcherNext, sent' # sent
               PROVE  sent' > sent
    OBVIOUS
  <2>1. TakeBatch
    BY DEF BatcherNext, QueueAsync, Complete, Recheck, AbandonBatch, DisposeBatcher
  <2> QED BY <2>1, BatcherAssumption
          DEF TakeBatch, BatcherInv, NewestWins, WorkerHoldsBatch, BatcherTypeOK, Batches, Versions
<1> QED BY <1>1, BatcherInvariant, PTL DEF BatcherSpec, SentOnlyIncreases

-----------------------------------------------------------------------------
(* The refinement, action by action.                                        *)
LEMMA QueueIsOffer ==
  ASSUME NEW version \in Versions, NEW snapshot \in Snapshots, BatcherInv,
         QueueAsync(version, snapshot)
  PROVE  Delivery!Offer
  BY DEF QueueAsync, Increases, Delivery!Offer, Delivery!Calls, Versions

LEMMA TakeIsDeliver ==
  ASSUME BatcherInv, TakeBatch
  PROVE  Delivery!Deliver
<1>1. /\ pending # NoBatch
      /\ highestVersion \in CallsOf(pending) /\ pending.version = highestVersion
  BY DEF BatcherInv, NewestWins, WorkerHoldsBatch, TakeBatch, CallsOf
<1>2. highestVersion \in Versions /\ results[highestVersion] = "waiting"
  BY <1>1 DEF BatcherInv, WaitingCallsAreOwned
<1>3. highestVersion > sent
  BY <1>1, <1>2, BatcherAssumption
  DEF BatcherInv, NewestWins, TakeBatch, BatcherTypeOK, Versions
<1> QED BY <1>1, <1>2, <1>3 DEF TakeBatch, Delivery!Deliver, Delivery!Calls, Versions

LEMMA CompleteIsAnswer ==
  ASSUME NEW outcome \in Outcomes, BatcherInv, Complete(outcome)
  PROVE  Delivery!Answer
<1>1. inflight # NoBatch /\ CallsOf(inflight) = inflight.calls
  BY DEF Complete, BatcherInv, WorkerHoldsBatch, CallsOf
<1>2. sent \in Versions /\ results[sent] = "waiting"
  BY <1>1 DEF BatcherInv, NewestWins, WaitingCallsAreOwned
<1>3. ASSUME NEW v \in Versions
      PROVE  v \in inflight.calls <=> v <= sent /\ results[v] = "waiting"
  <2>1. results[v] = "waiting" <=> v \in CallsOf(pending) \cup inflight.calls
    BY <1>1 DEF BatcherInv, WaitingCallsAreOwned
  <2>2. v \in inflight.calls => v <= sent
    BY <1>1 DEF BatcherInv, NewestWins
  <2>3. v \in CallsOf(pending) => ~(v <= sent)
    BY BatcherAssumption DEF BatcherInv, NewestWins, CallsOf, BatcherTypeOK, Versions
  <2> QED BY <2>1, <2>2, <2>3
<1>4. results' = [c \in Versions |-> IF c <= sent /\ results[c] = "waiting"
                                       THEN outcome ELSE results[c]]
  BY <1>3 DEF Complete, Answered
<1>5. sent > 0
  BY <1>2, BatcherAssumption DEF Versions
<1> QED BY <1>2, <1>4, <1>5
        DEF Complete, Delivery!Answer, Delivery!Calls, Versions

LEMMA AbandonIsAbandon ==
  ASSUME BatcherInv, AbandonBatch
  PROVE  Delivery!Abandon \/ UNCHANGED <<highestVersion, sent, results>>
<1>1. inflight = NoBatch
  BY DEF AbandonBatch, BatcherInv, WorkerHoldsBatch
<1>2. CASE pending = NoBatch
  <2>1. results' = results
    BY <1>2 DEF AbandonBatch, Abandoned, Answered, CallsOf, BatcherInv, BatcherTypeOK
  <2> QED BY <2>1 DEF AbandonBatch
<1>3. CASE pending # NoBatch
  <2>1. \A v \in Versions : results[v] = "waiting" <=> v \in pending.calls
    BY <1>1, <1>3 DEF BatcherInv, WaitingCallsAreOwned, CallsOf
  <2>2. \A v \in pending.calls : v > sent
    BY <1>3, BatcherAssumption
    DEF BatcherInv, NewestWins, BatcherTypeOK, Batches, Versions
  <2>3. results' = [c \in Versions |-> IF c > sent /\ results[c] = "waiting"
                                         THEN "cancelled" ELSE results[c]]
    BY <1>3, <2>1, <2>2 DEF AbandonBatch, Abandoned, Answered, CallsOf
  <2>4. highestVersion \in Versions /\ highestVersion > sent
          /\ results[highestVersion] = "waiting"
    BY <1>3, <2>1, <2>2 DEF BatcherInv, NewestWins, BatcherTypeOK, Batches
  <2> QED BY <2>3, <2>4 DEF AbandonBatch, Delivery!Abandon, Delivery!Calls, Versions
<1> QED BY <1>2, <1>3

LEMMA StepsRefine ==
  BatcherInv /\ [BatcherNext]_bvars => [Delivery!DNext]_(Delivery!dvars)
<1> SUFFICES ASSUME BatcherInv, [BatcherNext]_bvars
             PROVE  Delivery!DNext \/ UNCHANGED <<highestVersion, sent, results>>
  BY DEF Delivery!dvars
<1>1. ASSUME NEW v \in Versions, NEW s \in Snapshots, QueueAsync(v, s)
      PROVE  Delivery!DNext
  BY <1>1, QueueIsOffer DEF Delivery!DNext
<1>2. CASE TakeBatch
  BY <1>2, TakeIsDeliver DEF Delivery!DNext
<1>3. ASSUME NEW o \in Outcomes, Complete(o)
      PROVE  Delivery!DNext
  BY <1>3, CompleteIsAnswer DEF Delivery!DNext
<1>4. CASE AbandonBatch
  BY <1>4, AbandonIsAbandon DEF Delivery!DNext
<1>5. CASE Recheck \/ DisposeBatcher \/ UNCHANGED bvars
  BY <1>5 DEF Recheck, DisposeBatcher, bvars
<1> QED BY <1>1, <1>2, <1>3, <1>4, <1>5 DEF BatcherNext

(* The batcher implements the promise of SnapshotDelivery: versions go out  *)
(* in increasing order and a delivery answers exactly what it supersedes.   *)
THEOREM BatcherImplementsDelivery == BatcherSpec => DeliverySpec
<1>1. BatcherInit => Delivery!DInit
  BY DEF BatcherInit, Delivery!DInit, Delivery!Calls, Versions
<1> QED BY <1>1, StepsRefine, BatcherInvariant, PTL DEF BatcherSpec, DeliverySpec, Delivery!DSpec

-----------------------------------------------------------------------------
(***************************************************************************)
(* The pipe and the Host.                                                   *)
(***************************************************************************)

-----------------------------------------------------------------------------
(* What is left in the pipe of an ApplySnapshot.                            *)
TrafficKinds == {"Apply", "ApplyAck", "ApplyError", "HandshakeError"}
Busy(seq) == \E m \in Range(seq) : m.kind \in TrafficKinds
Single(seq) ==
  \A i, j \in 1..Len(seq) : seq[i].kind \in TrafficKinds /\ seq[j].kind \in TrafficKinds => i = j

LEMMA EmptySingle == Single(<<>>) /\ ~Busy(<<>>)
  BY EmptyRange DEF Single, Busy

LEMMA AppendSingle ==
  ASSUME NEW S, NEW seq \in Seq(S), NEW m \in S, Single(seq), m.kind \notin TrafficKinds \/ ~Busy(seq)
  PROVE  Single(Append(seq, m))
<1>1. /\ Len(Append(seq, m)) = Len(seq) + 1 /\ Len(seq) \in Nat
      /\ \A i \in 1..Len(seq) : Append(seq, m)[i] = seq[i] /\ seq[i] \in Range(seq)
      /\ Append(seq, m)[Len(seq) + 1] = m
  BY DEF Range
<1>2. ASSUME NEW i \in 1..(Len(seq) + 1), NEW j \in 1..(Len(seq) + 1),
             Append(seq, m)[i].kind \in TrafficKinds, Append(seq, m)[j].kind \in TrafficKinds
      PROVE  i = j
  <2>1. (i \in 1..Len(seq) \/ i = Len(seq) + 1) /\ (j \in 1..Len(seq) \/ j = Len(seq) + 1)
    BY <1>1
  <2>2. CASE i \in 1..Len(seq) /\ j \in 1..Len(seq)
    BY <1>1, <1>2, <2>2 DEF Single
  <2>3. i \in 1..Len(seq) => Busy(seq)
    BY <1>1, <1>2 DEF Busy
  <2>4. j \in 1..Len(seq) => Busy(seq)
    BY <1>1, <1>2 DEF Busy
  <2>5. (i = Len(seq) + 1 \/ j = Len(seq) + 1) => m.kind \in TrafficKinds
    BY <1>1, <1>2
  <2> QED BY <2>1, <2>2, <2>3, <2>4, <2>5
<1> QED BY <1>1, <1>2 DEF Single

LEMMA TailSingle ==
  ASSUME NEW S, NEW seq \in Seq(S), seq # <<>>, Single(seq)
  PROVE  /\ Single(Tail(seq))
         /\ Head(seq).kind \in TrafficKinds => ~Busy(Tail(seq))
<1>1. /\ Len(Tail(seq)) = Len(seq) - 1 /\ Len(seq) \in Nat \ {0} /\ Head(seq) = seq[1]
      /\ \A i \in 1..(Len(seq) - 1) : Tail(seq)[i] = seq[i + 1]
  OBVIOUS
<1>2. Range(Tail(seq)) = {Tail(seq)[i] : i \in 1..(Len(seq) - 1)}
  <2>1. DOMAIN Tail(seq) = 1..(Len(seq) - 1)
    BY <1>1
  <2> QED BY <2>1 DEF Range
<1>3. Single(Tail(seq))
  BY <1>1 DEF Single
<1>4. ASSUME NEW i \in 1..(Len(seq) - 1), Head(seq).kind \in TrafficKinds
      PROVE  Tail(seq)[i].kind \notin TrafficKinds
  <2>1. 1 \in 1..Len(seq) /\ i + 1 \in 1..Len(seq) /\ i + 1 # 1
    BY <1>1
  <2> QED BY <1>1, <1>4, <2>1 DEF Single
<1> QED BY <1>2, <1>3, <1>4 DEF Busy

-----------------------------------------------------------------------------
(* Types, with the bounds they rest on: the Host is ahead of the user       *)
(* interface only by what its scripts have published.                       *)

Texts == Contents \cup {0}
Requests == [kind : {"Hello", "GetState", "Apply"}, version : 0..MaxVersion, content : Texts]
Replies == [kind : Kinds, version : 0..(MaxVersion + MaxPublishes), content : Texts]

UiTypeOK ==
  /\ document \in Documents /\ accepted \in Documents
  /\ candidate \in [Versions -> Documents]
  /\ observer \in [Versions -> {"none", "waiting", "reverting", "done"}]
  /\ nextVersion \in 0..(MaxVersion + MaxPublishes + 1)
  /\ made \in Contents
ClientTypeOK ==
  /\ posts \in Seq(Replies) /\ answer \in Replies
  /\ conn \in {"down", "opened", "hello", "greeted", "asking", "answered", "ready"}
  /\ receiving \in BOOLEAN /\ awaiting \in BOOLEAN
PipeTypeOK ==
  /\ reqs \in Seq(Requests) /\ resps \in Seq(Replies)
  /\ serving \in BOOLEAN /\ authenticated \in BOOLEAN
  /\ reply \in Replies /\ notice \in Replies
  /\ notifier \in -1..MaxPublishes /\ startRevision \in 0..MaxPublishes
HostTypeOK ==
  /\ hostRevision \in 0..MaxPublishes
  /\ hostVersion \in 0..(MaxVersion + hostRevision) /\ hostContent \in Texts
  /\ crashes \in 0..MaxCrashes
TypesOK == UiTypeOK /\ ClientTypeOK /\ PipeTypeOK /\ HostTypeOK

LEMMA ContentsAreNumbers == Contents \subseteq Nat \ {0} /\ 1 \in Contents
  BY SyncAssumption DEF Contents

LEMMA NoMessageTyped == NoMessage \in Replies /\ NoMessage.content = 0 /\ NoMessage.kind = "none"
  BY BatcherAssumption, SyncAssumption DEF NoMessage, Message, Replies, Kinds, Texts

LEMMA MessageTyped ==
  ASSUME NEW kind \in Kinds, NEW version \in 0..(MaxVersion + MaxPublishes), NEW content \in Texts
  PROVE  /\ Message(kind, version, content) \in Replies
         /\ Message(kind, version, content).kind = kind
         /\ Message(kind, version, content).version = version
         /\ Message(kind, version, content).content = content
  BY DEF Message, Replies

LEMMA InitTypes == SyncInit => TypesOK
<1> SUFFICES ASSUME SyncInit PROVE TypesOK
  OBVIOUS
<1>1. document \in Documents
  BY ContentsAreNumbers DEF SyncInit, Documents
<1>2. UiTypeOK
  BY <1>1, ContentsAreNumbers, BatcherAssumption, SyncAssumption DEF SyncInit, UiTypeOK
<1>3. ClientTypeOK /\ PipeTypeOK
  <2>1. -1 \in -1..MaxPublishes /\ 0 \in 0..MaxPublishes
    BY SyncAssumption
  <2> QED BY <2>1, NoMessageTyped, EmptyRange DEF SyncInit, ClientTypeOK, PipeTypeOK
<1>4. HostTypeOK
  BY BatcherAssumption, SyncAssumption DEF SyncInit, HostTypeOK, Texts
<1> QED BY <1>2, <1>3, <1>4 DEF TypesOK

(* The steps that change nothing but the pipe's ends, one by one.           *)
LEMMA UserTypes ==
  ASSUME TypesOK, Edit \/ HandlePost
  PROVE  TypesOK'
<1> USE DEF TypesOK, UiTypeOK, ClientTypeOK, PipeTypeOK, HostTypeOK
<1>1. CASE Edit
  <2>1. document' \in Documents /\ made' \in Contents
    BY <1>1 DEF Edit, Documents
  <2>2. nextVersion \in Versions /\ nextVersion' = nextVersion + 1
    BY <1>1 DEF Edit, QueueHostSnapshot
  <2>3. nextVersion' \in 0..(MaxVersion + MaxPublishes + 1)
    BY <2>2, BatcherAssumption, SyncAssumption DEF Versions
  <2>4. /\ candidate' \in [Versions -> Documents]
        /\ observer' \in [Versions -> {"none", "waiting", "reverting", "done"}]
    BY <1>1, <2>1 DEF Edit, QueueHostSnapshot
  <2> QED BY <1>1, <2>1, <2>3, <2>4 DEF Edit, clientVars, sessionVars, hostVars
<1>2. CASE HandlePost
  <2> DEFINE state == Head(posts)
             next == VersionAfter(state.version)
  <2>1. posts # <<>> /\ posts' = Tail(posts)
    BY <1>2 DEF HandlePost
  <2>2. state \in Replies /\ posts' \in Seq(Replies)
    BY <2>1, TailRange
  <2>3. next \in 0..(MaxVersion + MaxPublishes + 1)
    BY <2>2, BatcherAssumption, SyncAssumption DEF VersionAfter, Replies
  <2> HIDE DEF state, next
  <2>4. CASE state.content = 0 /\ FillEmptyHost(next) /\ UNCHANGED <<document, accepted>>
    <3>1. next \in Versions /\ nextVersion' = next + 1
      BY <2>4 DEF FillEmptyHost, QueueHostSnapshot
    <3>2. nextVersion' \in 0..(MaxVersion + MaxPublishes + 1)
      BY <3>1, BatcherAssumption, SyncAssumption DEF Versions
    <3>3. /\ candidate' \in [Versions -> Documents]
          /\ observer' \in [Versions -> {"none", "waiting", "reverting", "done"}]
      BY <2>4 DEF FillEmptyHost, QueueHostSnapshot
    <3> QED BY <1>2, <2>2, <2>4, <3>2, <3>3 DEF HandlePost, clientVars, sessionVars, hostVars
  <2>5. CASE /\ state.content # 0
             /\ document' = [content |-> state.content, local |-> FALSE] /\ accepted' = document'
             /\ nextVersion' = next
             /\ UNCHANGED <<bvars, candidate, observer>>
    <3>1. document' \in Documents
      BY <2>2, <2>5 DEF Replies, Texts, Documents
    <3> QED BY <1>2, <2>2, <2>3, <2>5, <3>1 DEF HandlePost, clientVars, sessionVars, hostVars
  <2> QED BY <1>2, <2>4, <2>5 DEF HandlePost, state, next
<1> QED BY <1>1, <1>2

LEMMA ObserverTypes ==
  ASSUME TypesOK, NEW v \in Versions, Observer(v)
  PROVE  TypesOK'
  BY DEF TypesOK, UiTypeOK, ClientTypeOK, PipeTypeOK, HostTypeOK, Observer,
         ObserveAck, ObserveRejection, Revert, ObserveFailure, clientVars, sessionVars, hostVars

LEMMA WorkerTypes ==
  ASSUME BatcherInv, TypesOK, Worker
  PROVE  TypesOK'
<1> USE DEF TypesOK, UiTypeOK, ClientTypeOK, PipeTypeOK, HostTypeOK
<1>1. CASE BatcherTurn \/ TakeDisconnected \/ SendFails
  BY <1>1 DEF BatcherTurn, TakeDisconnected, SendFails, uiVars, clientVars, sessionVars, hostVars
<1>2. CASE SendApply
  <2>1. pending \in Batches
    BY <1>2 DEF SendApply, TakeBatch, BatcherInv, BatcherTypeOK, WorkerHoldsBatch
  <2>2. Message("Apply", pending.version, pending.snapshot) \in Requests
    BY <2>1, BatcherAssumption DEF Batches, Versions, Requests, Texts, Contents, Message
  <2>3. reqs' \in Seq(Requests)
    BY <1>2, <2>2, AppendRange DEF SendApply
  <2> QED BY <1>2, <2>3 DEF SendApply, uiVars, clientVars, sessionVars, hostVars
<1> QED BY <1>1, <1>2 DEF Worker

LEMMA LoopTypes ==
  ASSUME TypesOK, ConnectionLoop
  PROVE  TypesOK'
<1> USE DEF TypesOK, UiTypeOK, ClientTypeOK, PipeTypeOK, HostTypeOK
<1>1. CASE Connect
  <2>1. -1 \in -1..MaxPublishes /\ hostRevision \in 0..MaxPublishes
    BY SyncAssumption
  <2> QED BY <1>1, <2>1, NoMessageTyped, EmptyRange DEF Connect, uiVars, hostVars
<1>2. ASSUME NEW kind \in {"Hello", "GetState"}, NEW from, NEW to \in {"hello", "asking"},
             LoopSends(kind, from, to)
      PROVE  TypesOK'
  <2>1. Message(kind, 0, 0) \in Requests
    BY BatcherAssumption DEF Message, Requests, Texts
  <2>2. reqs' \in Seq(Requests)
    BY <1>2, <2>1, AppendRange DEF LoopSends
  <2> QED BY <1>2, <2>2 DEF LoopSends, uiVars, sessionVars, hostVars
<1>3. CASE PostState
  <2>1. posts' \in Seq(Replies)
    BY <1>3, AppendRange DEF PostState
  <2> QED BY <1>3, <2>1, NoMessageTyped DEF PostState, uiVars, sessionVars, hostVars
<1>4. CASE LoopRestarts
  BY <1>4 DEF LoopRestarts, uiVars, sessionVars, hostVars
<1> QED BY <1>1, <1>2, <1>3, <1>4 DEF ConnectionLoop, SendHello, SendGetState

LEMMA ReceiverTypes ==
  ASSUME TypesOK, ReceiveLoop
  PROVE  TypesOK'
<1> USE DEF TypesOK, UiTypeOK, ClientTypeOK, PipeTypeOK, HostTypeOK
<1>1. CASE Receive
  <2>1. Head(resps) \in Replies /\ resps' \in Seq(Replies)
    BY <1>1, TailRange DEF Receive
  <2>2. Append(posts, Head(resps)) \in Seq(Replies)
    BY <2>1, AppendRange
  <2>3. ClientTypeOK'
    BY <1>1, <2>1, <2>2 DEF Receive, ReceiveAnswer, ReceiveState
  <2> QED BY <1>1, <2>1, <2>3 DEF Receive, uiVars, sessionVars, hostVars
<1>2. CASE ReceiveEnds
  BY <1>2, EmptyRange DEF ReceiveEnds, FailPending, uiVars, sessionVars, hostVars
<1> QED BY <1>1, <1>2 DEF ReceiveLoop

LEMMA HandlerTypes ==
  ASSUME TypesOK, HandleRequest
  PROVE  TypesOK'
<1> USE DEF TypesOK, UiTypeOK, ClientTypeOK, PipeTypeOK, HostTypeOK
<1> DEFINE m == Head(reqs)
<1>1. m \in Requests /\ reqs' \in Seq(Requests)
  BY TailRange DEF HandleRequest, Idle
<1>2. /\ m.version \in 0..(MaxVersion + MaxPublishes) /\ m.content \in Texts
      /\ hostVersion \in 0..(MaxVersion + MaxPublishes) /\ 0 \in Texts
      /\ 0 \in 0..(MaxVersion + MaxPublishes)
  BY <1>1, BatcherAssumption, SyncAssumption DEF Requests, Texts
<1>3. /\ Message("HelloAck", 0, 0) \in Replies
      /\ Message("HandshakeError", m.version, 0) \in Replies
      /\ Message("State", hostVersion, hostContent) \in Replies
      /\ Message("ApplyAck", m.version, 0) \in Replies
      /\ Message("ApplyError", m.version, 0) \in Replies
  BY <1>2, MessageTyped DEF Kinds
<1>4. m.version \in 0..(MaxVersion + hostRevision)
  BY <1>1, BatcherAssumption, SyncAssumption DEF Requests
<1> HIDE DEF m
<1>5. reply' \in Replies /\ hostVersion' \in 0..(MaxVersion + hostRevision) /\ hostContent' \in Texts
  BY <1>2, <1>3, <1>4 DEF HandleRequest, HandleApply, Refuse, m
<1>6. authenticated' \in BOOLEAN
  BY DEF HandleRequest
<1> QED BY <1>1, <1>5, <1>6 DEF HandleRequest, uiVars, clientVars

LEMMA ServerTypes ==
  ASSUME TypesOK, WriteReply \/ NotifyRead \/ NotifyWrite \/ Publish \/ Crash
  PROVE  TypesOK'
<1> USE DEF TypesOK, UiTypeOK, ClientTypeOK, PipeTypeOK, HostTypeOK
<1>1. CASE WriteReply
  <2>1. resps' \in Seq(Replies)
    BY <1>1, AppendRange DEF WriteReply
  <2>2. notifier' \in -1..MaxPublishes
    BY <1>1, SyncAssumption DEF WriteReply
  <2>3. serving' \in BOOLEAN
    BY <1>1 DEF WriteReply
  <2> QED BY <1>1, <2>1, <2>2, <2>3, NoMessageTyped DEF WriteReply, uiVars, clientVars, hostVars
<1>2. CASE NotifyRead
  <2>1. notice' \in Replies /\ notifier' \in -1..MaxPublishes
    BY <1>2, MessageTyped, BatcherAssumption, SyncAssumption DEF NotifyRead, Kinds
  <2> QED BY <1>2, <2>1 DEF NotifyRead, uiVars, clientVars, hostVars
<1>3. CASE NotifyWrite
  <2>1. resps' \in Seq(Replies)
    BY <1>3, AppendRange DEF NotifyWrite
  <2> QED BY <1>3, <2>1, NoMessageTyped DEF NotifyWrite, uiVars, clientVars, hostVars
<1>4. CASE Publish
  <2>1. hostRevision' \in 0..MaxPublishes /\ hostVersion' \in 0..(MaxVersion + hostRevision')
    BY <1>4, BatcherAssumption, SyncAssumption DEF Publish
  <2>2. made' \in Contents /\ hostContent' \in Texts
    BY <1>4 DEF Publish, Texts
  <2> QED BY <1>4, <2>1, <2>2 DEF Publish, uiVars, clientVars, sessionVars
<1>5. CASE Crash
  <2>1. /\ hostRevision' \in 0..MaxPublishes /\ hostVersion' \in 0..(MaxVersion + hostRevision')
        /\ hostContent' \in Texts /\ crashes' \in 0..MaxCrashes
    BY <1>5, BatcherAssumption, SyncAssumption DEF Crash, Texts
  <2> QED BY <1>5, <2>1 DEF Crash, uiVars, clientVars
<1> QED BY <1>1, <1>2, <1>3, <1>4, <1>5

LEMMA TypesKept == BatcherInv /\ TypesOK /\ [SyncNext]_syncVars => TypesOK'
<1>1. ASSUME TypesOK, UNCHANGED syncVars PROVE TypesOK'
  BY <1>1 DEF TypesOK, UiTypeOK, ClientTypeOK, PipeTypeOK, HostTypeOK, syncVars, uiVars, clientVars,
              sessionVars, hostVars
<1> QED BY <1>1, UserTypes, ObserverTypes, WorkerTypes, LoopTypes, ReceiverTypes, HandlerTypes, ServerTypes
        DEF SyncNext, UIThread, IpcThread, NotificationThread

LEMMA TypesSuffice == BatcherInv /\ TypesOK => SyncTypeOK
<1> SUFFICES ASSUME BatcherInv, TypesOK PROVE SyncTypeOK
  OBVIOUS
<1> USE DEF TypesOK, UiTypeOK, ClientTypeOK, PipeTypeOK, HostTypeOK
<1>1. Replies \subseteq Messages /\ Requests \subseteq Messages
  BY BatcherAssumption, SyncAssumption DEF Replies, Requests, Messages, Numbers, Kinds, Texts
<1>2. posts \in Seq(Messages) /\ resps \in Seq(Messages) /\ reqs \in Seq(Messages)
  BY <1>1
<1>3. nextVersion \in Numbers /\ hostVersion \in Numbers
  BY BatcherAssumption, SyncAssumption DEF Numbers
<1>4. answer \in Messages /\ reply \in Messages /\ notice \in Messages
  BY <1>1
<1> QED BY <1>2, <1>3, <1>4 DEF SyncTypeOK, BatcherInv, Texts

-----------------------------------------------------------------------------
(* The batcher inside, step by step.                                        *)
LEMMA StepsAreBatcherSteps == TypesOK /\ [SyncNext]_syncVars => [BatcherNext]_bvars
<1> SUFFICES ASSUME TypesOK, SyncNext PROVE BatcherNext \/ UNCHANGED bvars
  BY DEF syncVars
<1>1. CASE Edit
  <2>1. nextVersion \in Versions /\ document'.content \in Snapshots
    BY <1>1 DEF Edit, QueueHostSnapshot, Contents
  <2> QED BY <1>1, <2>1 DEF Edit, QueueHostSnapshot, BatcherNext
<1>2. CASE HandlePost
  <2>1. document.content \in Snapshots
    BY DEF TypesOK, UiTypeOK, Documents, Contents
  <2> QED BY <1>2, <2>1 DEF HandlePost, FillEmptyHost, QueueHostSnapshot, BatcherNext
<1>3. CASE \E v \in Versions : Observer(v)
  BY <1>3 DEF Observer, ObserveAck, ObserveRejection, Revert, ObserveFailure
<1>4. CASE Worker
  BY <1>4, SyncAssumption DEF Worker, BatcherTurn, SendApply, TakeDisconnected, SendFails, BatcherNext
<1>5. CASE ConnectionLoop
  BY <1>5 DEF ConnectionLoop, Connect, SendHello, SendGetState, LoopSends, PostState, LoopRestarts
<1>6. CASE Receive
  <2>1. CASE ReceiveAnswer(Head(resps))
    <3>1. OutcomeOf(Head(resps).kind) \in Outcomes
      BY <2>1, SyncAssumption DEF ReceiveAnswer, OutcomeOf
    <3> QED BY <2>1, <3>1 DEF ReceiveAnswer, BatcherNext
  <2> QED BY <1>6, <2>1 DEF Receive, ReceiveState
<1>7. CASE ReceiveEnds \/ IpcThread \/ NotificationThread \/ Publish \/ Crash
  BY <1>7 DEF ReceiveEnds, IpcThread, HandleRequest, WriteReply, NotificationThread, NotifyRead, NotifyWrite,
              Publish, Crash
<1> QED BY <1>1, <1>2, <1>3, <1>4, <1>5, <1>6, <1>7 DEF SyncNext, UIThread, ReceiveLoop

LEMMA SyncTypes == SyncSpec => [](BatcherInv /\ TypesOK)
<1>1. SyncInit => BatcherInv /\ TypesOK
  BY InitInv, InitTypes DEF SyncInit
<1>2. BatcherInv /\ TypesOK /\ [SyncNext]_syncVars => (BatcherInv /\ TypesOK)'
  BY TypesKept, StepsAreBatcherSteps, NextPreserves
<1> QED BY <1>1, <1>2, PTL DEF SyncSpec

-----------------------------------------------------------------------------
(* The pipe.  While a client is served it is there to receive; a request    *)
(* other than Hello is behind the welcome; and of the batch being sent one  *)
(* message is under way, if any, which is the batch's and, acknowledged,    *)
(* true.                                                                    *)

Connected == serving => receiving /\ conn # "down"
Welcome == {"HelloAck", "State"}
Welcomed ==
  serving =>
    /\ conn \in {"greeted", "asking", "answered", "ready"} => authenticated
    /\ \A m \in Range(resps) \cup {reply} : m.kind \in Welcome => authenticated
    /\ \A m \in Range(reqs) : m.kind = "GetState" => authenticated
    /\ notice.kind \in {"none", "Changed"}
OneAnswer ==
  serving =>
    /\ Single(reqs) /\ Single(resps)
    /\ ~(Busy(reqs) /\ Busy(resps))
    /\ reply.kind \in TrafficKinds => ~Busy(reqs) /\ ~Busy(resps)
OfBatch(m) == m.kind \in TrafficKinds => worker = "sending" /\ awaiting /\ m.version = inflight.version
Carries(m) == m.kind = "Apply" => m.content = inflight.snapshot
InForce(m) ==
  m.kind = "ApplyAck" =>
    \/ hostVersion > m.version
    \/ hostVersion = m.version /\ hostContent = inflight.snapshot
Matched ==
  serving =>
    /\ \A m \in Range(reqs) : OfBatch(m) /\ Carries(m)
    /\ \A m \in Range(resps) \cup {reply} : OfBatch(m) /\ InForce(m)
PipeInv == Connected /\ Welcomed /\ OneAnswer /\ Matched

LEMMA PipeSuffices == PipeInv => AnswersMatchBatch
  BY DEF PipeInv, Matched, OfBatch, AnswersMatchBatch, ApplyTraffic, TrafficKinds

LEMMA InitPipe == SyncInit => PipeInv
  BY DEF SyncInit, PipeInv, Connected, Welcomed, OneAnswer, Matched

(* Nothing of a batch is under way before it is sent or after its answer.   *)
LEMMA NoTraffic ==
  ASSUME PipeInv, serving, worker # "sending" \/ ~awaiting
  PROVE  ~Busy(reqs) /\ ~Busy(resps) /\ reply.kind \notin TrafficKinds
  BY DEF PipeInv, Matched, OfBatch, Busy

LEMMA NotBusySingle == ASSUME NEW S, NEW seq \in Seq(S), ~Busy(seq) PROVE Single(seq)
<1>1. \A i \in 1..Len(seq) : seq[i] \in Range(seq)
  BY DEF Range
<1> QED BY <1>1 DEF Single, Busy

LEMMA NotServedNext == ~serving' => PipeInv'
  BY DEF PipeInv, Connected, Welcomed, OneAnswer, Matched

(* With nothing of a batch under way, OneAnswer and Matched say nothing.    *)
LEMMA NothingNext ==
  ASSUME TypesOK', ~Busy(reqs'), ~Busy(resps'), reply'.kind \notin TrafficKinds
  PROVE  OneAnswer' /\ Matched'
<1>1. Single(reqs') /\ Single(resps')
  BY NotBusySingle DEF TypesOK, PipeTypeOK
<1>2. OneAnswer'
  BY <1>1 DEF OneAnswer
<1>3. \A m \in Range(reqs') \cup Range(resps') \cup {reply'} : m.kind \notin TrafficKinds
  BY DEF Busy
<1>4. Matched'
  BY <1>3 DEF Matched, OfBatch, Carries, InForce, TrafficKinds
<1> QED BY <1>2, <1>4

(* Steps that put nothing into the pipe, and at most take from it.          *)
InSession(c) == c \in {"greeted", "asking", "answered", "ready"}
PipeStays == UNCHANGED <<serving, reqs, reply, notice, authenticated, receiving>>
RespsShrink == Range(resps') \subseteq Range(resps) /\ (Single(resps) => Single(resps'))
HostGrows == UNCHANGED <<hostVersion, hostContent>> \/ hostVersion' = hostVersion + 1
ConnMoves == (conn # "down" => conn' # "down") /\ (InSession(conn') => InSession(conn) \/ authenticated)
SendStays == worker = "sending" /\ awaiting => UNCHANGED <<worker, inflight, awaiting>>

LEMMA QuietPipe ==
  ASSUME TypesOK, PipeInv, PipeStays, RespsShrink, HostGrows, ConnMoves, SendStays
  PROVE  PipeInv'
<1> SUFFICES ASSUME serving, serving' PROVE PipeInv'
  BY NotServedNext DEF PipeStays
<1>1. Connected'
  BY DEF PipeInv, Connected, PipeStays, ConnMoves
<1>2. Welcomed'
  BY DEF PipeInv, Welcomed, PipeStays, RespsShrink, ConnMoves, InSession
<1>3. OneAnswer'
  BY DEF PipeInv, OneAnswer, Busy, PipeStays, RespsShrink
<1>4. ASSUME NEW m \in Range(reqs) PROVE (OfBatch(m) /\ Carries(m))'
  <2>1. OfBatch(m) /\ Carries(m) /\ (m.kind = "Apply" => m.kind \in TrafficKinds)
    BY DEF PipeInv, Matched, TrafficKinds
  <2> QED BY <2>1 DEF OfBatch, Carries, SendStays
<1>5. ASSUME NEW m \in Range(resps) \cup {reply} PROVE (OfBatch(m) /\ InForce(m))'
  <2>1. OfBatch(m) /\ InForce(m) /\ (m.kind = "ApplyAck" => m.kind \in TrafficKinds)
    BY DEF PipeInv, Matched, TrafficKinds
  <2>2. m.version \in Nat /\ hostVersion \in Nat
    <3>1. m \in Replies
      BY RangeTyped DEF TypesOK, PipeTypeOK
    <3> QED BY <3>1, BatcherAssumption, SyncAssumption DEF TypesOK, HostTypeOK, Replies
  <2>3. OfBatch(m)'
    BY <2>1 DEF OfBatch, SendStays
  <2>4. InForce(m)'
    BY <2>1, <2>2 DEF OfBatch, InForce, HostGrows, SendStays
  <2> QED BY <2>3, <2>4
<1>6. Matched'
  BY <1>4, <1>5 DEF Matched, PipeStays, RespsShrink
<1> QED BY <1>1, <1>2, <1>3, <1>6 DEF PipeInv

LEMMA RespsStay == UNCHANGED resps => RespsShrink
  BY DEF RespsShrink

LEMMA QuietSteps ==
  ASSUME BatcherInv, TypesOK, PipeInv,
         Edit \/ HandlePost \/ BatcherTurn \/ PostState \/ Publish \/ (\E v \in Versions : Observer(v))
  PROVE  PipeInv'
<1> USE DEF PipeStays, HostGrows, ConnMoves, SendStays, InSession
<1>1. CASE Edit
  BY <1>1, QuietPipe, RespsStay DEF Edit, QueueHostSnapshot, QueueAsync, clientVars, sessionVars, hostVars
<1>2. CASE HandlePost
  <2>1. UNCHANGED bvars \/ (\E next : FillEmptyHost(next))
    BY <1>2 DEF HandlePost
  <2>2. SendStays
    BY <1>2, <2>1 DEF HandlePost, FillEmptyHost, QueueHostSnapshot, QueueAsync, bvars
  <2> QED BY <1>2, <2>2, QuietPipe, RespsStay DEF HandlePost, clientVars, sessionVars, hostVars
<1>3. CASE BatcherTurn
  BY <1>3, QuietPipe, RespsStay DEF BatcherTurn, Recheck, clientVars, sessionVars, hostVars
<1>4. CASE PostState
  BY <1>4, QuietPipe, RespsStay DEF PostState, bvars, sessionVars, hostVars
<1>5. CASE Publish
  BY <1>5, QuietPipe, RespsStay DEF Publish, bvars, clientVars, sessionVars
<1>6. CASE \E v \in Versions : Observer(v)
  BY <1>6, QuietPipe, RespsStay DEF Observer, ObserveAck, ObserveRejection, Revert, ObserveFailure,
     bvars, clientVars, sessionVars, hostVars
<1> QED BY <1>1, <1>2, <1>3, <1>4, <1>5, <1>6

LEMMA GoneSteps ==
  ASSUME PipeInv, TakeDisconnected \/ LoopRestarts \/ ReceiveEnds \/ Crash
  PROVE  PipeInv'
<1>1. ~serving'
  BY DEF PipeInv, Connected, TakeDisconnected, LoopRestarts, ReceiveEnds, Crash, sessionVars
<1> QED BY <1>1, NotServedNext

LEMMA SendPipe ==
  ASSUME BatcherInv, TypesOK, PipeInv, SendApply \/ SendFails
  PROVE  PipeInv'
<1> SUFFICES ASSUME serving, serving' PROVE PipeInv'
  BY NotServedNext DEF SendApply, SendFails, sessionVars
<1>0. TypesOK'
  BY WorkerTypes DEF Worker
<1>1. ~Busy(reqs) /\ ~Busy(resps) /\ reply.kind \notin TrafficKinds
  BY NoTraffic DEF SendApply, TakeBatch, SendFails, SendMayThrow
<1>2. CASE SendFails
  <2>1. UNCHANGED <<serving, reqs, resps, reply, notice, authenticated, receiving, conn>>
    BY <1>2 DEF SendFails, clientVars, sessionVars
  <2>2. OneAnswer' /\ Matched'
    BY <1>0, <1>1, <2>1, NothingNext
  <2>3. Connected' /\ Welcomed'
    BY <2>1 DEF PipeInv, Connected, Welcomed
  <2> QED BY <2>2, <2>3 DEF PipeInv
<1>3. CASE SendApply
  <2>0. PICK m : m = Message("Apply", pending.version, pending.snapshot)
    OBVIOUS
  <2>1. /\ UNCHANGED <<serving, resps, reply, notice, authenticated, receiving, conn>>
        /\ reqs' = Append(reqs, m) /\ awaiting' = TRUE
    BY <1>3, <2>0 DEF SendApply, clientVars, sessionVars
  <2>2. /\ worker' = "sending" /\ inflight' = pending /\ pending \in Batches
    BY <1>3 DEF SendApply, TakeBatch, BatcherInv, WorkerHoldsBatch, BatcherTypeOK
  <2>3. m \in Requests /\ m.kind = "Apply" /\ m.version = pending.version /\ m.content = pending.snapshot
    BY <2>0, <2>2, BatcherAssumption DEF Batches, Versions, Requests, Texts, Contents, Message
  <2>4. Range(reqs') = Range(reqs) \cup {m} /\ Single(reqs')
    <3>1. reqs \in Seq(Requests) /\ Single(reqs)
      BY <1>1, NotBusySingle DEF TypesOK, PipeTypeOK
    <3> QED BY <1>1, <2>1, <2>3, <3>1, AppendRange, AppendSingle
  <2>5. Connected' /\ Welcomed'
    BY <2>1, <2>3, <2>4 DEF PipeInv, Connected, Welcomed
  <2>6. OneAnswer'
    <3>1. resps' \in Seq(Replies) /\ ~Busy(resps') /\ reply'.kind \notin TrafficKinds
      BY <1>0, <1>1, <2>1 DEF TypesOK, PipeTypeOK
    <3>2. Single(resps')
      BY <3>1, NotBusySingle
    <3> QED BY <2>4, <3>1, <3>2 DEF OneAnswer
  <2>7. \A r \in Range(resps) \cup {reply} \cup Range(reqs) : r.kind \notin TrafficKinds
    BY <1>1 DEF Busy
  <2>8. (OfBatch(m) /\ Carries(m))'
    BY <2>1, <2>2, <2>3 DEF OfBatch, Carries
  <2>9. Matched'
    BY <2>1, <2>4, <2>7, <2>8 DEF Matched, OfBatch, Carries, InForce, TrafficKinds
  <2> QED BY <2>5, <2>6, <2>9 DEF PipeInv
<1> QED BY <1>2, <1>3

LEMMA LoopPipe ==
  ASSUME TypesOK, PipeInv, Connect \/ SendHello \/ SendGetState
  PROVE  PipeInv'
<1>0. TypesOK'
  BY LoopTypes DEF ConnectionLoop
<1>1. CASE Connect
  <2>1. ~Busy(reqs') /\ ~Busy(resps') /\ reply'.kind \notin TrafficKinds
    BY <1>1, EmptySingle, NoMessageTyped DEF Connect, TrafficKinds
  <2>2. Connected' /\ Welcomed'
    BY <1>1, EmptyRange, NoMessageTyped DEF Connect, Connected, Welcomed, Welcome
  <2> QED BY <1>0, <2>1, <2>2, NothingNext DEF PipeInv
<1>2. ASSUME NEW kind \in {"Hello", "GetState"}, NEW from, NEW to \in {"hello", "asking"},
             LoopSends(kind, from, to), kind = "GetState" => from = "greeted" /\ to = "asking",
             kind = "Hello" => to = "hello"
      PROVE  PipeInv'
  <2>0. PICK m : m = Message(kind, 0, 0)
    OBVIOUS
  <2> SUFFICES ASSUME serving, serving' PROVE PipeInv'
    BY NotServedNext, <1>2 DEF LoopSends, sessionVars
  <2>1. /\ UNCHANGED <<serving, resps, reply, notice, authenticated, receiving, hostVersion, hostContent>>
        /\ UNCHANGED <<worker, inflight, awaiting>>
        /\ conn = from /\ conn' = to /\ reqs' = Append(reqs, m)
    BY <1>2, <2>0 DEF LoopSends, sessionVars, hostVars, bvars
  <2>2. m \in Requests /\ m.kind = kind /\ m.kind \notin TrafficKinds
    BY <2>0, BatcherAssumption DEF Requests, Texts, Message, TrafficKinds
  <2>3. reqs \in Seq(Requests) /\ Range(reqs') = Range(reqs) \cup {m}
    BY <2>1, <2>2, AppendRange DEF TypesOK, PipeTypeOK
  <2>4. Single(reqs') /\ (Busy(reqs') => Busy(reqs))
    <3>1. Single(reqs)
      BY DEF PipeInv, OneAnswer
    <3> QED BY <2>1, <2>2, <2>3, <3>1, AppendSingle DEF Busy
  <2>5. Connected' /\ Welcomed'
    BY <1>2, <2>1, <2>2, <2>3 DEF PipeInv, Connected, Welcomed
  <2>6. OneAnswer'
    BY <2>1, <2>4 DEF PipeInv, OneAnswer, Busy
  <2>7. Matched'
    BY <2>1, <2>2, <2>3 DEF PipeInv, Matched, OfBatch, Carries, InForce, TrafficKinds
  <2> QED BY <2>5, <2>6, <2>7 DEF PipeInv
<1>3. SendHello => PipeInv'
  BY <1>2 DEF SendHello
<1>4. SendGetState => PipeInv'
  BY <1>2 DEF SendGetState
<1> QED BY <1>1, <1>3, <1>4

LEMMA ReceivePipe ==
  ASSUME TypesOK, PipeInv, Receive
  PROVE  PipeInv'
<1> SUFFICES ASSUME serving, serving' PROVE PipeInv'
  BY NotServedNext DEF Receive, sessionVars
<1>0. TypesOK'
  BY ReceiverTypes DEF ReceiveLoop
<1>1. PICK m : m = Head(resps)
  OBVIOUS
<1>2. resps \in Seq(Replies) /\ resps # <<>> /\ resps' = Tail(resps)
  BY DEF TypesOK, PipeTypeOK, Receive
<1>3. m \in Range(resps) /\ Range(resps') \subseteq Range(resps)
  BY <1>1, <1>2, TailRange
<1>4. Single(resps) /\ Single(resps') /\ (m.kind \in TrafficKinds => ~Busy(resps'))
  BY <1>1, <1>2, TailSingle DEF PipeInv, OneAnswer
<1>5. UNCHANGED <<serving, reqs, reply, notice, authenticated, receiving, hostVersion, hostContent>>
  BY DEF Receive, sessionVars, hostVars
<1>6. CASE m.kind \in TrafficKinds
  <2>1. Busy(resps) /\ ~Busy(reqs) /\ reply.kind \notin TrafficKinds
    BY <1>3, <1>6 DEF PipeInv, OneAnswer, Busy
  <2>2. OneAnswer' /\ Matched'
    <3>1. ~Busy(reqs') /\ reply'.kind \notin TrafficKinds
      BY <1>5, <2>1
    <3> QED BY <1>0, <1>4, <1>6, <3>1, NothingNext
  <2>3. UNCHANGED conn
    BY <1>1, <1>6 DEF Receive, ReceiveAnswer, ReceiveState, TrafficKinds
  <2>4. Connected' /\ Welcomed'
    BY <1>3, <1>5, <2>3 DEF PipeInv, Connected, Welcomed
  <2> QED BY <2>2, <2>4 DEF PipeInv
<1>7. CASE m.kind \notin TrafficKinds
  <2>1. ReceiveState(m)
    BY <1>1, <1>7 DEF Receive, ReceiveAnswer, TrafficKinds
  <2>2. m.kind \in Welcome => authenticated
    BY <1>3 DEF PipeInv, Welcomed
  <2>3. ConnMoves
    BY <2>1, <2>2 DEF ReceiveState, ConnMoves, InSession, Welcome
  <2> QED BY <1>3, <1>4, <1>5, <2>1, <2>3, QuietPipe
          DEF PipeStays, RespsShrink, HostGrows, SendStays, ReceiveState, bvars
<1> QED BY <1>6, <1>7

LEMMA HandlePipe ==
  ASSUME TypesOK, PipeInv, HandleRequest
  PROVE  PipeInv'
<1>0. TypesOK'
  BY HandlerTypes
<1>1. PICK m : m = Head(reqs)
  OBVIOUS
<1>2. reqs \in Seq(Requests) /\ reqs # <<>> /\ reqs' = Tail(reqs) /\ serving /\ reply = NoMessage
  BY DEF TypesOK, PipeTypeOK, HandleRequest, Idle
<1>3. m \in Requests /\ m \in Range(reqs) /\ Range(reqs') \subseteq Range(reqs)
  BY <1>1, <1>2, TailRange
<1>4. Single(reqs) /\ Single(resps) /\ Single(reqs') /\ (m.kind \in TrafficKinds => ~Busy(reqs'))
  BY <1>1, <1>2, TailSingle DEF PipeInv, OneAnswer
<1>5. UNCHANGED <<serving, resps, notice, receiving, conn, worker, inflight, awaiting>>
  BY DEF HandleRequest, bvars, clientVars
<1>6. Connected'
  BY <1>5 DEF PipeInv, Connected
<1>7. OfBatch(m) /\ Carries(m) /\ (m.kind = "GetState" => authenticated)
  BY <1>2, <1>3 DEF PipeInv, Matched, Welcomed
<1>8. CASE m.kind \in {"Hello", "GetState"}
  <2>1. /\ authenticated' /\ UNCHANGED <<hostVersion, hostContent>>
        /\ reply'.kind \in Welcome
    BY <1>1, <1>7, <1>8 DEF HandleRequest, Message, Welcome
  <2>2. Welcomed'
    BY <1>2, <1>5, <2>1 DEF PipeInv, Welcomed
  <2>3. OneAnswer'
    <3>1. (Busy(reqs') => Busy(reqs)) /\ (Busy(resps') => Busy(resps)) /\ reply'.kind \notin TrafficKinds
      BY <1>3, <1>5, <2>1 DEF Busy, Welcome, TrafficKinds
    <3>2. Single(resps')
      BY <1>4, <1>5
    <3> QED BY <1>2, <1>4, <3>1, <3>2 DEF PipeInv, OneAnswer
  <2>4. (OfBatch(reply) /\ InForce(reply))'
    BY <2>1 DEF OfBatch, InForce, Welcome, TrafficKinds
  <2>5. Matched'
    BY <1>2, <1>3, <1>5, <2>1, <2>4 DEF PipeInv, Matched, OfBatch, Carries, InForce
  <2> QED BY <1>6, <2>2, <2>3, <2>5 DEF PipeInv
<1>9. CASE m.kind = "Apply"
  <2>1. ~Busy(reqs') /\ ~Busy(resps) /\ (OfBatch(m) => worker = "sending" /\ awaiting /\ m.version = inflight.version)
    BY <1>2, <1>3, <1>4, <1>9 DEF PipeInv, OneAnswer, Busy, OfBatch, TrafficKinds
  <2>2. /\ reply'.kind \in TrafficKinds \ {"Apply"} /\ reply'.version = m.version
        /\ UNCHANGED authenticated
    BY <1>1, <1>9 DEF HandleRequest, HandleApply, Refuse, Message, TrafficKinds
  <2>3. reply'.kind = "ApplyAck" => hostVersion' = m.version /\ hostContent' = m.content
    BY <1>1, <1>9 DEF HandleRequest, HandleApply, SameSnapshot, Refuse, Message
  <2>4. Welcomed'
    BY <1>2, <1>3, <1>5, <2>2 DEF PipeInv, Welcomed, Welcome, TrafficKinds
  <2>5. OneAnswer'
    <3>1. ~Busy(resps') /\ Single(resps')
      BY <1>4, <1>5, <2>1
    <3> QED BY <1>4, <2>1, <3>1 DEF OneAnswer
  <2>6. (OfBatch(reply) /\ InForce(reply))'
    BY <1>5, <1>7, <1>9, <2>1, <2>2, <2>3 DEF OfBatch, InForce, Carries
  <2>7. \A r \in Range(reqs') \cup Range(resps') : r.kind \notin TrafficKinds
    BY <1>5, <2>1 DEF Busy
  <2>8. Matched'
    BY <2>6, <2>7 DEF Matched, OfBatch, Carries, InForce, TrafficKinds
  <2> QED BY <1>6, <2>4, <2>5, <2>8 DEF PipeInv
<1> QED BY <1>3, <1>8, <1>9 DEF Requests

LEMMA WritePipe ==
  ASSUME TypesOK, PipeInv, WriteReply \/ NotifyWrite
  PROVE  PipeInv'
<1> SUFFICES ASSUME serving, serving' PROVE PipeInv'
  BY NotServedNext DEF WriteReply, NotifyWrite
<1>1. Single(reqs) /\ Single(resps) /\ reqs \in Seq(Requests) /\ resps \in Seq(Replies)
  BY DEF PipeInv, OneAnswer, TypesOK, PipeTypeOK
<1>2. CASE WriteReply
  <2>0. PICK m : m = reply
    OBVIOUS
  <2>1. /\ m \in Replies /\ resps' = Append(resps, m) /\ reply'.kind = "none"
        /\ UNCHANGED <<reqs, notice, authenticated, receiving, conn, worker, inflight, awaiting>>
        /\ UNCHANGED <<hostVersion, hostContent>>
    BY <1>2, <2>0, NoMessageTyped
       DEF WriteReply, TypesOK, PipeTypeOK, bvars, clientVars, hostVars
  <2>2. Range(resps') = Range(resps) \cup {reply}
    BY <1>1, <2>0, <2>1, AppendRange
  <2>3. m.kind \in TrafficKinds => ~Busy(resps) /\ ~Busy(reqs)
    BY <2>0 DEF PipeInv, OneAnswer
  <2>4. Single(resps') /\ Single(reqs')
    BY <1>1, <2>1, <2>3, AppendSingle
  <2>5. Connected' /\ Welcomed'
    BY <2>1, <2>2 DEF PipeInv, Connected, Welcomed, Welcome
  <2>6. OneAnswer'
    <3>1. ~(Busy(reqs') /\ Busy(resps'))
      BY <2>0, <2>1, <2>2, <2>3 DEF PipeInv, OneAnswer, Busy
    <3>2. reply'.kind \notin TrafficKinds
      BY <2>1 DEF TrafficKinds
    <3> QED BY <2>4, <3>1, <3>2 DEF OneAnswer
  <2>7. Matched'
    BY <2>1, <2>2 DEF PipeInv, Matched, OfBatch, Carries, InForce, TrafficKinds
  <2> QED BY <2>5, <2>6, <2>7 DEF PipeInv
<1>3. CASE NotifyWrite
  <2>0. PICK m : m = notice
    OBVIOUS
  <2>1. /\ m \in Replies /\ resps' = Append(resps, m) /\ notice'.kind = "none"
        /\ UNCHANGED <<reqs, reply, authenticated, receiving, conn, worker, inflight, awaiting>>
        /\ UNCHANGED <<hostVersion, hostContent>> /\ notice # NoMessage
    BY <1>3, <2>0, NoMessageTyped
       DEF NotifyWrite, TypesOK, PipeTypeOK, bvars, clientVars, hostVars
  <2>2. m.kind \in {"none", "Changed"} /\ m.kind \notin TrafficKinds /\ m.kind \notin Welcome
    BY <2>0 DEF PipeInv, Welcomed, TrafficKinds, Welcome
  <2>3. Range(resps') = Range(resps) \cup {m}
    BY <1>1, <2>1, AppendRange
  <2>4. Single(resps') /\ Single(reqs')
    BY <1>1, <2>1, <2>2, AppendSingle
  <2>5. Connected' /\ Welcomed'
    BY <2>1, <2>2, <2>3 DEF PipeInv, Connected, Welcomed
  <2>6. OneAnswer'
    <3>1. (Busy(resps') => Busy(resps)) /\ (Busy(reqs') => Busy(reqs)) /\ reply' = reply
      BY <2>1, <2>2, <2>3 DEF Busy
    <3> QED BY <2>4, <3>1 DEF PipeInv, OneAnswer
  <2>7. Matched'
    BY <2>1, <2>2, <2>3 DEF PipeInv, Matched, OfBatch, Carries, InForce, TrafficKinds
  <2> QED BY <2>5, <2>6, <2>7 DEF PipeInv
<1> QED BY <1>2, <1>3

LEMMA NotifyPipe ==
  ASSUME TypesOK, PipeInv, NotifyRead
  PROVE  PipeInv'
<1>1. /\ UNCHANGED <<reqs, resps, reply, authenticated, receiving, conn, worker, inflight, awaiting, serving>>
      /\ UNCHANGED <<hostVersion, hostContent>> /\ notice'.kind = "Changed"
  BY DEF NotifyRead, Message, bvars, clientVars, hostVars
<1>2. Connected' /\ Welcomed'
  BY <1>1 DEF PipeInv, Connected, Welcomed
<1>3. OneAnswer' /\ Matched'
  BY <1>1 DEF PipeInv, OneAnswer, Busy, Single, Matched, OfBatch, Carries, InForce
<1> QED BY <1>2, <1>3 DEF PipeInv

LEMMA PipeKept == BatcherInv /\ TypesOK /\ PipeInv /\ [SyncNext]_syncVars => PipeInv'
<1>1. ASSUME PipeInv, UNCHANGED syncVars PROVE PipeInv'
  BY <1>1 DEF PipeInv, Connected, Welcomed, OneAnswer, Busy, Single, Matched, OfBatch, Carries, InForce,
     syncVars, bvars, clientVars, sessionVars, hostVars
<1> QED BY <1>1, QuietSteps, GoneSteps, SendPipe, LoopPipe, ReceivePipe, HandlePipe, WritePipe, NotifyPipe
        DEF SyncNext, UIThread, Worker, ConnectionLoop, ReceiveLoop, IpcThread, NotificationThread

-----------------------------------------------------------------------------
(* What the Host has and how it came by it.  Every configuration there is   *)
(* has been made; a version the user interface has not reached was          *)
(* published by a script, with a configuration nobody else has and whose    *)
(* announcements say so; and a configuration in force under its own version *)
(* was acknowledged, or its acknowledgement is on the way or lost.          *)

Numbered ==
  /\ nextVersion > highestVersion
  /\ pending # NoBatch => pending.snapshot = candidate[pending.version].content
  /\ inflight # NoBatch => inflight.snapshot = candidate[inflight.version].content
News == Range(posts) \cup Range(resps) \cup {answer, reply, notice}
Drafts == {document.content, accepted.content} \cup {candidate[v].content : v \in Versions}
Made ==
  /\ hostContent <= made
  /\ \A c \in Drafts : c <= made
  /\ \A m \in News \cup Range(reqs) : m.content <= made
Foreign ==
  hostVersion >= nextVersion =>
    /\ hostContent # 0 /\ hostContent \notin Drafts
    /\ \A m \in News : m.content = hostContent => m.version >= hostVersion
Standing(v) == results[v] # "none" /\ hostVersion = v /\ hostContent = candidate[v].content
Traffic == Range(reqs) \cup Range(resps) \cup {reply}
Refusing(m) == m.kind \in {"Apply", "ApplyError", "HandshakeError"}
Acknowledging(v) ==
  /\ results[v] = "waiting" /\ inflight # NoBatch /\ v = inflight.version
  /\ \A m \in Traffic : Refusing(m) => m.version # v
Trace == \A v \in Versions : Standing(v) => results[v] \in {"ok", "failed"} \/ Acknowledging(v)
HostInv == Numbered /\ Made /\ Foreign /\ Trace

LEMMA InitHost == SyncInit => HostInv
<1> SUFFICES ASSUME SyncInit PROVE HostInv
  OBVIOUS
<1>1. Numbered /\ Foreign
  BY DEF SyncInit, BatcherInit, Numbered, Foreign
<1>2. \A m \in News \cup Range(reqs) : m.content = 0
  BY EmptyRange, NoMessageTyped DEF SyncInit, News
<1>3. Made
  BY <1>2 DEF SyncInit, Made, Drafts
<1>4. Trace
  BY DEF SyncInit, BatcherInit, Trace, Standing
<1> QED BY <1>1, <1>3, <1>4 DEF HostInv

(* Queuing, whoever asks for it.                                            *)
LEMMA QueueNumbered ==
  ASSUME BatcherInv, TypesOK, Numbered, NEW doc \in Documents, NEW version \in Nat, version >= nextVersion,
         QueueHostSnapshot(doc, version)
  PROVE  /\ Numbered' /\ nextVersion' > version /\ version \in Versions
         /\ candidate' = [candidate EXCEPT ![version] = doc]
         /\ results' = [results EXCEPT ![version] = "waiting"] /\ UNCHANGED inflight
<1>1. /\ version \in Versions /\ nextVersion' = version + 1 /\ highestVersion' = version
      /\ candidate' = [candidate EXCEPT ![version] = doc]
      /\ pending' = BatchWith(version, doc.content)
      /\ results' = [results EXCEPT ![version] = "waiting"] /\ UNCHANGED inflight
  BY DEF QueueHostSnapshot, QueueAsync
<1>2. nextVersion \in Nat /\ highestVersion \in Nat /\ candidate \in [Versions -> Documents]
  BY BatcherAssumption, SyncAssumption DEF TypesOK, UiTypeOK, BatcherInv, BatcherTypeOK
<1>3. pending'.snapshot = candidate'[pending'.version].content
  BY <1>1, <1>2 DEF BatchWith
<1>4. inflight # NoBatch => inflight.version \in Versions /\ inflight.version # version
  <2> SUFFICES ASSUME inflight # NoBatch PROVE inflight.version \in Versions /\ inflight.version # version
    OBVIOUS
  <2>1. inflight \in Batches /\ inflight.version = sent /\ sent <= highestVersion /\ sent \in Nat
    BY BatcherAssumption DEF BatcherInv, BatcherTypeOK, NewestWins, WorkerHoldsBatch
  <2>2. sent < version
    BY <1>2, <2>1 DEF Numbered
  <2> QED BY <2>1, <2>2 DEF Batches
<1>5. inflight' # NoBatch => inflight'.snapshot = candidate'[inflight'.version].content
  BY <1>1, <1>2, <1>4 DEF Numbered
<1>6. nextVersion' > highestVersion'
  BY <1>1
<1> QED BY <1>1, <1>3, <1>5, <1>6 DEF Numbered

(* The two steps that queue, and what else they do.                         *)
LEMMA PostNumbers ==
  ASSUME TypesOK, HandlePost
  PROVE  LET next == VersionAfter(Head(posts).version)
         IN /\ next \in Nat /\ next >= nextVersion /\ next > Head(posts).version
            /\ Head(posts) \in Range(posts) /\ Head(posts) \in Replies
            /\ posts \in Seq(Replies) /\ posts # <<>> /\ posts' = Tail(posts)
<1>1. /\ posts \in Seq(Replies) /\ posts # <<>> /\ posts' = Tail(posts)
      /\ nextVersion \in Nat
  BY BatcherAssumption, SyncAssumption DEF TypesOK, ClientTypeOK, UiTypeOK, HandlePost
<1>2. Head(posts) \in Range(posts) /\ Head(posts) \in Replies
  BY <1>1, TailRange
<1>3. Head(posts).version \in Nat
  BY <1>2, BatcherAssumption, SyncAssumption DEF Replies
<1> QED BY <1>1, <1>2, <1>3 DEF VersionAfter

(* In every step the versions move on, and the batches keep their contents. *)
LEMMA NumberedKept ==
  ASSUME BatcherInv, TypesOK, Numbered, SyncNext
  PROVE  Numbered' /\ nextVersion' >= nextVersion
<1>0. nextVersion \in Nat /\ highestVersion \in Nat
  BY BatcherAssumption, SyncAssumption DEF TypesOK, UiTypeOK, BatcherInv, BatcherTypeOK
<1>1. CASE Edit
  <2>1. document' \in Documents
    BY <1>1, UserTypes DEF TypesOK, UiTypeOK
  <2>2. nextVersion >= nextVersion
    BY <1>0
  <2>3. Numbered' /\ nextVersion' > nextVersion
    BY <1>0, <1>1, <2>1, <2>2, QueueNumbered DEF Edit
  <2>4. nextVersion' \in Nat
    BY <1>0, <1>1 DEF Edit, QueueHostSnapshot
  <2> QED BY <1>0, <2>3, <2>4
<1>2. CASE HandlePost
  <2>0. PICK next : next = VersionAfter(Head(posts).version)
    OBVIOUS
  <2>1. next \in Nat /\ next >= nextVersion
    BY <1>2, <2>0, PostNumbers
  <2>2. CASE FillEmptyHost(next)
    <3>1. document \in Documents
      BY DEF TypesOK, UiTypeOK
    <3>2. Numbered' /\ nextVersion' > next
      BY <2>1, <2>2, <3>1, QueueNumbered DEF FillEmptyHost
    <3>3. nextVersion' = next + 1
      BY <2>2 DEF FillEmptyHost, QueueHostSnapshot
    <3> QED BY <1>0, <2>1, <3>2, <3>3
  <2>3. CASE nextVersion' = next /\ UNCHANGED <<bvars, candidate, observer>>
    <3>1. nextVersion' > highestVersion' /\ nextVersion' >= nextVersion
      BY <1>0, <2>1, <2>3 DEF Numbered, bvars
    <3> QED BY <2>3, <3>1 DEF Numbered, bvars
  <2> QED BY <1>2, <2>0, <2>2, <2>3 DEF HandlePost
<1>3. CASE SendApply \/ TakeDisconnected
  <2>1. TakeBatch /\ UNCHANGED <<highestVersion, nextVersion, candidate>> /\ pending' = NoBatch /\ inflight' = pending
    BY <1>3 DEF SendApply, TakeDisconnected, TakeBatch, uiVars
  <2> QED BY <1>0, <2>1 DEF Numbered
<1>4. ASSUME UNCHANGED <<pending, highestVersion, nextVersion, candidate>>,
             inflight' = NoBatch \/ UNCHANGED inflight
      PROVE  Numbered' /\ nextVersion' >= nextVersion
  BY <1>0, <1>4 DEF Numbered
<1>5. CASE BatcherTurn \/ SendFails
  BY <1>4, <1>5 DEF BatcherTurn, Recheck, SendFails, Complete, uiVars
<1>6. CASE Receive
  <2>1. UNCHANGED uiVars /\ (UNCHANGED bvars \/ \E outcome : Complete(outcome))
    BY <1>6 DEF Receive, ReceiveAnswer, ReceiveState
  <2> QED BY <1>4, <2>1 DEF Complete, uiVars, bvars
<1>7. CASE ConnectionLoop \/ ReceiveEnds \/ IpcThread \/ NotificationThread \/ Publish \/ Crash
  BY <1>4, <1>7 DEF ConnectionLoop, Connect, SendHello, SendGetState, LoopSends, PostState, LoopRestarts,
     ReceiveEnds, IpcThread, HandleRequest, WriteReply, NotificationThread, NotifyRead, NotifyWrite,
     Publish, Crash, uiVars, bvars
<1>8. CASE \E v \in Versions : Observer(v)
  BY <1>4, <1>8 DEF Observer, ObserveAck, ObserveRejection, Revert, ObserveFailure, bvars
<1> QED BY <1>1, <1>2, <1>3, <1>5, <1>6, <1>7, <1>8 DEF SyncNext, UIThread, Worker, ReceiveLoop

(* Messages of every step: passed on, empty, or the Host's state.           *)
Fresh(m) == m.content = 0 \/ (m.content = hostContent /\ m.version = hostVersion)
NewsPassed == \A m \in News' : m \in News \/ Fresh(m)
RequestsPassed ==
  \A m \in Range(reqs') : \/ m \in Range(reqs) \/ m.content = 0
                          \/ worker = "window" /\ m.content = pending.snapshot

LEMMA QuietNews == UNCHANGED <<posts, resps, answer, reply, notice>> => NewsPassed
  BY DEF News, NewsPassed

LEMMA NewsKept == ASSUME BatcherInv, TypesOK, SyncNext PROVE NewsPassed
<1> USE DEF NewsPassed
<1>1. CASE Edit \/ Worker \/ SendHello \/ SendGetState \/ LoopRestarts \/ Publish \/ Crash
  <2>1. UNCHANGED <<posts, resps, answer, reply, notice>>
    BY <1>1 DEF Edit, Worker, BatcherTurn, SendApply, TakeDisconnected, SendFails, SendHello, SendGetState,
       LoopSends, LoopRestarts, Publish, Crash, clientVars, sessionVars
  <2> QED BY <2>1, QuietNews
<1>2. CASE \E v \in Versions : Observer(v)
  BY <1>2, QuietNews DEF Observer, ObserveAck, ObserveRejection, Revert, ObserveFailure, clientVars, sessionVars
<1>3. CASE HandlePost
  <2>1. Range(posts') \subseteq Range(posts)
    BY <1>3, TailRange DEF HandlePost, TypesOK, ClientTypeOK
  <2> QED BY <1>3, <2>1 DEF HandlePost, News, clientVars, sessionVars
<1>4. CASE Connect
  BY <1>4, EmptyRange, NoMessageTyped DEF Connect, News, Fresh
<1>5. CASE PostState
  <2>1. Range(posts') = Range(posts) \cup {answer}
    BY <1>5, AppendRange DEF PostState, TypesOK, ClientTypeOK
  <2> QED BY <1>5, <2>1, NoMessageTyped DEF PostState, News, Fresh, sessionVars
<1>6. CASE Receive
  <2>1. /\ Range(resps') \subseteq Range(resps) /\ Head(resps) \in Range(resps) /\ Head(resps) \in Replies
    BY <1>6, TailRange DEF Receive, TypesOK, PipeTypeOK
  <2>2. Range(Append(posts, Head(resps))) = Range(posts) \cup {Head(resps)}
    BY <2>1, AppendRange DEF TypesOK, ClientTypeOK
  <2>3. UNCHANGED posts \/ posts' = Append(posts, Head(resps))
    BY <1>6 DEF Receive, ReceiveAnswer, ReceiveState
  <2>4. UNCHANGED answer \/ answer' = Head(resps)
    BY <1>6 DEF Receive, ReceiveAnswer, ReceiveState
  <2>5. UNCHANGED <<reply, notice>>
    BY <1>6 DEF Receive, sessionVars
  <2>6. Range(posts') \subseteq Range(posts) \cup {Head(resps)}
    BY <2>2, <2>3
  <2> QED BY <2>1, <2>4, <2>5, <2>6 DEF News
<1>7. CASE ReceiveEnds
  BY <1>7, EmptyRange DEF ReceiveEnds, News, sessionVars
<1>8. CASE HandleRequest
  <2>1. UNCHANGED <<posts, resps, answer, notice>> /\ Fresh(reply')
    BY <1>8 DEF HandleRequest, HandleApply, Refuse, Message, Fresh, clientVars
  <2> QED BY <2>1 DEF News
<1>9. CASE WriteReply
  <2>1. Range(resps') = Range(resps) \cup {reply}
    BY <1>9, AppendRange DEF WriteReply, TypesOK, PipeTypeOK
  <2> QED BY <1>9, <2>1, NoMessageTyped DEF WriteReply, News, Fresh, clientVars
<1>10. CASE NotifyRead
  BY <1>10 DEF NotifyRead, Message, News, Fresh, clientVars
<1>11. CASE NotifyWrite
  <2>1. Range(resps') = Range(resps) \cup {notice}
    BY <1>11, AppendRange DEF NotifyWrite, TypesOK, PipeTypeOK
  <2> QED BY <1>11, <2>1, NoMessageTyped DEF NotifyWrite, News, Fresh, clientVars
<1> QED BY <1>1, <1>2, <1>3, <1>4, <1>5, <1>6, <1>7, <1>8, <1>9, <1>10, <1>11
        DEF SyncNext, UIThread, ConnectionLoop, ReceiveLoop, IpcThread, NotificationThread

LEMMA RequestsKept == ASSUME BatcherInv, TypesOK, SyncNext PROVE RequestsPassed
<1> USE DEF RequestsPassed
<1>1. CASE SendApply
  <2>0. PICK m : m = Message("Apply", pending.version, pending.snapshot)
    OBVIOUS
  <2>1. pending \in Batches
    BY <1>1 DEF SendApply, TakeBatch, BatcherInv, BatcherTypeOK, WorkerHoldsBatch
  <2>2. m \in Requests /\ m.content = pending.snapshot
    BY <2>0, <2>1, BatcherAssumption DEF Batches, Versions, Requests, Texts, Contents, Message
  <2>3. Range(reqs') = Range(reqs) \cup {m}
    BY <1>1, <2>0, <2>2, AppendRange DEF SendApply, TypesOK, PipeTypeOK
  <2> QED BY <1>1, <2>2, <2>3 DEF SendApply, TakeBatch
<1>2. ASSUME NEW kind \in {"Hello", "GetState"}, NEW from, NEW to, LoopSends(kind, from, to)
      PROVE  RequestsPassed
  <2>0. PICK m : m = Message(kind, 0, 0)
    OBVIOUS
  <2>1. m \in Requests /\ m.content = 0
    BY <2>0, BatcherAssumption DEF Requests, Texts, Message
  <2>2. Range(Append(reqs, m)) = Range(reqs) \cup {m}
    BY <2>1, AppendRange DEF TypesOK, PipeTypeOK
  <2> QED BY <1>2, <2>0, <2>1, <2>2 DEF LoopSends
<1>3. CASE Connect
  BY <1>3, EmptyRange DEF Connect
<1>4. CASE HandleRequest
  BY <1>4, TailRange DEF HandleRequest, Idle, TypesOK, PipeTypeOK
<1>5. CASE \/ Edit \/ HandlePost \/ BatcherTurn \/ TakeDisconnected \/ SendFails \/ PostState \/ LoopRestarts
           \/ ReceiveLoop \/ WriteReply \/ NotificationThread \/ Publish \/ Crash
  BY <1>5 DEF Edit, HandlePost, BatcherTurn, TakeDisconnected, SendFails, PostState, LoopRestarts, ReceiveLoop,
     Receive, ReceiveEnds, WriteReply, NotificationThread, NotifyRead, NotifyWrite, Publish, Crash
<1>6. CASE \E v \in Versions : Observer(v)
  BY <1>6 DEF Observer, ObserveAck, ObserveRejection, Revert, ObserveFailure
<1>7. SendHello \/ SendGetState => RequestsPassed
  BY <1>2 DEF SendHello, SendGetState
<1> QED BY <1>1, <1>3, <1>4, <1>5, <1>6, <1>7
        DEF SyncNext, UIThread, Worker, ConnectionLoop, IpcThread

(* The Host's configuration in every step: what it was, nothing, what a     *)
(* script published, or what the batch being sent carries.                  *)
Published ==
  /\ hostContent' = made + 1 /\ made' = made + 1 /\ hostVersion' = hostVersion + 1
  /\ UNCHANGED <<bvars, uiVars, posts, resps, answer, reply, notice>>
Applied ==
  /\ serving /\ inflight # NoBatch /\ worker = "sending"
  /\ hostVersion' = inflight.version /\ hostContent' = inflight.snapshot
  /\ \E m \in Range(reqs) : m.kind = "Apply" /\ m.version = inflight.version
HostStep ==
  \/ UNCHANGED <<hostVersion, hostContent>>
  \/ hostVersion' = 0 /\ hostContent' = 0
  \/ Published
  \/ Applied


LEMMA HostSteps ==
  ASSUME BatcherInv, TypesOK, PipeInv, SyncNext
  PROVE  HostStep
<1>1. CASE HandleRequest
  <2>0. PICK m : m = Head(reqs)
    OBVIOUS
  <2>1. m \in Range(reqs) /\ serving
    BY <1>1, <2>0, TailRange DEF HandleRequest, Idle, TypesOK, PipeTypeOK
  <2>2. OfBatch(m) /\ Carries(m)
    BY <2>1 DEF PipeInv, Matched
  <2>3. UNCHANGED <<hostVersion, hostContent>>
        \/ (m.kind = "Apply" /\ hostVersion' = m.version /\ hostContent' = m.content)
    BY <1>1, <2>0 DEF HandleRequest, HandleApply, Refuse
  <2>4. m.kind = "Apply" => worker = "sending" /\ inflight # NoBatch /\ m.version = inflight.version
    BY <2>2 DEF OfBatch, TrafficKinds, BatcherInv, WorkerHoldsBatch
  <2>5. CASE m.kind = "Apply" /\ hostVersion' = m.version /\ hostContent' = m.content
    <3>1. hostContent' = inflight.snapshot
      BY <2>2, <2>5 DEF Carries
    <3> QED BY <2>1, <2>4, <2>5, <3>1 DEF HostStep, Applied
  <2> QED BY <2>3, <2>5 DEF HostStep
<1>2. CASE Publish
  BY <1>2 DEF Publish, HostStep, Published, clientVars, sessionVars
<1>3. CASE Crash
  BY <1>3 DEF Crash, HostStep
<1>4. CASE \E v \in Versions : Observer(v)
  BY <1>4 DEF Observer, ObserveAck, ObserveRejection, Revert, ObserveFailure, hostVars, HostStep
<1>5. CASE Edit \/ UIThread \/ Worker \/ ConnectionLoop \/ ReceiveLoop \/ WriteReply \/ NotificationThread
  <2>1. UNCHANGED hostVars
    BY <1>5 DEF Edit, UIThread, HandlePost, Worker, BatcherTurn, SendApply, TakeDisconnected, SendFails,
       ConnectionLoop, Connect, SendHello, SendGetState, LoopSends, PostState, LoopRestarts, ReceiveLoop,
       Receive, ReceiveEnds, WriteReply, NotificationThread, NotifyRead, NotifyWrite
  <2> QED BY <2>1 DEF hostVars, HostStep
<1> QED BY <1>1, <1>2, <1>3, <1>4, <1>5 DEF SyncNext, IpcThread

(* The documents of the user interface in every step: its own, a new one,   *)
(* or the one a state of the Host brought, behind which it then numbers.    *)
Drafted(c) == c = made + 1 /\ made' = made + 1
Adopted(c) == \E m \in Range(posts) : c = m.content /\ c # 0 /\ nextVersion' > m.version
DraftsKept == \A c \in Drafts' : c \in Drafts \/ Drafted(c) \/ Adopted(c)

LEMMA DraftSteps ==
  ASSUME BatcherInv, TypesOK, SyncNext
  PROVE  DraftsKept
<1> USE DEF DraftsKept
<1>0. candidate \in [Versions -> Documents]
  BY DEF TypesOK, UiTypeOK
<1>1. ASSUME NEW doc, NEW version, QueueHostSnapshot(doc, version)
      PROVE  \A v \in Versions : candidate'[v].content \in {candidate[v].content, doc.content}
  BY <1>0, <1>1 DEF QueueHostSnapshot
<1>2. CASE Edit
  <2>1. document'.content = made + 1 /\ made' = made + 1 /\ UNCHANGED accepted
    BY <1>2 DEF Edit
  <2>2. \A v \in Versions : candidate'[v].content \in {candidate[v].content, made + 1}
    BY <1>1, <1>2, <2>1 DEF Edit
  <2> QED BY <2>1, <2>2 DEF Drafts, Drafted
<1>3. CASE HandlePost
  <2>0. PICK next : next = VersionAfter(Head(posts).version)
    OBVIOUS
  <2>1. next > Head(posts).version /\ Head(posts) \in Range(posts)
    BY <1>3, <2>0, PostNumbers
  <2>2. CASE FillEmptyHost(next) /\ UNCHANGED <<document, accepted>>
    <3>1. \A v \in Versions : candidate'[v].content \in {candidate[v].content, document.content}
      BY <1>1, <2>2 DEF FillEmptyHost
    <3> QED BY <2>2, <3>1 DEF Drafts
  <2>3. CASE /\ Head(posts).content # 0 /\ document' = [content |-> Head(posts).content, local |-> FALSE]
             /\ accepted' = document' /\ nextVersion' = next /\ UNCHANGED candidate
    <3>1. Adopted(Head(posts).content)
      BY <2>1, <2>3 DEF Adopted
    <3>2. document'.content = Head(posts).content /\ accepted'.content = Head(posts).content
      BY <2>3
    <3> QED BY <2>3, <3>1, <3>2 DEF Drafts
  <2> QED BY <1>3, <2>0, <2>2, <2>3 DEF HandlePost
<1>4. CASE \E v \in Versions : Observer(v)
  BY <1>4 DEF Drafts, Observer, ObserveAck, ObserveRejection, Revert, ObserveFailure
<1>5. CASE \/ Worker \/ ConnectionLoop \/ ReceiveLoop \/ IpcThread \/ NotificationThread \/ Publish \/ Crash
  <2>1. UNCHANGED uiVars
    BY <1>5 DEF Worker, BatcherTurn, SendApply, TakeDisconnected, SendFails,
       ConnectionLoop, Connect, SendHello, SendGetState, LoopSends, PostState, LoopRestarts, ReceiveLoop,
       Receive, ReceiveEnds, IpcThread, HandleRequest, WriteReply, NotificationThread, NotifyRead, NotifyWrite,
       Publish, Crash
  <2> QED BY <2>1 DEF uiVars, Drafts
<1> QED BY <1>2, <1>3, <1>4, <1>5 DEF SyncNext, UIThread

LEMMA MadeGrows ==
  ASSUME TypesOK, SyncNext
  PROVE  made \in Nat /\ (UNCHANGED made \/ made' = made + 1)
<1>1. made \in Nat
  BY ContentsAreNumbers DEF TypesOK, UiTypeOK
<1>2. CASE Edit \/ Publish
  BY <1>1, <1>2 DEF Edit, Publish
<1>3. ASSUME NEW v \in Versions, Observer(v) PROVE made' = made
  BY <1>3 DEF Observer, ObserveAck, ObserveRejection, Revert, ObserveFailure
<1>4. ASSUME UIThread \/ Worker \/ ConnectionLoop \/ ReceiveLoop \/ IpcThread \/ NotificationThread \/ Crash
      PROVE  made' = made
  BY <1>4 DEF UIThread, HandlePost, Worker, BatcherTurn, SendApply, TakeDisconnected, SendFails,
       ConnectionLoop, Connect, SendHello, SendGetState, LoopSends, PostState, LoopRestarts, ReceiveLoop,
       Receive, ReceiveEnds, IpcThread, HandleRequest, WriteReply, NotificationThread, NotifyRead, NotifyWrite,
       Crash
<1> QED BY <1>1, <1>2, <1>3, <1>4 DEF SyncNext

Counted ==
  /\ hostContent \in Nat /\ hostVersion \in Nat /\ nextVersion \in Nat
  /\ Drafts \subseteq Nat
  /\ \A m \in News \cup Range(reqs) : m.content \in Nat /\ m.version \in Nat

LEMMA ContentTypes == TypesOK => Counted
<1> SUFFICES ASSUME TypesOK PROVE Counted
  OBVIOUS
<1>1. Texts \subseteq Nat /\ Contents \subseteq Nat /\ MaxVersion \in Nat /\ MaxPublishes \in Nat
  BY ContentsAreNumbers, BatcherAssumption, SyncAssumption DEF Texts
<1>2. hostContent \in Nat /\ hostVersion \in Nat /\ nextVersion \in Nat
  BY <1>1 DEF TypesOK, HostTypeOK, UiTypeOK
<1>3. Drafts \subseteq Nat
  <2>1. document.content \in Contents /\ accepted.content \in Contents
    BY DEF TypesOK, UiTypeOK, Documents
  <2>2. \A v \in Versions : candidate[v].content \in Contents
    BY DEF TypesOK, UiTypeOK, Documents
  <2> QED BY <1>1, <2>1, <2>2 DEF Drafts
<1>4. News \subseteq Replies /\ Range(reqs) \subseteq Requests
  BY RangeTyped DEF TypesOK, ClientTypeOK, PipeTypeOK, News
<1>5. 0..(MaxVersion + MaxPublishes) \subseteq Nat /\ 0..MaxVersion \subseteq Nat
  BY <1>1
<1>6. \A m \in Replies : m.content \in Texts /\ m.version \in 0..(MaxVersion + MaxPublishes)
  BY DEF Replies
<1>7. \A m \in Requests : m.content \in Texts /\ m.version \in 0..MaxVersion
  BY DEF Requests
<1>8. \A m \in News \cup Range(reqs) : m.content \in Nat /\ m.version \in Nat
  BY <1>1, <1>4, <1>5, <1>6, <1>7
<1> QED BY <1>2, <1>3, <1>8 DEF Counted

LEMMA CountedNext == ASSUME BatcherInv, TypesOK, SyncNext PROVE Counted /\ Counted'
<1>1. TypesOK => Counted
  BY ContentTypes
<1>2. TypesOK' => Counted'
  BY ContentTypes, PTL
<1> QED BY <1>1, <1>2, TypesKept

LEMMA BatchDrafted ==
  ASSUME BatcherInv, TypesOK, Numbered
  PROVE  /\ pending # NoBatch => pending.snapshot \in Drafts
         /\ inflight # NoBatch => /\ inflight.snapshot \in Drafts /\ inflight.version \in Versions
                                  /\ inflight.version < nextVersion
<1>1. pending # NoBatch => pending.version \in Versions
  BY DEF BatcherInv, BatcherTypeOK, Batches
<1>2. inflight # NoBatch => inflight.version \in Versions /\ inflight.version = sent /\ sent <= highestVersion
  BY DEF BatcherInv, BatcherTypeOK, Batches, NewestWins, WorkerHoldsBatch
<1>3. sent \in Nat /\ highestVersion \in Nat /\ nextVersion \in Nat /\ nextVersion > highestVersion
  BY ContentTypes, BatcherAssumption DEF Counted, BatcherInv, BatcherTypeOK, Numbered
<1>4. inflight # NoBatch => inflight.version < nextVersion
  BY <1>2, <1>3
<1> QED BY <1>1, <1>2, <1>4 DEF Numbered, Drafts

LEMMA MadeKept ==
  ASSUME BatcherInv, TypesOK, PipeInv, Numbered, Made, SyncNext
  PROVE  Made'
<1>1. made \in Nat /\ made' \in Nat /\ made' >= made
  BY MadeGrows
<1>2. ASSUME NEW c \in Drafts' PROVE c <= made'
  <2>1. c \in Nat
    BY CountedNext DEF Counted
  <2>2. CASE c \in Drafts
    BY <1>1, <2>1, <2>2 DEF Made
  <2>3. CASE Drafted(c)
    BY <1>1, <2>3 DEF Drafted
  <2>4. CASE Adopted(c)
    BY <1>1, <2>1, <2>4 DEF Adopted, Made, News
  <2> QED BY <2>2, <2>3, <2>4, DraftSteps DEF DraftsKept
<1>3. hostContent' <= made'
  <2>1. hostContent \in Nat /\ hostContent <= made
    BY ContentTypes DEF Counted, Made
  <2>2. CASE Applied
    <3>1. inflight.snapshot \in Drafts
      BY <2>2, BatchDrafted DEF Applied
    <3>2. inflight.snapshot <= made /\ inflight.snapshot \in Nat
      BY <3>1, ContentTypes DEF Counted, Made
    <3> QED BY <1>1, <2>2, <3>2 DEF Applied
  <2>3. CASE Published
    BY <1>1, <2>3 DEF Published
  <2> QED BY <1>1, <2>1, <2>2, <2>3, HostSteps DEF HostStep
<1>4. ASSUME NEW m \in News' PROVE m.content <= made'
  <2>1. m \in News \/ Fresh(m)
    BY NewsKept DEF NewsPassed
  <2>2. CASE m \in News
    <3>1. m.content \in Nat /\ m.content <= made
      BY <2>2, ContentTypes DEF Counted, Made
    <3> QED BY <1>1, <3>1
  <2>3. CASE Fresh(m)
    <3>1. m.content \in Nat /\ m.content <= made
      BY <1>1, <2>3, ContentTypes DEF Counted, Made, Fresh
    <3> QED BY <1>1, <3>1
  <2> QED BY <2>1, <2>2, <2>3
<1>5. ASSUME NEW m \in Range(reqs') PROVE m.content <= made'
  <2>1. CASE m \in Range(reqs)
    <3>1. m.content \in Nat /\ m.content <= made
      BY <2>1, ContentTypes DEF Counted, Made
    <3> QED BY <1>1, <3>1
  <2>2. CASE m.content = 0
    BY <1>1, <2>2
  <2>3. CASE worker = "window" /\ m.content = pending.snapshot
    <3>1. m.content \in Drafts
      BY <2>3, BatchDrafted DEF BatcherInv, WorkerHoldsBatch
    <3>2. m.content <= made /\ m.content \in Nat
      BY <3>1, ContentTypes DEF Counted, Made
    <3> QED BY <1>1, <3>2
  <2> QED BY <2>1, <2>2, <2>3, RequestsKept DEF RequestsPassed
<1> QED BY <1>2, <1>3, <1>4, <1>5 DEF Made

LEMMA ForeignKept ==
  ASSUME BatcherInv, TypesOK, PipeInv, Numbered, Made, Foreign, SyncNext
  PROVE  Foreign'
<1>1. /\ hostContent \in Nat /\ hostVersion \in Nat /\ nextVersion \in Nat /\ nextVersion' \in Nat
      /\ made \in Nat /\ nextVersion' >= nextVersion /\ nextVersion' > 0
  <2>1. nextVersion \in Nat /\ nextVersion' \in Nat
    BY CountedNext DEF Counted
  <2>2. highestVersion \in Nat
    BY BatcherAssumption DEF BatcherInv, BatcherTypeOK
  <2>3. nextVersion' >= nextVersion /\ nextVersion > highestVersion
    BY NumberedKept DEF Numbered
  <2> QED BY <2>1, <2>2, <2>3, ContentTypes, MadeGrows DEF Counted
<1>2. CASE UNCHANGED <<hostVersion, hostContent>>
  <2> SUFFICES ASSUME hostVersion >= nextVersion' PROVE Foreign'
    BY <1>2 DEF Foreign
  <2>1. /\ hostVersion >= nextVersion /\ hostContent # 0 /\ hostContent \notin Drafts
        /\ \A m \in News : m.content = hostContent => m.version >= hostVersion
    BY <1>1 DEF Foreign
  <2>2. ASSUME NEW c \in Drafts' PROVE c # hostContent
    <3>1. CASE c \in Drafts
      BY <2>1, <3>1
    <3>2. CASE Drafted(c)
      BY <1>1, <3>2 DEF Drafted, Made
    <3>3. CASE Adopted(c)
      <4>1. PICK m \in Range(posts) : c = m.content /\ nextVersion' > m.version
        BY <3>3 DEF Adopted
      <4>2. m \in News /\ m.version \in Nat
        BY ContentTypes DEF Counted, News
      <4> QED BY <1>1, <2>1, <4>1, <4>2
    <3> QED BY <3>1, <3>2, <3>3, DraftSteps DEF DraftsKept
  <2>3. ASSUME NEW m \in News', m.content = hostContent PROVE m.version >= hostVersion
    <3>1. CASE m \in News
      BY <2>1, <2>3, <3>1
    <3>2. CASE Fresh(m)
      BY <1>1, <2>1, <2>3, <3>2 DEF Fresh
    <3> QED BY <3>1, <3>2, NewsKept DEF NewsPassed
  <2> QED BY <1>2, <2>1, <2>2, <2>3 DEF Foreign
<1>3. CASE hostVersion' = 0 /\ hostContent' = 0
  BY <1>1, <1>3 DEF Foreign
<1>4. CASE Published
  <2>1. Drafts' = Drafts /\ News' = News /\ hostContent' = made + 1
    BY <1>4 DEF Published, uiVars, Drafts, News
  <2>2. \A c \in Drafts : c \in Nat /\ c <= made
    BY ContentTypes DEF Counted, Made
  <2>3. \A m \in News : m.content \in Nat /\ m.content <= made
    BY ContentTypes DEF Counted, Made
  <2>4. hostContent' # 0 /\ hostContent' \notin Drafts /\ \A m \in News : m.content # hostContent'
    BY <1>1, <2>1, <2>2, <2>3
  <2> QED BY <2>1, <2>4 DEF Foreign
<1>5. CASE Applied
  <2>1. inflight.version < nextVersion /\ inflight.version \in Nat
    BY <1>5, BatchDrafted DEF Applied, Versions
  <2>2. ~(hostVersion' >= nextVersion')
    BY <1>1, <1>5, <2>1 DEF Applied
  <2> QED BY <2>2 DEF Foreign
<1> QED BY <1>2, <1>3, <1>4, <1>5, HostSteps DEF HostStep

(* Steps that neither answer nor change anything in force.                  *)
RefusalsPassed == \A m \in Traffic' : Refusing(m) => m \in Traffic \/ m.version = 0
LEMMA TraceQuiet ==
  ASSUME Trace, RefusalsPassed, UNCHANGED <<results, candidate, hostVersion, hostContent, inflight>>
  PROVE  Trace'
<1> SUFFICES ASSUME NEW v \in Versions, Standing(v)' PROVE results'[v] \in {"ok", "failed"} \/ Acknowledging(v)'
  BY DEF Trace
<1>1. results[v] \in {"ok", "failed"} \/ Acknowledging(v)
  BY DEF Trace, Standing
<1>2. v # 0
  BY BatcherAssumption DEF Versions
<1> QED BY <1>1, <1>2 DEF Acknowledging, RefusalsPassed

LEMMA TraceQueue ==
  ASSUME BatcherInv, TypesOK, HostInv, NEW doc \in Documents, NEW version \in Nat, version >= nextVersion,
         QueueHostSnapshot(doc, version), doc.content \in Drafts \/ doc.content = made + 1,
         UNCHANGED <<reqs, resps, reply, hostVersion, hostContent>>
  PROVE  Trace'
<1>1. /\ candidate' = [candidate EXCEPT ![version] = doc] /\ UNCHANGED inflight
      /\ results' = [results EXCEPT ![version] = "waiting"] /\ version \in Versions
  BY QueueNumbered DEF HostInv
<1>2. results \in [Versions -> CallStates] /\ candidate \in [Versions -> Documents]
  BY DEF BatcherInv, BatcherTypeOK, TypesOK, UiTypeOK
<1>3. ~(hostVersion = version /\ hostContent = doc.content)
  <2>1. hostContent <= made /\ hostContent \in Nat /\ made \in Nat /\ nextVersion \in Nat /\ hostVersion \in Nat
    BY ContentTypes, ContentsAreNumbers DEF Counted, HostInv, Made, TypesOK, UiTypeOK
  <2>2. hostContent # made + 1
    BY <2>1
  <2>3. hostVersion >= nextVersion => hostContent \notin Drafts
    BY DEF HostInv, Foreign
  <2> QED BY <2>1, <2>2, <2>3
<1> SUFFICES ASSUME NEW v \in Versions, Standing(v)' PROVE results'[v] \in {"ok", "failed"} \/ Acknowledging(v)'
  BY DEF Trace
<1>4. v # version
  BY <1>1, <1>2, <1>3 DEF Standing
<1>5. results'[v] = results[v] /\ candidate'[v] = candidate[v]
  BY <1>1, <1>2, <1>4
<1>6. results[v] \in {"ok", "failed"} \/ Acknowledging(v)
  BY <1>5 DEF HostInv, Trace, Standing
<1> QED BY <1>1, <1>5, <1>6 DEF Acknowledging, Traffic

(* A batch is taken when none is being sent, so nothing of it stands yet.   *)
LEMMA TraceTake ==
  ASSUME BatcherInv, Trace, TakeBatch, UNCHANGED <<candidate, hostVersion, hostContent>>
  PROVE  Trace'
<1>1. inflight = NoBatch /\ UNCHANGED results
  BY DEF TakeBatch, BatcherInv, WorkerHoldsBatch
<1> QED BY <1>1 DEF Trace, Standing, Acknowledging

(* An answer ends the wait of what stands only by acknowledging it, or      *)
(* fails it.                                                                *)
LEMMA TraceComplete ==
  ASSUME BatcherInv, Trace, NEW outcome, Complete(outcome), UNCHANGED <<candidate, hostVersion, hostContent>>,
         outcome \in {"ok", "failed"} \/ \E m \in Traffic : Refusing(m) /\ m.version = inflight.version
  PROVE  Trace'
<1> SUFFICES ASSUME NEW v \in Versions, Standing(v)' PROVE results'[v] \in {"ok", "failed"}
  BY DEF Trace
<1>1. inflight # NoBatch /\ results'[v] = IF v \in inflight.calls THEN outcome ELSE results[v]
  BY DEF Complete, Answered, BatcherInv, WorkerHoldsBatch
<1>2. inflight.version \in inflight.calls
  BY <1>1 DEF BatcherInv, NewestWins
<1>3. v \in inflight.calls => results[v] = "waiting"
  BY <1>1 DEF BatcherInv, WaitingCallsAreOwned, CallsOf
<1>4. Standing(v)
  BY <1>1, <1>3 DEF Standing
<1>5. results[v] \in {"ok", "failed"} \/ Acknowledging(v)
  BY <1>4 DEF Trace
<1>6. CASE v \in inflight.calls
  BY <1>1, <1>3, <1>5, <1>6 DEF Acknowledging
<1>7. CASE v \notin inflight.calls
  BY <1>1, <1>2, <1>5, <1>7 DEF Acknowledging
<1> QED BY <1>6, <1>7

LEMMA TraceHandle ==
  ASSUME BatcherInv, TypesOK, PipeInv, HostInv, HandleRequest
  PROVE  Trace'
<1>0. UNCHANGED <<results, candidate, inflight, resps>> /\ serving
  BY DEF HandleRequest, Idle, bvars, uiVars
<1>1. PICK m : m = Head(reqs)
  OBVIOUS
<1>2. reqs \in Seq(Requests) /\ reqs # <<>> /\ reqs' = Tail(reqs)
  BY DEF TypesOK, PipeTypeOK, HandleRequest, Idle
<1>3. m \in Requests /\ m \in Range(reqs) /\ Range(reqs') \subseteq Range(reqs)
  BY <1>1, <1>2, TailRange
<1>4. m.kind = "GetState" => authenticated
  BY <1>0, <1>3 DEF PipeInv, Welcomed
<1>5. CASE m.kind \in {"Hello", "GetState"}
  <2>1. reply'.kind \in Welcome /\ UNCHANGED <<hostVersion, hostContent>>
    BY <1>1, <1>4, <1>5 DEF HandleRequest, Message, Welcome
  <2>2. RefusalsPassed
    BY <1>0, <1>3, <2>1 DEF RefusalsPassed, Traffic, Refusing, Welcome
  <2> QED BY <1>0, <2>1, <2>2, TraceQuiet DEF HostInv
<1>6. CASE m.kind = "Apply"
  <2>1. m \in Traffic /\ Refusing(m)
    BY <1>3, <1>6 DEF Traffic, Refusing
  <2>2. inflight # NoBatch /\ m.version = inflight.version /\ m.content = inflight.snapshot
    BY <1>0, <1>3, <1>6 DEF PipeInv, Matched, OfBatch, Carries, TrafficKinds, BatcherInv, WorkerHoldsBatch
  <2>3. /\ reply'.kind \in {"ApplyAck", "ApplyError", "HandshakeError"}
        /\ reply'.kind = "ApplyAck" => hostVersion' = m.version /\ hostContent' = m.content
        /\ reply'.kind # "ApplyAck" => UNCHANGED <<hostVersion, hostContent>>
    BY <1>1, <1>6 DEF HandleRequest, HandleApply, SameSnapshot, Refuse, Message
  <2> SUFFICES ASSUME NEW v \in Versions, Standing(v)'
               PROVE  results'[v] \in {"ok", "failed"} \/ Acknowledging(v)'
    BY DEF Trace
  <2>4. CASE reply'.kind = "ApplyAck"
    <3>1. v = inflight.version
      BY <2>2, <2>3, <2>4 DEF Standing
    <3>2. results[v] = "waiting"
      BY <2>2, <3>1 DEF BatcherInv, NewestWins, WaitingCallsAreOwned, CallsOf
    <3>3. ~Busy(reqs') /\ ~Busy(resps)
      <4>1. Busy(reqs)
        BY <1>3, <1>6 DEF Busy, TrafficKinds
      <4>2. m.kind \in TrafficKinds /\ Single(reqs) /\ ~Busy(resps)
        BY <1>0, <1>6, <4>1 DEF PipeInv, OneAnswer, TrafficKinds
      <4> QED BY <1>1, <1>2, <4>2, TailSingle
    <3>4. \A r \in Traffic' : ~Refusing(r)
      BY <1>0, <2>4, <3>3 DEF Traffic, Refusing, Busy, TrafficKinds
    <3> QED BY <1>0, <2>2, <3>1, <3>2, <3>4 DEF Acknowledging
  <2>5. CASE reply'.kind # "ApplyAck"
    <3>1. Standing(v)
      BY <1>0, <2>3, <2>5 DEF Standing
    <3>2. results[v] \in {"ok", "failed"}
      BY <2>1, <2>2, <3>1 DEF HostInv, Trace, Acknowledging
    <3> QED BY <1>0, <3>2
  <2> QED BY <2>4, <2>5
<1> QED BY <1>3, <1>5, <1>6 DEF Requests

LEMMA TraceReceive ==
  ASSUME BatcherInv, TypesOK, Trace, Receive
  PROVE  Trace'
<1>1. PICK m : m = Head(resps)
  OBVIOUS
<1>2. m \in Range(resps) /\ Range(resps') \subseteq Range(resps)
  BY <1>1, TailRange DEF Receive, TypesOK, PipeTypeOK
<1>3. UNCHANGED <<candidate, hostVersion, hostContent, reqs, reply>>
  BY DEF Receive, uiVars, sessionVars, hostVars
<1>4. CASE UNCHANGED bvars
  <2>1. RefusalsPassed
    BY <1>2, <1>3 DEF RefusalsPassed, Traffic
  <2> QED BY <1>3, <1>4, <2>1, TraceQuiet DEF bvars
<1>5. CASE ReceiveAnswer(m) /\ Complete(OutcomeOf(m.kind)) /\ inflight.version = m.version
  <2>1. CASE m.kind = "ApplyAck"
    <3>1. OutcomeOf(m.kind) = "ok"
      BY <2>1 DEF OutcomeOf
    <3> QED BY <1>3, <1>5, <3>1, TraceComplete
  <2>2. CASE m.kind \in {"ApplyError", "HandshakeError"}
    <3>1. \E r \in Traffic : Refusing(r) /\ r.version = inflight.version
      BY <1>2, <1>5, <2>2 DEF Traffic, Refusing
    <3> QED BY <1>3, <1>5, <3>1, TraceComplete
  <2> QED BY <1>5, <2>1, <2>2 DEF ReceiveAnswer
<1> QED BY <1>1, <1>4, <1>5 DEF Receive, ReceiveAnswer, ReceiveState

LEMMA TraceKept ==
  ASSUME BatcherInv, TypesOK, PipeInv, HostInv, SyncNext
  PROVE  Trace'
<1>0. Trace /\ nextVersion \in Nat
  BY ContentTypes DEF HostInv, Counted
<1>1. CASE Edit
  <2>1. document' \in Documents /\ document'.content = made + 1 /\ nextVersion >= nextVersion
    BY <1>0, <1>1, UserTypes DEF TypesOK, UiTypeOK, Edit
  <2>2. QueueHostSnapshot(document', nextVersion) /\ UNCHANGED <<reqs, resps, reply, hostVersion, hostContent>>
    BY <1>1 DEF Edit, sessionVars, hostVars
  <2> QED BY <1>0, <2>1, <2>2, TraceQueue
<1>2. CASE HandlePost
  <2>0. PICK next : next = VersionAfter(Head(posts).version)
    OBVIOUS
  <2>1. next \in Nat /\ next >= nextVersion
    BY <1>2, <2>0, PostNumbers
  <2>2. UNCHANGED <<reqs, resps, reply, hostVersion, hostContent>>
    BY <1>2 DEF HandlePost, sessionVars, hostVars
  <2>3. document \in Documents /\ document.content \in Drafts
    BY DEF TypesOK, UiTypeOK, Drafts
  <2>4. CASE FillEmptyHost(next)
    BY <2>1, <2>2, <2>3, <2>4, TraceQueue DEF FillEmptyHost
  <2>5. CASE UNCHANGED <<bvars, candidate>>
    BY <1>0, <2>2, <2>5, TraceQuiet DEF RefusalsPassed, Traffic, bvars
  <2> QED BY <1>2, <2>0, <2>4, <2>5 DEF HandlePost
<1>3. CASE SendApply \/ TakeDisconnected
  BY <1>0, <1>3, TraceTake DEF SendApply, TakeDisconnected, uiVars, hostVars
<1>4. CASE SendFails
  BY <1>0, <1>4, TraceComplete DEF SendFails, uiVars, hostVars
<1>5. CASE HandleRequest
  BY <1>5, TraceHandle
<1>6. CASE Receive
  BY <1>0, <1>6, TraceReceive
<1>7. CASE Crash
  <2>1. \A v \in Versions : ~Standing(v)'
    BY <1>7, BatcherAssumption DEF Crash, Standing, Versions
  <2> QED BY <2>1 DEF Trace
<1>8. CASE Publish
  <2>1. hostContent' = made + 1 /\ UNCHANGED candidate
    BY <1>8 DEF Publish, uiVars
  <2>2. \A v \in Versions : candidate[v].content <= made /\ candidate[v].content \in Nat
    BY ContentTypes DEF HostInv, Made, Drafts, Counted
  <2>3. made \in Nat
    BY MadeGrows
  <2>4. \A v \in Versions : candidate'[v].content # hostContent'
    BY <2>1, <2>2, <2>3
  <2> QED BY <2>4 DEF Trace, Standing
<1>9. CASE SendHello \/ SendGetState
  <2>0. PICK m \in {Message("Hello", 0, 0), Message("GetState", 0, 0)} : reqs' \in {reqs, Append(reqs, m)}
    BY <1>9 DEF SendHello, SendGetState, LoopSends
  <2>1. m \in Requests /\ ~Refusing(m)
    BY BatcherAssumption DEF Requests, Texts, Message, Refusing
  <2>2. Range(reqs') \subseteq Range(reqs) \cup {m}
    <3>1. Range(Append(reqs, m)) = Range(reqs) \cup {m}
      BY <2>1, AppendRange DEF TypesOK, PipeTypeOK
    <3> QED BY <2>0, <3>1
  <2>3. UNCHANGED <<results, candidate, hostVersion, hostContent, inflight, resps, reply>>
    BY <1>9 DEF SendHello, SendGetState, LoopSends, bvars, uiVars, sessionVars, hostVars
  <2> QED BY <1>0, <2>1, <2>2, <2>3, TraceQuiet DEF RefusalsPassed, Traffic
<1>10. CASE BatcherTurn \/ PostState \/ LoopRestarts \/ NotifyRead
  <2>1. UNCHANGED <<results, candidate, hostVersion, hostContent, inflight, reqs, resps, reply>>
    BY <1>10 DEF BatcherTurn, Recheck, PostState, LoopRestarts, NotifyRead, bvars, uiVars, sessionVars, hostVars
  <2> QED BY <1>0, <2>1, TraceQuiet DEF RefusalsPassed, Traffic
<1>11. CASE Connect \/ ReceiveEnds
  <2>1. UNCHANGED <<results, candidate, hostVersion, hostContent, inflight>>
    BY <1>11 DEF Connect, ReceiveEnds, bvars, uiVars, hostVars
  <2>2. RefusalsPassed
    BY <1>11, EmptyRange, NoMessageTyped
       DEF Connect, ReceiveEnds, RefusalsPassed, Traffic, Refusing, sessionVars
  <2> QED BY <1>0, <2>1, <2>2, TraceQuiet
<1>12. CASE WriteReply
  <2>1. Range(resps') = Range(resps) \cup {reply}
    BY <1>12, AppendRange DEF WriteReply, TypesOK, PipeTypeOK
  <2>2. UNCHANGED <<results, candidate, hostVersion, hostContent, inflight, reqs>> /\ reply' = NoMessage
    BY <1>12 DEF WriteReply, bvars, uiVars, hostVars
  <2> QED BY <1>0, <2>1, <2>2, TraceQuiet, NoMessageTyped DEF RefusalsPassed, Traffic, Refusing
<1>13. CASE NotifyWrite
  <2>1. Range(resps') = Range(resps) \cup {notice}
    BY <1>13, AppendRange DEF NotifyWrite, TypesOK, PipeTypeOK
  <2>2. UNCHANGED <<results, candidate, hostVersion, hostContent, inflight, reqs, reply>>
    BY <1>13 DEF NotifyWrite, bvars, uiVars, hostVars
  <2>3. ~Refusing(notice)
    BY <1>13 DEF NotifyWrite, PipeInv, Welcomed, Refusing
  <2> QED BY <1>0, <2>1, <2>2, <2>3, TraceQuiet DEF RefusalsPassed, Traffic
<1>14. CASE \E v \in Versions : Observer(v)
  <2>1. UNCHANGED <<results, candidate, hostVersion, hostContent, inflight, reqs, resps, reply>>
    BY <1>14 DEF Observer, ObserveAck, ObserveRejection, Revert, ObserveFailure, bvars, sessionVars, hostVars
  <2> QED BY <1>0, <2>1, TraceQuiet DEF RefusalsPassed, Traffic
<1> QED BY <1>1, <1>2, <1>3, <1>4, <1>5, <1>6, <1>7, <1>8, <1>9, <1>10, <1>11, <1>12, <1>13, <1>14
        DEF SyncNext, UIThread, Worker, ConnectionLoop, ReceiveLoop, IpcThread, NotificationThread

LEMMA HostKept == BatcherInv /\ TypesOK /\ PipeInv /\ HostInv /\ [SyncNext]_syncVars => HostInv'
<1>1. ASSUME HostInv, UNCHANGED syncVars PROVE HostInv'
  <2>1. UNCHANGED <<bvars, uiVars, posts, clientVars, reqs, resps, sessionVars, hostVars, made>>
    BY <1>1 DEF syncVars
  <2>2. Numbered' /\ Made' /\ Foreign'
    BY <1>1, <2>1 DEF HostInv, Numbered, Made, Foreign, Drafts, News, bvars, uiVars, clientVars, sessionVars, hostVars
  <2>3. Trace'
    BY <1>1, <2>1, TraceQuiet
       DEF HostInv, RefusalsPassed, Traffic, bvars, uiVars, sessionVars, hostVars
  <2> QED BY <2>2, <2>3 DEF HostInv
<1> QED BY <1>1, NumberedKept, MadeKept, ForeignKept, TraceKept DEF HostInv

-----------------------------------------------------------------------------
(* What the runs check on a few configurations.                             *)
IInv == BatcherInv /\ TypesOK /\ PipeInv /\ HostInv

LEMMA AllKept == SyncSpec => []IInv
<1>1. SyncInit => IInv
  BY InitInv, InitTypes, InitPipe, InitHost DEF SyncInit, IInv
<1>2. IInv /\ [SyncNext]_syncVars => IInv'
  BY TypesKept, StepsAreBatcherSteps, NextPreserves, PipeKept, HostKept DEF IInv
<1> QED BY <1>1, <1>2, PTL DEF SyncSpec

LEMMA TraceSuffices == ASSUME BatcherInv, HostInv PROVE RefusedLeavesNoTrace
  BY DEF HostInv, Trace, Standing, Acknowledging, RefusedLeavesNoTrace

(* The versions the user interface hands out keep increasing, a refused      *)
(* snapshot leaves no trace in the Host, and requests and answers stay       *)
(* matched across reconnects and restarts of the Host.                       *)
THEOREM SyncInvariant == SyncSpec => []SyncInv
<1>1. IInv => SyncInv
  BY TypesSuffice, PipeSuffices, TraceSuffices DEF IInv, HostInv, Numbered, NextVersionIsFresh, SyncInv
<1> QED BY <1>1, AllKept, PTL

(* Only the receive loop ends a call well.                                  *)
LEMMA AckIsReceived ==
  ASSUME BatcherInv, TypesOK, SyncNext, NEW v \in Versions, results[v] = "waiting", results'[v] = "ok"
  PROVE  \E m \in Range(resps) :
           m.kind = "ApplyAck" /\ inflight # NoBatch /\ m.version = inflight.version /\ v \in inflight.calls
<1>0. results \in [Versions -> CallStates]
  BY DEF BatcherInv, BatcherTypeOK
<1>1. ASSUME NEW doc, NEW version, QueueHostSnapshot(doc, version) PROVE FALSE
  BY <1>0, <1>1 DEF QueueHostSnapshot, QueueAsync
<1>2. ~Edit /\ ~HandlePost
  BY <1>1 DEF Edit, HandlePost, FillEmptyHost, bvars
<1>3. ~SendFails
  BY DEF SendFails, Complete, Answered
<1>4. CASE Receive
  <2>0. PICK m : m = Head(resps)
    OBVIOUS
  <2>1. m \in Range(resps)
    BY <1>4, <2>0, TailRange DEF Receive, TypesOK, PipeTypeOK
  <2>2. ReceiveAnswer(m) /\ Complete(OutcomeOf(m.kind)) /\ inflight.version = m.version
    BY <1>4, <2>0 DEF Receive, ReceiveAnswer, ReceiveState, bvars
  <2>3. v \in inflight.calls /\ OutcomeOf(m.kind) = "ok" /\ inflight # NoBatch
    BY <2>2 DEF Complete, Answered, BatcherInv, WorkerHoldsBatch
  <2>4. m.kind = "ApplyAck"
    BY <2>2, <2>3 DEF ReceiveAnswer, OutcomeOf
  <2> QED BY <2>1, <2>2, <2>3, <2>4
<1>5. CASE \E w \in Versions : Observer(w)
  BY <1>5 DEF Observer, ObserveAck, ObserveRejection, Revert, ObserveFailure, bvars
<1>6. ~(BatcherTurn \/ SendApply \/ TakeDisconnected)
  BY DEF BatcherTurn, Recheck, SendApply, TakeDisconnected, TakeBatch
<1>7. ~(ConnectionLoop \/ ReceiveEnds \/ IpcThread \/ NotificationThread \/ Publish \/ Crash)
  BY DEF ConnectionLoop, Connect, SendHello, SendGetState, LoopSends, PostState, LoopRestarts, ReceiveEnds,
     IpcThread, HandleRequest, WriteReply, NotificationThread, NotifyRead, NotifyWrite, Publish, Crash, bvars
<1> QED BY <1>2, <1>3, <1>4, <1>5, <1>6, <1>7 DEF SyncNext, UIThread, Worker, ReceiveLoop

LEMMA AckIsTrue ==
  ASSUME IInv, SyncNext, NEW v \in Versions, serving, results[v] = "waiting", results'[v] = "ok"
  PROVE  hostVersion > v \/ (hostVersion = v /\ hostContent = candidate[v].content)
<1>1. PICK m \in Range(resps) :
        m.kind = "ApplyAck" /\ inflight # NoBatch /\ m.version = inflight.version /\ v \in inflight.calls
  BY AckIsReceived DEF IInv
<1>2. InForce(m)
  BY DEF IInv, PipeInv, Matched
<1>3. inflight.snapshot = candidate[inflight.version].content
  BY <1>1 DEF IInv, HostInv, Numbered
<1>4. v <= inflight.version /\ inflight.version \in Versions
  BY <1>1 DEF IInv, BatcherInv, BatcherTypeOK, Batches, NewestWins
<1>5. v \in Nat /\ inflight.version \in Nat /\ hostVersion \in Nat
  BY <1>4, ContentTypes, BatcherAssumption DEF Counted, IInv, Versions
<1>6. hostVersion > inflight.version \/ (hostVersion = inflight.version /\ hostContent = inflight.snapshot)
  BY <1>1, <1>2 DEF InForce
<1>7. CASE v = inflight.version
  BY <1>3, <1>6, <1>7
<1>8. CASE v # inflight.version
  BY <1>4, <1>5, <1>6, <1>8
<1> QED BY <1>7, <1>8

(* A call that ends well found its configuration in force, or already       *)
(* superseded, in the Host that answered it.                                *)
THEOREM SyncAcksTruly == SyncSpec => AckedIsInForce
<1> DEFINE Acked == \A v \in Versions :
                      serving /\ results[v] = "waiting" /\ results'[v] = "ok"
                        => \/ hostVersion > v
                           \/ hostVersion = v /\ hostContent = candidate[v].content
<1>1. IInv /\ [SyncNext]_syncVars => [Acked]_syncVars
  BY AckIsTrue
<1> QED BY <1>1, AllKept, PTL DEF SyncSpec, AckedIsInForce
=============================================================================
