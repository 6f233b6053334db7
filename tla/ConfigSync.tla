------------------------------ MODULE ConfigSync ------------------------------
(***************************************************************************)
(* How a configuration edited in the settings UI becomes the Host's, and    *)
(* how the Host's own changes become the UI's.  Five actors take turns:     *)
(* the UI thread (ConfigurationWorkspace), thread-pool continuations        *)
(* (ObserveHostUpdateAsync and the SnapshotBatcher this module extends),    *)
(* the client's connection loop and receive loop (HostClient), the Host's   *)
(* IPC thread with its notification thread (named_pipe_server.cpp), and the *)
(* state they share there (IpcHostState).                                   *)
(*                                                                         *)
(* A configuration is abstracted to a number; 0 is the Host's empty         *)
(* snapshot.  The workspace tells documents apart by reference: a document  *)
(* made here is "local", one parsed from the Host's JSON is not.            *)
(***************************************************************************)
EXTENDS SnapshotBatcher, Integers, Sequences, SequencesExt

CONSTANTS MaxCrashes,       \* bound on the crashes of the Host
          MaxPublishes      \* bound on the changes Host scripts make

Contents == Snapshots
ASSUME SyncAssumption == /\ Cardinality(Snapshots) \in Nat \ {0} /\ Snapshots = 1..Cardinality(Snapshots)
                         /\ Outcomes = {"ok", "rejected", "handshake", "failed"}
                         /\ MaxVersion # 0 /\ MaxCrashes \in Nat /\ MaxPublishes \in Nat

VARIABLES
  document, accepted,       \* Document and lastHostAcceptedDocument
  candidate,                \* the document each queued call carries
  observer,                 \* ObserveHostUpdateAsync of each call
  nextVersion,
  posts,                    \* states posted to the UI thread, oldest first
  conn,                     \* where RunConnectionLoopAsync is
  answer,                   \* the GetState answer the loop is about to post
  receiving,                \* the receive loop runs
  awaiting,                 \* the batch's request is written and registered
  reqs, resps,              \* the two directions of the pipe
  serving, authenticated,   \* serve_client runs; its session saw Hello
  reply,                    \* response made by the IPC thread, not yet written
  notifier,                 \* revision the notification thread saw; -1 before it starts
  startRevision,            \* initial_host_revision of the connection
  notice,                   \* notification made, not yet written
  hostVersion, hostContent, hostRevision,   \* IpcHostState
  made, crashes             \* ghosts for the bounds: contents made, Host crashes

uiVars == <<document, accepted, candidate, observer, nextVersion>>
clientVars == <<conn, answer, receiving>>
sessionVars == <<serving, authenticated, reply, notifier, notice, startRevision>>
hostVars == <<hostVersion, hostContent, hostRevision>>
syncVars == <<bvars, awaiting, uiVars, posts, clientVars, reqs, resps, sessionVars, hostVars,
              made, crashes>>

Documents == [content : Contents, local : BOOLEAN]
Message(kind, version, content) == [kind |-> kind, version |-> version, content |-> content]
NoMessage == Message("none", 0, 0)
Kinds == {"Hello", "GetState", "Apply", "HelloAck", "State", "Changed",
          "ApplyAck", "ApplyError", "HandshakeError", "none"}
Numbers == 0..(2 * MaxVersion + MaxPublishes)
Messages == [kind : Kinds, version : Numbers, content : Contents \cup {0}]

SyncTypeOK ==
  /\ BatcherTypeOK
  /\ document \in Documents /\ accepted \in Documents
  /\ candidate \in [Versions -> Documents]
  /\ observer \in [Versions -> {"none", "waiting", "reverting", "done"}]
  /\ nextVersion \in Numbers
  /\ posts \in Seq(Messages)
  /\ conn \in {"down", "opened", "hello", "greeted", "asking", "answered", "ready"}
  /\ answer \in Messages
  /\ reqs \in Seq(Messages) /\ resps \in Seq(Messages)
  /\ {receiving, serving, authenticated, awaiting} \subseteq BOOLEAN
  /\ reply \in Messages /\ notice \in Messages
  /\ notifier \in -1..MaxPublishes /\ startRevision \in 0..MaxPublishes
  /\ hostVersion \in Numbers /\ hostContent \in Contents \cup {0}
  /\ hostRevision \in 0..MaxPublishes
  /\ made \in Contents /\ crashes \in 0..MaxCrashes

SyncInit ==
  /\ BatcherInit
  /\ document = [content |-> 1, local |-> TRUE]
  /\ accepted = document
  /\ candidate = [v \in Versions |-> document]
  /\ observer = [v \in Versions |-> "none"]
  /\ nextVersion = 1
  /\ posts = <<>> /\ reqs = <<>> /\ resps = <<>>
  /\ conn = "down" /\ answer = NoMessage /\ receiving = FALSE
  /\ serving = FALSE /\ authenticated = FALSE
  /\ reply = NoMessage /\ notice = NoMessage /\ notifier = -1
  /\ awaiting = FALSE /\ startRevision = 0
  /\ hostVersion = 0 /\ hostContent = 0 /\ hostRevision = 0
  /\ made = 1 /\ crashes = 0

-----------------------------------------------------------------------------
(* The UI thread.                                                           *)

(* QueueHostSnapshot: numbers the document, queues it, starts its observer. *)
QueueHostSnapshot(doc, version) ==
  /\ version \in Versions
  /\ QueueAsync(version, doc.content)
  /\ candidate' = [candidate EXCEPT ![version] = doc]
  /\ observer' = [observer EXCEPT ![version] = "waiting"]
  /\ nextVersion' = version + 1

(* A valid edit: UpdateDocument, or another operation, and then Publish.    *)
Edit ==
  /\ made + 1 \in Contents
  /\ made' = made + 1
  /\ document' = [content |-> made', local |-> TRUE]
  /\ QueueHostSnapshot(document', nextVersion)
  /\ UNCHANGED <<awaiting, accepted, posts, clientVars, reqs, resps, sessionVars, hostVars, crashes>>

(* Mutated forms of the two helpers of OnHostStateChanged.                  *)
MutVersionAfter(version) == version + 1
MutSkipEmptyHost(next) == nextVersion' = next /\ UNCHANGED <<bvars, candidate, observer>>

VersionAfter(version) == IF version + 1 > nextVersion THEN version + 1 ELSE nextVersion
FillEmptyHost(next) == QueueHostSnapshot(document, next)

(* OnHostStateChanged: an empty Host is sent the UI's document, any other    *)
(* state of the Host becomes the document.  Its version only advances the   *)
(* counter.                                                                 *)
HandlePost ==
  /\ posts # <<>>
  /\ posts' = Tail(posts)
  /\ LET state == Head(posts)
         next == VersionAfter(state.version)
     IN \/ /\ state.content = 0
           /\ FillEmptyHost(next)
           /\ UNCHANGED <<document, accepted>>
        \/ /\ state.content # 0
           /\ document' = [content |-> state.content, local |-> FALSE]
           /\ accepted' = document'
           /\ nextVersion' = next
           /\ UNCHANGED <<bvars, candidate, observer>>
  /\ UNCHANGED <<awaiting, clientVars, reqs, resps, sessionVars, hostVars, made, crashes>>

-----------------------------------------------------------------------------
(* ObserveHostUpdateAsync, on the thread pool in no particular order.       *)

ObserveAck(v) ==
  /\ observer[v] = "waiting"
  /\ results[v] = "ok"
  /\ accepted' = candidate[v]
  /\ observer' = [observer EXCEPT ![v] = "done"]
  /\ UNCHANGED <<bvars, awaiting, document, candidate, nextVersion, posts, clientVars, reqs, resps,
                 sessionVars, hostVars, made, crashes>>

(* HostRequestException: the reference is compared now, and the document    *)
(* assigned in a later step, with nothing to stop the UI thread in between. *)
ObserveRejection(v) ==
  /\ observer[v] = "waiting"
  /\ results[v] \in {"rejected", "handshake"}
  /\ observer' = [observer EXCEPT ![v] = IF document = candidate[v] THEN "reverting" ELSE "done"]
  /\ UNCHANGED <<bvars, awaiting, document, accepted, candidate, nextVersion, posts, clientVars, reqs,
                 resps, sessionVars, hostVars, made, crashes>>

Revert(v) ==
  /\ observer[v] = "reverting"
  /\ document' = accepted
  /\ observer' = [observer EXCEPT ![v] = "done"]
  /\ UNCHANGED <<bvars, awaiting, accepted, candidate, nextVersion, posts, clientVars, reqs, resps,
                 sessionVars, hostVars, made, crashes>>

(* IOException and the like only set an error message.                      *)
ObserveFailure(v) ==
  /\ observer[v] = "waiting"
  /\ results[v] \in {"failed", "cancelled"}
  /\ observer' = [observer EXCEPT ![v] = "done"]
  /\ UNCHANGED <<bvars, awaiting, document, accepted, candidate, nextVersion, posts, clientVars, reqs,
                 resps, sessionVars, hostVars, made, crashes>>

-----------------------------------------------------------------------------
(* The batcher's worker, and SendRequestAsync on its behalf.                *)

BatcherTurn ==
  /\ Recheck
  /\ UNCHANGED <<awaiting, uiVars, posts, clientVars, reqs, resps, sessionVars, hostVars, made, crashes>>

(* The stream is there as soon as the pipe is connected, before Hello.      *)
SendApply ==
  /\ TakeBatch
  /\ serving
  /\ conn # "down"
  /\ reqs' = Append(reqs, Message("Apply", pending.version, pending.snapshot))
  /\ awaiting' = TRUE
  /\ UNCHANGED <<uiVars, posts, clientVars, resps, sessionVars, hostVars, made, crashes>>

(* No stream, or a broken one: the send will throw.                         *)
TakeDisconnected ==
  /\ TakeBatch
  /\ conn = "down" \/ ~serving
  /\ UNCHANGED <<awaiting, uiVars, posts, clientVars, reqs, resps, sessionVars, hostVars, made, crashes>>

(* IOException: nothing was written, or FailPending took the request back.  *)
(* There is no timeout.                                                     *)
SendMayThrow == ~awaiting

SendFails ==
  /\ worker = "sending"
  /\ SendMayThrow
  /\ Complete("failed")
  /\ UNCHANGED <<awaiting, uiVars, posts, clientVars, reqs, resps, sessionVars, hostVars, made, crashes>>

-----------------------------------------------------------------------------
(* The connection loop and the receive loop.                                *)

(* One pipe instance: the client gets through while nobody is served.       *)
Connect ==
  /\ conn = "down"
  /\ ~serving
  /\ conn' = "opened"
  /\ receiving' = TRUE
  /\ serving' = TRUE
  /\ authenticated' = FALSE
  /\ notifier' = -1
  /\ reqs' = <<>> /\ resps' = <<>>
  /\ reply' = NoMessage /\ notice' = NoMessage
  /\ startRevision' = hostRevision
  /\ UNCHANGED <<bvars, awaiting, uiVars, posts, answer, hostVars, made, crashes>>

LoopSends(kind, from, to) ==
  /\ conn = from
  /\ receiving
  /\ conn' = to
  /\ reqs' = IF serving THEN Append(reqs, Message(kind, 0, 0)) ELSE reqs
  /\ UNCHANGED <<bvars, awaiting, uiVars, posts, answer, receiving, resps, sessionVars,
                 hostVars, made, crashes>>

SendHello == LoopSends("Hello", "opened", "hello")
SendGetState == LoopSends("GetState", "greeted", "asking")

(* RaiseStateChanged from the loop's own continuation: the receive loop may *)
(* have posted newer states since it read this answer.                      *)
PostState ==
  /\ conn = "answered"
  /\ conn' = "ready"
  /\ posts' = Append(posts, answer)
  /\ answer' = NoMessage
  /\ UNCHANGED <<bvars, awaiting, uiVars, receiving, reqs, resps, sessionVars, hostVars,
                 made, crashes>>

(* Where an exception of the connection reaches the loop, and a mutated form *)
(* that only catches it once synchronised.                                  *)
MutLoopCatches == conn = "ready"
LoopCatches == conn \notin {"down", "answered"}

(* The loop sees the broken connection, closes its stream and starts over.  *)
LoopRestarts ==
  /\ ~receiving
  /\ LoopCatches
  /\ conn' = "down"
  /\ UNCHANGED <<bvars, awaiting, uiVars, posts, answer, receiving, reqs, resps, sessionVars,
                 hostVars, made, crashes>>

(* ReceiveLoopAsync reads one message.  An answer completes the request it   *)
(* names if that is still registered.                                        *)
OutcomeOf(kind) == CASE kind = "ApplyAck" -> "ok"
                     [] kind = "ApplyError" -> "rejected"
                     [] kind = "HandshakeError" -> "handshake"

ReceiveAnswer(m) ==
  /\ m.kind \in {"ApplyAck", "ApplyError", "HandshakeError"}
  /\ IF awaiting /\ inflight.version = m.version
       THEN Complete(OutcomeOf(m.kind)) /\ awaiting' = FALSE
       ELSE UNCHANGED <<bvars, awaiting>>
  /\ UNCHANGED <<posts, conn, answer>>

ReceiveState(m) ==
  /\ \/ m.kind = "HelloAck" /\ conn' = "greeted" /\ UNCHANGED <<posts, answer>>
     \/ m.kind = "State" /\ conn' = "answered" /\ answer' = m /\ UNCHANGED posts
     \/ m.kind = "Changed" /\ posts' = Append(posts, m) /\ UNCHANGED <<conn, answer>>
  /\ UNCHANGED <<bvars, awaiting>>

Receive ==
  /\ receiving
  /\ resps # <<>>
  /\ resps' = Tail(resps)
  /\ ReceiveAnswer(Head(resps)) \/ ReceiveState(Head(resps))
  /\ UNCHANGED <<uiVars, receiving, reqs, sessionVars, hostVars, made, crashes>>

(* FailPending, and a mutated form that fails nothing.                       *)
MutFailPending == UNCHANGED awaiting
FailPending == awaiting' = FALSE

(* The pipe is broken: what was not read yet may be lost, and the request    *)
(* that is still registered fails.                                           *)
ReceiveEnds ==
  /\ receiving
  /\ ~serving
  /\ receiving' = FALSE
  /\ resps' = <<>>
  /\ FailPending
  /\ UNCHANGED <<bvars, uiVars, posts, conn, answer, reqs, sessionVars, hostVars, made, crashes>>

-----------------------------------------------------------------------------
(* The Host's IPC thread.                                                    *)

Idle == serving /\ reply = NoMessage /\ reqs # <<>>

(* Mutated form: the content is not compared.                                *)
MutSameSnapshot(m) == m.version = hostVersion

SameSnapshot(m) == m.version = hostVersion /\ m.content = hostContent
Refuse(m) == /\ reply' = Message("ApplyError", m.version, 0)
             /\ UNCHANGED <<hostVersion, hostContent>>

(* IpcHostState::apply under its mutex: an older version or another content  *)
(* under the current version is refused, and the validator may refuse.       *)
HandleApply(m) ==
  \/ /\ m.version > hostVersion
     /\ hostVersion' = m.version
     /\ hostContent' = m.content
     /\ reply' = Message("ApplyAck", m.version, 0)
  \/ /\ SameSnapshot(m)
     /\ reply' = Message("ApplyAck", m.version, 0)
     /\ UNCHANGED <<hostVersion, hostContent>>
  \/ ~SameSnapshot(m) /\ Refuse(m)

(* IpcSession::handle_message.                                               *)
HandleRequest ==
  /\ Idle
  /\ reqs' = Tail(reqs)
  /\ LET m == Head(reqs)
     IN \/ /\ m.kind = "Hello"
           /\ authenticated' = TRUE
           /\ reply' = Message("HelloAck", 0, 0)
           /\ UNCHANGED <<hostVersion, hostContent>>
        \/ /\ m.kind # "Hello" /\ ~authenticated
           /\ reply' = Message("HandshakeError", m.version, 0)
           /\ UNCHANGED <<authenticated, hostVersion, hostContent>>
        \/ /\ m.kind = "GetState" /\ authenticated
           /\ reply' = Message("State", hostVersion, hostContent)
           /\ UNCHANGED <<authenticated, hostVersion, hostContent>>
        \/ /\ m.kind = "Apply" /\ authenticated
           /\ HandleApply(m)
           /\ UNCHANGED authenticated
  /\ UNCHANGED <<bvars, awaiting, uiVars, posts, clientVars, resps, serving, notifier, notice,
                 startRevision, hostRevision, made, crashes>>

(* serve_client writes the response, starts the notification thread after    *)
(* the first Hello, and hangs up after a response that asks for it.          *)
WriteReply ==
  /\ serving
  /\ reply # NoMessage
  /\ resps' = Append(resps, reply)
  /\ reply' = NoMessage
  /\ notifier' = IF reply.kind = "HelloAck" THEN startRevision ELSE notifier
  /\ serving' = (reply.kind # "HandshakeError")
  /\ UNCHANGED <<bvars, awaiting, uiVars, posts, clientVars, reqs, authenticated, notice,
                 startRevision, hostVars, made, crashes>>

(* The notification thread takes the state under the mutex of IpcHostState   *)
(* and writes it later, under the mutex of the pipe.                         *)
NotifyRead ==
  /\ serving
  /\ notifier # -1
  /\ notice = NoMessage
  /\ notifier # hostRevision
  /\ notifier' = hostRevision
  /\ notice' = Message("Changed", hostVersion, hostContent)
  /\ UNCHANGED <<bvars, awaiting, uiVars, posts, clientVars, reqs, resps, serving, authenticated,
                 reply, startRevision, hostVars, made, crashes>>

NotifyWrite ==
  /\ serving
  /\ notice # NoMessage
  /\ resps' = Append(resps, notice)
  /\ notice' = NoMessage
  /\ UNCHANGED <<bvars, awaiting, uiVars, posts, clientVars, reqs, serving, authenticated, reply,
                 notifier, startRevision, hostVars, made, crashes>>

(* publish_host_snapshot, from the window thread, for a script's settings.   *)
Publish ==
  /\ hostContent # 0
  /\ hostRevision < MaxPublishes
  /\ made + 1 \in Contents
  /\ made' = made + 1
  /\ hostContent' = made'
  /\ hostVersion' = hostVersion + 1
  /\ hostRevision' = hostRevision + 1
  /\ UNCHANGED <<bvars, awaiting, uiVars, posts, clientVars, reqs, resps, sessionVars, crashes>>

(* The Host process dies and a new one is started: its state is empty.       *)
Crash ==
  /\ crashes < MaxCrashes
  /\ crashes' = crashes + 1
  /\ serving' = FALSE
  /\ hostVersion' = 0 /\ hostContent' = 0 /\ hostRevision' = 0
  /\ UNCHANGED <<bvars, awaiting, uiVars, posts, clientVars, reqs, resps, authenticated, reply,
                 notifier, notice, startRevision, made>>

-----------------------------------------------------------------------------
UIThread == HandlePost
Observer(v) == ObserveAck(v) \/ ObserveRejection(v) \/ Revert(v) \/ ObserveFailure(v)
Worker == BatcherTurn \/ SendApply \/ TakeDisconnected \/ SendFails
ConnectionLoop == Connect \/ SendHello \/ SendGetState \/ PostState \/ LoopRestarts
ReceiveLoop == Receive \/ ReceiveEnds
IpcThread == HandleRequest \/ WriteReply
NotificationThread == NotifyRead \/ NotifyWrite

SyncNext == \/ Edit \/ UIThread \/ Worker \/ ConnectionLoop \/ ReceiveLoop
            \/ \E v \in Versions : Observer(v)
            \/ IpcThread \/ NotificationThread \/ Publish \/ Crash

SyncSpec == SyncInit /\ [][SyncNext]_syncVars

(* Every thread and every ready continuation runs; the user, the scripts and *)
(* crashes owe nothing.                                                      *)
FairSyncSpec ==
  /\ SyncSpec
  /\ WF_syncVars(UIThread) /\ WF_syncVars(Worker) /\ WF_syncVars(ConnectionLoop)
  /\ WF_syncVars(Receive) /\ WF_syncVars(ReceiveEnds)
  /\ WF_syncVars(IpcThread) /\ WF_syncVars(NotificationThread)
  /\ \A v \in Versions : WF_syncVars(Observer(v))

-----------------------------------------------------------------------------
(* QueueSnapshotAsync throws, on the UI thread, when a version does not       *)
(* increase: the workspace never gives it one, whatever versions the Host's   *)
(* states carry and in whatever order they are posted.                        *)
NextVersionIsFresh == nextVersion > highestVersion

(* A call that ends well found its configuration in force, or already         *)
(* superseded, in the Host that answered, even if that Host published and     *)
(* others were batched with the call.                                         *)
AckedIsInForce ==
  [][\A v \in Versions :
       serving /\ results[v] = "waiting" /\ results'[v] = "ok"
         => \/ hostVersion > v
            \/ hostVersion = v /\ hostContent = candidate[v].content]_syncVars

(* The Host never runs a configuration under a version whose call was         *)
(* refused: a refused snapshot leaves no trace in IpcHostState.               *)
RefusedLeavesNoTrace ==
  \A v \in Versions :
    results[v] \in {"rejected", "handshake"} /\ hostVersion = v
      => hostContent # candidate[v].content

(* Request and answer stay matched across reconnects: whatever of an         *)
(* ApplySnapshot is in the pipe belongs to the batch being sent.             *)
ApplyTraffic == {m \in Range(reqs) \cup Range(resps) \cup {reply} :
                   m.kind \in {"Apply", "ApplyAck", "ApplyError", "HandshakeError"}}

AnswersMatchBatch ==
  serving => \A m \in ApplyTraffic : worker = "sending" /\ awaiting /\ m.version = inflight.version

(* What holds of every state.                                                 *)
SyncInv == SyncTypeOK /\ NextVersionIsFresh /\ RefusedLeavesNoTrace /\ AnswersMatchBatch

(* Every edit is answered: again and again there is a moment at which none    *)
(* waits to be acknowledged, refused or failed, whatever happens to the Host  *)
(* and the pipe.                                                              *)
EveryEditAnswered == []<>(\A v \in Versions : observer[v] \in {"none", "done"})

(* An empty Host, fresh or restarted, ends up with a configuration, unless it *)
(* refuses one or the model runs out of versions.                             *)
EmptyHostIsConfigured ==
  hostContent = 0 ~> \/ hostContent # 0
                     \/ \E v \in Versions : results[v] \in {"rejected", "handshake"}
                     \/ nextVersion > MaxVersion

(* The client always gets back to a synchronised connection.                  *)
AlwaysReconnects == []<>(conn = "ready")
=============================================================================
