----------------------------- MODULE ToastQueue -----------------------------
(***************************************************************************)
(* The queue of toasts of the Host (ToastQueue, render_state.cpp 94-169).   *)
(* One toast is active, until its time is over; the others are pending, and  *)
(* the most urgent one follows.  A message replaces a pending one with the   *)
(* same de-duplication key, and the active one if it has its key or is at    *)
(* least as urgent.                                                         *)
(*                                                                         *)
(* Messages are numbered in the order of their arrival.  Time is one bit:    *)
(* whether the duration of the active toast is over.  Of several pending     *)
(* messages of the highest priority the code takes the one queued first,     *)
(* the model any.                                                           *)
(***************************************************************************)
EXTENDS Naturals

CONSTANTS Keys,                 \* de-duplication keys
          Priorities,           \* a set of natural numbers
          MaxToasts             \* bound on the messages
ASSUME ToastAssumption == Priorities \subseteq Nat /\ MaxToasts \in Nat

VARIABLES
  toast,                        \* active_: a set of at most one message
  pending,                      \* pending_
  over,                         \* now >= active_->expires_at_ms
  arrived,                      \* how many messages came so far
  newest                        \* history: the last message of each key, 0 once it was shown to its end

toastVars == <<toast, pending, over, arrived, newest>>

Messages == [key : Keys, priority : Priorities, number : 1..MaxToasts]

ToastTypeOK ==
  /\ toast \subseteq Messages
  /\ \A one, other \in toast : one = other
  /\ pending \subseteq Messages
  /\ over \in BOOLEAN
  /\ arrived \in 0..MaxToasts
  /\ newest \in [Keys -> 0..MaxToasts]

ToastInit ==
  /\ toast = {} /\ pending = {} /\ over = FALSE /\ arrived = 0
  /\ newest = [k \in Keys |-> 0]

-----------------------------------------------------------------------------
\* enqueue_or_replace of every message of a set with at most one element
Others(messages, keep) == {m \in messages : \A k \in keep : m.key # k.key}
Queued(waiting, messages) == Others(waiting, messages) \cup messages

SameKey(message) == \E shown \in toast : shown.key = message.key
Preempts(message) == \A shown \in toast : shown.key = message.key \/ message.priority >= shown.priority

Activate(message) == toast' = {message} /\ over' = FALSE

\* push, when nothing is active, or the message goes before what is.  A toast
\* that is preempted waits for a new turn; one with the same key is dropped.
MutPreempted(message) == pending
Preempted(message) == IF SameKey(message) THEN pending ELSE Queued(pending, toast)
ShowNow(message) ==
  /\ Preempts(message)
  /\ Activate(message)
  /\ pending' = Preempted(message)
ShowLater(message) ==
  /\ ~Preempts(message)
  /\ pending' = Queued(pending, {message})
  /\ UNCHANGED <<toast, over>>

Push(message) ==
  /\ message.number = arrived + 1
  /\ arrived' = arrived + 1
  /\ newest' = [newest EXCEPT ![message.key] = arrived + 1]
  /\ ShowNow(message) \/ ShowLater(message)

\* advance: a toast whose time is not over stays.  What has been shown to its
\* end is no longer owed to anyone.
MostUrgent(message) == message \in pending /\ \A m \in pending : m.priority <= message.priority
Follow(message) ==
  /\ MostUrgent(message)
  /\ pending' = pending \ {message}
  /\ Activate(message)
NoneLeft == pending = {} /\ toast' = {} /\ over' = FALSE /\ UNCHANGED pending
Shown == newest' = [k \in Keys |-> IF \E shown \in toast : shown.number = newest[k] THEN 0 ELSE newest[k]]
Stays == toast # {} /\ ~over
Advance ==
  /\ UNCHANGED arrived
  /\ \/ Stays /\ UNCHANGED <<toast, pending, over, newest>>
     \/ ~Stays /\ Shown /\ (NoneLeft \/ \E message \in pending : Follow(message))

\* The clock reaches expires_at_ms.
TimeIsOver ==
  /\ toast # {} /\ ~over /\ over' = TRUE
  /\ UNCHANGED <<toast, pending, arrived, newest>>
=============================================================================
