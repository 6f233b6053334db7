-------------------------- MODULE SnapshotDelivery --------------------------
(***************************************************************************)
(* What the 16 ms snapshot batcher promises to its callers, with no worker, *)
(* window or queue in sight.  Callers offer strictly increasing versions;   *)
(* some offered versions are delivered, in increasing order; and a delivery *)
(* answers every call it supersedes with one and the same outcome.          *)
(***************************************************************************)
EXTENDS Naturals

CONSTANTS MaxVersion,       \* bound on the versions callers offer
          Outcomes          \* how a delivery may end

VARIABLES offered,          \* highest version offered so far
          delivered,        \* highest version handed to the sender so far
          results           \* answer of each call, named by its version

dvars == <<offered, delivered, results>>

Calls == 1..MaxVersion

DInit == /\ offered = 0
         /\ delivered = 0
         /\ results = [c \in Calls |-> "none"]

(* A caller offers a version above every earlier one and starts to wait.    *)
Offer == \E v \in Calls :
           /\ v > offered
           /\ offered' = v
           /\ results' = [results EXCEPT ![v] = "waiting"]
           /\ UNCHANGED delivered

(* A version still waited for goes out; nothing older can follow it.        *)
Deliver == \E v \in Calls :
             /\ v > delivered
             /\ results[v] = "waiting"
             /\ delivered' = v
             /\ UNCHANGED <<offered, results>>

(* The sender's outcome for the delivered version answers, at once, every   *)
(* call that was waiting for it or for a version it superseded.             *)
Answer == \E o \in Outcomes :
            /\ delivered > 0
            /\ results[delivered] = "waiting"
            /\ results' = [c \in Calls |->
                             IF c <= delivered /\ results[c] = "waiting"
                               THEN o ELSE results[c]]
            /\ UNCHANGED <<offered, delivered>>

(* Shutdown abandons the calls whose version was never delivered.           *)
Abandon == /\ \E c \in Calls : c > delivered /\ results[c] = "waiting"
           /\ results' = [c \in Calls |->
                            IF c > delivered /\ results[c] = "waiting"
                              THEN "cancelled" ELSE results[c]]
           /\ UNCHANGED <<offered, delivered>>

DNext == Offer \/ Deliver \/ Answer \/ Abandon

DSpec == DInit /\ [][DNext]_dvars
=============================================================================
