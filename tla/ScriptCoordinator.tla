------------------------- MODULE ScriptCoordinator -------------------------
(***************************************************************************)
(* The Host's script thread (script_coordinator.cpp).  It owns the runtime  *)
(* of the active configuration and the prepared ones, and runs one queue of *)
(* tasks in order.  prepare, commit and discard are called by the window    *)
(* thread and by the IPC thread, which wait for their answer; input events  *)
(* come from the input thread, which does not wait.                         *)
(*                                                                         *)
(* What Lua computes is left open: whether a configuration's scripts load,  *)
(* whether a callback lets the overlay show, whether it asks to switch.     *)
(***************************************************************************)
EXTENDS Naturals, Sequences, FiniteSets

CONSTANTS Configs, NoConfig,
          Hiding,               \* configurations whose scripts hide the overlay at start
          MaxPrepares           \* bound on the calls of prepare
ASSUME CoordinatorAssumption == NoConfig \notin Configs /\ Hiding \subseteq Configs /\ MaxPrepares \in Nat

VARIABLES
  tasks,                        \* tasks_
  active,                       \* active_; NoRuntime when it is empty
  prepared,                     \* prepared_
  nextToken,                    \* next_token_
  answers                       \* the future each waiting thread holds

scriptVars == <<tasks, active, prepared, nextToken, answers>>

Callers == {"window", "ipc"}
Tokens == 0..MaxPrepares
Runtimes == [token : Tokens, config : Configs \cup {NoConfig}, visible : BOOLEAN]
NoRuntime == [token |-> 0, config |-> NoConfig, visible |-> TRUE]
Task(op, who, config, token) == [op |-> op, who |-> who, config |-> config, token |-> token]
Tasks == [op : {"prepare", "commit", "discard", "input"}, who : Callers \cup {"input"},
          config : Configs \cup {NoConfig}, token : Tokens]
Answer(state, runtime) == [state |-> state, runtime |-> runtime]
NoAnswer == Answer("none", NoRuntime)

CoordinatorTypeOK ==
  /\ tasks \in Seq(Tasks)
  /\ active \in Runtimes
  /\ prepared \subseteq Runtimes
  /\ nextToken \in 1..(MaxPrepares + 1)
  /\ answers \in [Callers -> [state : {"none", "ok", "failed"}, runtime : Runtimes]]

CoordinatorInit ==
  /\ tasks = <<>> /\ active = NoRuntime /\ prepared = {} /\ nextToken = 1
  /\ answers = [who \in Callers |-> NoAnswer]

-----------------------------------------------------------------------------
(* Calls.  A caller waits for its future, and takes the answer out of it as  *)
(* it goes on, with another call or without.                                *)

Taken(who) == [answers EXCEPT ![who] = NoAnswer]
Call(task) ==
  /\ tasks' = Append(tasks, task)
  /\ answers' = IF task.who \in Callers THEN Taken(task.who) ELSE answers
  /\ UNCHANGED <<active, prepared, nextToken>>
GoOn(who) == answers' = Taken(who) /\ UNCHANGED <<tasks, active, prepared, nextToken>>

Prepares == nextToken - 1 + Cardinality({i \in DOMAIN tasks : tasks[i].op = "prepare"})
Prepare(who, config) == Prepares < MaxPrepares /\ Call(Task("prepare", who, config, 0))
Commit(who, token) == Call(Task("commit", who, NoConfig, token))
Discard(who, token) == Call(Task("discard", who, NoConfig, token))
DispatchInput == Call(Task("input", "input", NoConfig, 0))

Answered(who) == answers[who].state # "none"
Succeeded(who) == answers[who].state = "ok"

-----------------------------------------------------------------------------
(* The tasks, each run to its end by the script thread.                     *)

TakeTask(op) == tasks # <<>> /\ Head(tasks).op = op /\ tasks' = Tail(tasks)
Reply(state, runtime) == answers' = [answers EXCEPT ![Head(tasks).who] = Answer(state, runtime)]

(* parse_candidate takes a token, then loads the scripts, which may fail.   *)
RunPrepare ==
  /\ TakeTask("prepare")
  /\ nextToken' = nextToken + 1
  /\ \/ LET config == Head(tasks).config
            candidate == [token |-> nextToken, config |-> config, visible |-> config \notin Hiding]
        IN prepared' = prepared \cup {candidate} /\ Reply("ok", candidate)
     \/ prepared' = prepared /\ Reply("failed", NoRuntime)
  /\ UNCHANGED active

(* Mutated forms: a discard forgets nothing; the exception is not passed on. *)
MutAfterDiscard(token) == prepared
MutNoCandidate == answers' = answers

NoCandidate == Reply("failed", NoRuntime)
AfterDiscard(token) == {r \in prepared : r.token # token}

RunCommit ==
  /\ TakeTask("commit")
  /\ \/ \E candidate \in prepared :
          /\ candidate.token = Head(tasks).token
          /\ active' = candidate
          /\ prepared' = {}
          /\ Reply("ok", candidate)
     \/ /\ \A candidate \in prepared : candidate.token # Head(tasks).token
        /\ NoCandidate
        /\ UNCHANGED <<active, prepared>>
  /\ UNCHANGED nextToken

RunDiscard ==
  /\ TakeTask("discard")
  /\ prepared' = AfterDiscard(Head(tasks).token)
  /\ Reply("ok", NoRuntime)
  /\ UNCHANGED <<active, nextToken>>

(* An input event finds no runtime, or no script of its scope and name.     *)
IgnoreInput == TakeTask("input") /\ UNCHANGED <<active, prepared, nextToken, answers>>

(* It runs a callback of the runtime active now, after which the scripts    *)
(* allow the overlay to show or not.                                        *)
RunInput(visible) ==
  /\ active # NoRuntime
  /\ TakeTask("input")
  /\ active' = [active EXCEPT !.visible = visible]
  /\ UNCHANGED <<prepared, nextToken, answers>>

(* The thread drains its queue before it stops, and drops the runtimes.     *)
StopCoordinator ==
  /\ tasks = <<>>
  /\ active' = NoRuntime /\ prepared' = {}
  /\ UNCHANGED <<tasks, nextToken, answers>>
=============================================================================
