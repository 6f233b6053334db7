-------------------------- MODULE ProcessLifecycle --------------------------
(***************************************************************************)
(* Which Host process the user interface talks to.  A Host owns a mutex,    *)
(* removes the marker of an earlier exit, publishes an endpoint file, and   *)
(* serves one pipe; when its window is gone it writes the marker (if it was *)
(* asked to exit), closes the pipe, removes the file and lets the mutex go. *)
(* The connection loop of the user interface (HostClient) finds the Host by *)
(* that file, starts one if there is none, and has a Host of the wrong      *)
(* elevation restart.  What is said over the pipe apart from Hello and      *)
(* RestartHost is ConfigSync.                                               *)
(***************************************************************************)
EXTENDS Naturals, Sequences, FiniteSets

CONSTANTS Pids,                 \* process identifiers Hosts get
          MaxDisturbances       \* bound on what users do and what fails
ASSUME LifecycleAssumption == MaxDisturbances \in Nat /\ IsFiniteSet(Pids) /\ "none" \notin Pids

VARIABLES
  hosts,                        \* the process of each identifier
  endpoint,                     \* the endpoint file
  marker,                       \* the file that says the Host has exited
  ui,                           \* where RunConnectionLoopAsync is; "down": no user interface
  startsHost, uiElevated,       \* how the user interface was started
  mode,                         \* requireElevatedInputCompatibility
  asked,                        \* elevation of the Host being started
  target,                       \* the endpoint read from the file
  throttled,                    \* a Host was started less than two seconds ago
  link, pipe, authenticated, greeted,   \* the connection, its requests, the session
  disturbed                     \* disturbances so far

processVars == <<hosts, endpoint, marker>>
linkVars == <<link, pipe, authenticated, greeted>>
modeVars == <<startsHost, uiElevated, mode>>
loopVars == <<asked, target, throttled>>
vars == <<processVars, ui, modeVars, loopVars, linkVars, disturbed>>

NoFile == [pid |-> "none", elevated |-> FALSE, open |-> FALSE]
NoProcess == [phase |-> "none", elevated |-> FALSE, exit |-> "success", posted |-> FALSE]
Phase(p) == hosts[p].phase
Disturb == disturbed < MaxDisturbances /\ disturbed' = disturbed + 1

(* The phases of a Host that holds the mutex, and of one whose IPC thread   *)
(* runs.  Mutated form: the mutex goes before the endpoint file does.       *)
MutHolding == {"owner", "cleared", "published", "serving", "closing", "marked"}
Holding == {"owner", "cleared", "published", "serving", "closing", "marked", "stopped", "unpublished"}
Listening == {"serving", "closing", "marked"}
Owners == {p \in Pids : Phase(p) \in Holding}

InStream == {"opened", "hello", "restarting", "connected"}      \* the client's stream is set
Require == mode \/ uiElevated                         \* ResolveHostElevationRequirement

(* The user has just started the user interface and no Host runs, or has   *)
(* opened it from the tray of a Host.                                       *)
InitHosts ==
  \/ /\ hosts = [p \in Pids |-> NoProcess]
     /\ endpoint \in {NoFile} \cup {[NoFile EXCEPT !.pid = p] : p \in Pids}   \* of a Host that crashed
     /\ startsHost = TRUE /\ uiElevated \in BOOLEAN
  \/ \E p \in Pids : \E elevated \in BOOLEAN :
       /\ hosts = [q \in Pids |-> IF q = p THEN [NoProcess EXCEPT !.phase = "serving", !.elevated = elevated]
                                 ELSE NoProcess]
       /\ endpoint = [pid |-> p, elevated |-> elevated, open |-> TRUE]
       /\ startsHost = FALSE /\ uiElevated = elevated
Init ==
  /\ InitHosts
  /\ marker = FALSE /\ ui = "check" /\ mode \in BOOLEAN
  /\ asked = FALSE /\ target = NoFile /\ throttled = FALSE
  /\ link = "none" /\ pipe = <<>> /\ authenticated = FALSE /\ greeted = FALSE
  /\ disturbed = 0

-----------------------------------------------------------------------------
(* The Host: run_overlay_prototype and its destructors.                     *)

Enter(p, phase) == hosts' = [hosts EXCEPT ![p].phase = phase]
(* A process that ends, and a pipe that closes, take the connection along.  *)
(* ".open" of an endpoint says whether the pipe it names exists.            *)
Closed(file, p) == IF file.pid = p THEN [file EXCEPT !.open = FALSE] ELSE file
ClosePipe(p) ==
  /\ target' = Closed(target, p)
  /\ link' = IF target.pid = p /\ target.open
             THEN CASE link = "open" -> "hostClosed" [] link = "uiClosed" -> "none" [] OTHER -> link
             ELSE link
  /\ UNCHANGED <<pipe, authenticated, greeted>>
Die(p) == hosts' = [hosts EXCEPT ![p] = NoProcess]

(* SingleInstanceGuard: the second Host ends without a word.                *)
Acquire(p) ==
  /\ Phase(p) = "starting"
  /\ IF Owners = {} THEN Enter(p, "owner") ELSE Die(p)
  /\ UNCHANGED <<endpoint, marker, ui, modeVars, loopVars, linkVars, disturbed>>

(* IpcEndpointRegistration.  Mutated form: an old marker is left.           *)
MutClear(p) ==
  /\ Phase(p) = "owner"
  /\ Enter(p, "cleared")
  /\ UNCHANGED <<endpoint, marker, ui, modeVars, loopVars, linkVars, disturbed>>
Clear(p) ==
  /\ Phase(p) = "owner"
  /\ Enter(p, "cleared") /\ marker' = FALSE
  /\ UNCHANGED <<endpoint, ui, modeVars, loopVars, linkVars, disturbed>>
Publish(p) ==
  /\ Phase(p) = "cleared"
  /\ Enter(p, "published")
  /\ endpoint' = [pid |-> p, elevated |-> hosts[p].elevated, open |-> TRUE]
  /\ UNCHANGED <<marker, ui, modeVars, loopVars, linkVars, disturbed>>
(* OverlayApplication::initialize: window first, then the IPC thread.       *)
Serve(p) ==
  /\ Phase(p) = "published"
  /\ Enter(p, "serving")
  /\ UNCHANGED <<endpoint, marker, ui, modeVars, loopVars, linkVars, disturbed>>

Close(p, exit) ==
  /\ hosts' = [hosts EXCEPT ![p] = [@ EXCEPT !.phase = "closing", !.exit = exit, !.posted = FALSE]]
  /\ UNCHANGED <<endpoint, marker, ui, modeVars, loopVars, linkVars>>
(* From the tray, the exit key or a timer; a restart posted before but not  *)
(* handled is lost with the window.                                         *)
ExitHost(p) == Phase(p) = "serving" /\ Disturb /\ Close(p, "success")
FailHost(p) == Phase(p) \in {"published", "serving"} /\ Disturb /\ Close(p, "failure")
HandleRestart(p) ==
  /\ Phase(p) = "serving" /\ hosts[p].posted
  /\ Close(p, "restart")
  /\ UNCHANGED disturbed

(* The order of the ending: the marker, if the exit code is success, while  *)
(* the pipe is open.  Mutated form: the pipe is closed first.               *)
MutAfter(phase, exit) ==
  CASE phase = "closing" -> "stopped"
    [] phase = "stopped" -> IF exit = "success" THEN "marked" ELSE "unpublished"
    [] phase = "marked" -> "unpublished"
After(phase, exit) ==
  CASE phase = "closing" -> IF exit = "success" THEN "marked" ELSE "stopped"
    [] phase = "marked" -> "stopped"
    [] phase = "stopped" -> "unpublished"
ShutDown(p) ==
  /\ Phase(p) \in {"closing", "marked", "stopped"}
  /\ LET next == After(Phase(p), hosts[p].exit)
     IN /\ Enter(p, next)
        /\ marker' = (marker \/ next = "marked")
        /\ endpoint' = IF next = "unpublished" THEN NoFile ELSE Closed(endpoint, IF next = "stopped" THEN p ELSE "none")
        /\ IF next = "stopped" THEN ClosePipe(p) ELSE UNCHANGED <<target, linkVars>>
  /\ UNCHANGED <<ui, modeVars, asked, throttled, disturbed>>
(* The mutex is released and the process ends.                              *)
Release(p) ==
  /\ Phase(p) = "unpublished"
  /\ Die(p)
  /\ UNCHANGED <<endpoint, marker, ui, modeVars, loopVars, linkVars, disturbed>>
(* No destructor runs: the endpoint file stays.                             *)
Crash(p) ==
  /\ Phase(p) \notin {"none", "other"}
  /\ Disturb
  /\ Die(p) /\ endpoint' = Closed(endpoint, p) /\ ClosePipe(p)
  /\ UNCHANGED <<marker, ui, modeVars, asked, throttled>>

(* The identifier a file was left with is given to another program.         *)
OtherProgram(p) ==
  /\ Phase(p) = "none" /\ endpoint.pid = p
  /\ Disturb
  /\ Enter(p, "other")
  /\ UNCHANGED <<endpoint, marker, ui, modeVars, loopVars, linkVars>>
OtherProgramEnds(p) ==
  /\ Phase(p) = "other"
  /\ Disturb
  /\ Die(p)
  /\ UNCHANGED <<endpoint, marker, ui, modeVars, loopVars, linkVars>>

-----------------------------------------------------------------------------
(* The IPC thread: serve_client and IpcSession::handle_message.             *)

Disconnect == link' = "hostClosed"
ServeHello(p) ==
  /\ Head(pipe) = "Hello"
  /\ authenticated' = TRUE /\ greeted' = TRUE
  /\ UNCHANGED <<hosts, link>>
(* Before Hello it is answered with HandshakeRequired and the end of the    *)
(* connection.  Without a window restart_host throws after the answer is    *)
(* written, which ends the IPC thread: that Host is on its way out.         *)
ServeRestart(p) ==
  /\ Head(pipe) = "RestartHost"
  /\ hosts' = IF authenticated /\ Phase(p) = "serving" THEN [hosts EXCEPT ![p].posted = TRUE] ELSE hosts
  /\ Disconnect
  /\ UNCHANGED <<authenticated, greeted>>
ServeRequest(p) ==
  /\ link = "open" /\ target.pid = p /\ Phase(p) \in Listening
  /\ pipe # <<>> /\ pipe' = Tail(pipe)
  /\ ServeHello(p) \/ ServeRestart(p)
  /\ UNCHANGED <<endpoint, marker, ui, modeVars, loopVars, disturbed>>
(* The client has gone: ReadFile says so, or a request is read that was left *)
(* in the pipe and its answer cannot be written, which ends the session      *)
(* before a restart is posted.  The server listens again.                   *)
ClientGone ==
  /\ link = "uiClosed"
  /\ link' = "none" /\ pipe' = <<>>
  /\ UNCHANGED <<processVars, ui, modeVars, loopVars, authenticated, greeted, disturbed>>

-----------------------------------------------------------------------------
(* The connection loop.                                                     *)

(* HasGracefulShutdown, which the loop asks first and after every failure.  *)
CheckMarker ==
  /\ ui = "check"
  /\ ui' = IF marker THEN "down" ELSE "find"
  /\ UNCHANGED <<processVars, modeVars, loopVars, linkVars, disturbed>>

(* TryRead: a file that names a running process, whichever program it is.   *)
Readable == endpoint # NoFile /\ Phase(endpoint.pid) # "none"
FindHost ==
  /\ ui = "find" /\ Readable
  /\ target' = endpoint /\ throttled' = FALSE /\ ui' = "connecting"
  /\ UNCHANGED <<processVars, modeVars, asked, linkVars, disturbed>>
FindNone ==
  /\ ui = "find" /\ ~Readable
  /\ ui' = IF startsHost /\ ~throttled THEN "launching" ELSE "delay"
  /\ throttled' = (throttled \/ startsHost)
  /\ asked' = (Require /\ ui' = "launching")
  /\ UNCHANGED <<processVars, modeVars, target, linkVars, disturbed>>
(* Process.Start, after the prompt of the system if elevation is needed.    *)
Launch ==
  /\ ui = "launching"
  /\ \E p \in Pids :
       /\ Phase(p) = "none"
       /\ hosts' = [hosts EXCEPT ![p] = [NoProcess EXCEPT !.phase = "starting", !.elevated = asked]]
  /\ ui' = "delay" /\ asked' = FALSE
  /\ UNCHANGED <<endpoint, marker, modeVars, target, throttled, linkVars, disturbed>>
(* ERROR_CANCELLED.  If the mode is still on, the loop waits for it to be   *)
(* turned off; a mode turned off meanwhile is tried at once.                *)
RefuseElevation ==
  /\ ui = "launching" /\ asked /\ ~uiElevated
  /\ Disturb
  /\ ui' = IF mode THEN "refused" ELSE IF marker THEN "down" ELSE "delay"
  /\ asked' = FALSE
  /\ UNCHANGED <<processVars, modeVars, target, throttled, linkVars>>
SeeModeOff ==
  /\ ui = "refused" /\ ~mode
  /\ ui' = "check"
  /\ UNCHANGED <<processVars, modeVars, loopVars, linkVars, disturbed>>

(* The stream is set as soon as the pipe is open; a RestartHost of SetMode   *)
(* may be written before Hello is.                                          *)
PipeOpen == target.open /\ Phase(target.pid) \in Listening /\ link = "none"
Connect ==
  /\ ui = "connecting" /\ PipeOpen
  /\ ui' = "opened" /\ link' = "open" /\ pipe' = <<>>
  /\ authenticated' = FALSE /\ greeted' = FALSE
  /\ UNCHANGED <<processVars, modeVars, loopVars, disturbed>>
SendHello ==
  /\ ui = "opened" /\ link = "open"
  /\ ui' = "hello" /\ pipe' = Append(pipe, "Hello")
  /\ UNCHANGED <<processVars, modeVars, loopVars, link, authenticated, greeted, disturbed>>
ConnectTimesOut ==
  /\ ui = "connecting" /\ ~PipeOpen
  /\ ui' = IF marker THEN "down" ELSE "delay"
  /\ target' = NoFile
  /\ UNCHANGED <<processVars, modeVars, asked, throttled, linkVars, disturbed>>

(* The mode may have changed since the Host was looked for: it is read      *)
(* again.  Mutated form: it is not.                                         *)
MutModeFits == TRUE
ModeFits == target.elevated = Require
AfterHello ==
  /\ ui = "hello" /\ greeted
  /\ ui' = IF ModeFits THEN "connected" ELSE "restarting"
  /\ pipe' = IF ModeFits \/ link # "open" THEN pipe ELSE Append(pipe, "RestartHost")
  /\ UNCHANGED <<processVars, modeVars, loopVars, link, authenticated, greeted, disturbed>>
(* Hello, RestartHost or the receive loop ends with an IOException.         *)
LoseConnection ==
  /\ ui \in InStream /\ link = "hostClosed"
  /\ link' = "none" /\ pipe' = <<>> /\ target' = NoFile
  /\ authenticated' = FALSE /\ greeted' = FALSE
  /\ ui' = IF marker THEN "down" ELSE "delay"
  /\ UNCHANGED <<processVars, modeVars, asked, throttled, disturbed>>

Delay ==
  /\ ui = "delay"
  /\ ui' = "check"
  /\ UNCHANGED <<processVars, modeVars, loopVars, linkVars, disturbed>>
ThrottleEnds ==
  /\ throttled /\ ui # "down"
  /\ throttled' = FALSE
  /\ UNCHANGED <<processVars, ui, modeVars, asked, target, linkVars, disturbed>>

-----------------------------------------------------------------------------
(* Users.                                                                   *)

(* SetElevatedInputCompatibilityAsync, which restarts the Host itself if a  *)
(* stream is set.                                                           *)
SetMode ==
  /\ ui # "down"
  /\ Disturb
  /\ mode' = ~mode
  /\ pipe' = IF ui \in InStream /\ link = "open" /\ target.elevated # (mode' \/ uiElevated)
             THEN Append(pipe, "RestartHost") ELSE pipe
  /\ UNCHANGED <<processVars, ui, startsHost, uiElevated, loopVars, link, authenticated, greeted>>

(* App: started by the user it removes the marker, before the loop begins.  *)
StartUi ==
  /\ ui = "down"
  /\ Disturb
  /\ ui' = "check" /\ startsHost' = TRUE /\ marker' = FALSE /\ throttled' = FALSE
  /\ uiElevated' \in BOOLEAN
  /\ UNCHANGED <<hosts, endpoint, mode, asked, target, linkVars>>
(* launch_settings_ui, from the tray of a Host: --connect-existing.         *)
OpenSettings(p) ==
  /\ ui = "down" /\ Phase(p) = "serving"
  /\ Disturb
  /\ ui' = "check" /\ startsHost' = FALSE /\ throttled' = FALSE
  /\ uiElevated' = hosts[p].elevated
  /\ UNCHANGED <<processVars, mode, asked, target, linkVars>>
(* It is closed, or crashes: the Host goes on, and what was written stays in *)
(* the pipe while the Host has its end.                                     *)
EndUi ==
  /\ ui # "down"
  /\ Disturb
  /\ ui' = "down"
  /\ link' = CASE link = "open" -> "uiClosed" [] link = "hostClosed" -> "none" [] OTHER -> link
  /\ pipe' = IF link = "open" THEN pipe ELSE <<>>
  /\ UNCHANGED <<processVars, modeVars, loopVars, authenticated, greeted>>

HostStep(p) == Acquire(p) \/ Clear(p) \/ Publish(p) \/ Serve(p) \/ HandleRestart(p) \/ ShutDown(p) \/ Release(p)
LoopStep ==
  CheckMarker \/ FindHost \/ FindNone \/ Launch \/ SeeModeOff \/ Connect \/ ConnectTimesOut \/ SendHello
    \/ AfterHello \/ LoseConnection \/ Delay
Next ==
  \/ \E p \in Pids : HostStep(p) \/ ExitHost(p) \/ FailHost(p) \/ Crash(p) \/ ServeRequest(p)
                       \/ OtherProgram(p) \/ OtherProgramEnds(p) \/ OpenSettings(p)
  \/ LoopStep \/ ClientGone \/ RefuseElevation \/ ThrottleEnds \/ SetMode \/ StartUi \/ EndUi

(* Each process and thread runs on, the two seconds pass, a prompt of the   *)
(* system is answered (Launch is part of the loop).  Nothing else must      *)
(* happen.                                                                  *)
Fairness ==
  /\ \A p \in Pids : WF_vars(HostStep(p)) /\ WF_vars(ServeRequest(p))
  /\ WF_vars(LoopStep) /\ WF_vars(ClientGone) /\ WF_vars(ThrottleEnds)
Spec == Init /\ [][Next]_vars /\ Fairness

-----------------------------------------------------------------------------
(* Properties.                                                              *)

(* A Host that serves is the only one, and the endpoint file names it: no   *)
(* Host that is ending, or that found another running, takes the file away  *)
(* or overwrites it.                                                        *)
EndpointNamesServer ==
  \A p \in Pids : Phase(p) = "serving" =>
    /\ endpoint = [pid |-> p, elevated |-> hosts[p].elevated, open |-> TRUE]
    /\ \A q \in Pids : Phase(q) \in Listening => q = p

(* While a Host serves there is no marker, so that no user interface takes  *)
(* the exit of an earlier Host for the exit of this one.                    *)
MarkerMeansExited == marker => \A p \in Pids : Phase(p) # "serving"

(* A user interface connected to a Host that its user exits ends as well,   *)
(* and does not start another Host instead: the marker is there before the  *)
(* connection breaks and stays until the loop has seen it, unless a restart *)
(* was asked for as well, or a Host started before is only now beginning.   *)
ExitingUnder(p) ==
  /\ ui = "connected" /\ link = "open" /\ target.pid = p /\ target.elevated = Require /\ pipe = <<>>
  /\ Phase(p) = "closing" /\ hosts[p].exit = "success"
  /\ \A q \in Pids : Phase(q) # "starting"
ExitEndsUi ==
  \A p \in Pids :
    (ExitingUnder(p) /\ disturbed = MaxDisturbances) ~> (ui = "down")

(* Whatever was started, ended, crashed, refused or changed, the user       *)
(* interface comes to rest with a Host of the elevation last asked for, or  *)
(* because it was closed, or elevation was refused, or, opened from the     *)
(* tray, it may not start a Host, or the file left by a Host that crashed   *)
(* names the process of another program.                                    *)
WithRightHost == ui = "connected" /\ link = "open" /\ target.elevated = Require
MayNotStart == ~startsHost /\ Owners = {}
Mistaken == endpoint # NoFile /\ Phase(endpoint.pid) = "other"
Converges == <>[](ui \in {"down", "refused"} \/ WithRightHost \/ MayNotStart \/ Mistaken)

(* "In this mode the user interface has the Host exit with RestartHost and  *)
(* starts a new one with runas; when the mode is turned off the same        *)
(* controlled restart brings back the normal rights": a Host that restarts  *)
(* for a user interface that stays is followed by another.                  *)
RestartBringsHost ==
  \A p \in Pids :
    (hosts[p].posted /\ Phase(p) = "serving" /\ disturbed = MaxDisturbances)
      ~> (ui \in {"down", "refused"} \/ \E q \in Pids : Phase(q) = "serving" /\ ~hosts[q].posted)
=============================================================================
