------------------------ MODULE ProcessLifecycleProofs ------------------------
(***************************************************************************)
(* Proofs about ProcessLifecycle for every set of process identifiers and   *)
(* any number of disturbances.  ProcessInv is inductive: one process holds  *)
(* the mutex, and from the moment it has published until it closes its pipe *)
(* the endpoint file is its own, whatever the others and the user interface *)
(* do.                                                                      *)
(***************************************************************************)
EXTENDS ProcessLifecycle, TLAPS

Phases == {"none", "other", "starting"} \cup Holding
Processes == [phase : Phases, elevated : BOOLEAN, exit : {"success", "failure", "restart"}, posted : BOOLEAN]
Publishing == {"published", "serving", "closing", "marked"}
Unmarking == {"cleared", "published", "serving"}
Record(p) == [pid |-> p, elevated |-> hosts[p].elevated, open |-> TRUE]

HostsTypeOK == hosts \in [Pids -> Processes] /\ uiElevated \in BOOLEAN /\ asked \in BOOLEAN /\ mode \in BOOLEAN
OneOwner == \A p, q \in Pids : Phase(p) \in Holding /\ Phase(q) \in Holding => p = q
Named(p) == Phase(p) \in Publishing => endpoint = Record(p)
Unmarked(p) == Phase(p) \in Unmarking => ~marker
ProcessInv == HostsTypeOK /\ OneOwner /\ \A p \in Pids : Named(p) /\ Unmarked(p)

LEMMA InvSuffices == ProcessInv => EndpointNamesServer /\ MarkerMeansExited
<1> SUFFICES ASSUME ProcessInv PROVE EndpointNamesServer /\ MarkerMeansExited
  OBVIOUS
<1>1. EndpointNamesServer
  BY DEF EndpointNamesServer, ProcessInv, OneOwner, Named, Record, Publishing, Listening, Holding
<1>2. MarkerMeansExited
  BY DEF MarkerMeansExited, ProcessInv, Unmarked, Unmarking
<1> QED BY <1>1, <1>2

LEMMA InitProcess == Init => ProcessInv
<1> SUFFICES ASSUME Init PROVE ProcessInv
  OBVIOUS
<1> USE DEF Init
<1>1. NoProcess \in Processes /\ NoProcess.phase = "none"
  BY DEF NoProcess, Processes, Phases
<1>2. CASE hosts = [p \in Pids |-> NoProcess] /\ uiElevated \in BOOLEAN
  <2>1. \A p \in Pids : Phase(p) = "none"
    BY <1>1, <1>2 DEF Phase
  <2>2. HostsTypeOK
    BY <1>1, <1>2 DEF HostsTypeOK
  <2> QED BY <2>1, <2>2 DEF ProcessInv, OneOwner, Named, Unmarked, Holding, Publishing, Unmarking
<1>3. ASSUME NEW p \in Pids, NEW elevated \in BOOLEAN,
             hosts = [q \in Pids |-> IF q = p THEN [NoProcess EXCEPT !.phase = "serving", !.elevated = elevated]
                                     ELSE NoProcess],
             endpoint = [pid |-> p, elevated |-> elevated, open |-> TRUE], uiElevated = elevated
      PROVE  ProcessInv
  <2>1. /\ hosts[p] = [NoProcess EXCEPT !.phase = "serving", !.elevated = elevated]
        /\ \A q \in Pids : q # p => hosts[q] = NoProcess
    BY <1>3
  <2>2. hosts[p] \in Processes /\ hosts[p].phase = "serving" /\ hosts[p].elevated = elevated
    BY <2>1 DEF NoProcess, Processes, Phases, Holding
  <2>3. \A q \in Pids : hosts[q] \in Processes
    BY <1>1, <2>1, <2>2
  <2>4. HostsTypeOK
    BY <1>3, <2>3 DEF HostsTypeOK
  <2>5. OneOwner
    BY <1>1, <2>1 DEF OneOwner, Phase, Holding
  <2>6. \A q \in Pids : Named(q) /\ Unmarked(q)
    BY <1>1, <1>3, <2>1, <2>2 DEF Named, Unmarked, Phase, Publishing, Record
  <2> QED BY <2>4, <2>5, <2>6 DEF ProcessInv
<1> QED BY <1>2, <1>3 DEF InitHosts

-----------------------------------------------------------------------------
(* Steps of one process.                                                    *)

EnteredAs(p, phase) ==
  /\ hosts' \in [Pids -> Processes]
  /\ hosts'[p].phase = phase /\ hosts'[p].elevated = hosts[p].elevated
  /\ \A q \in Pids : q # p => hosts'[q] = hosts[q]

LEMMA EnterStep ==
  ASSUME ProcessInv, NEW p \in Pids, NEW phase \in Phases, Enter(p, phase)
  PROVE  EnteredAs(p, phase)
  BY DEF ProcessInv, HostsTypeOK, Enter, EnteredAs, Processes

LEMMA CloseStep ==
  ASSUME ProcessInv, NEW p \in Pids, NEW exit \in {"success", "failure", "restart"}, Close(p, exit)
  PROVE  EnteredAs(p, "closing") /\ UNCHANGED <<endpoint, marker, uiElevated, asked, mode>>
  BY DEF ProcessInv, HostsTypeOK, Close, EnteredAs, Processes, Phases, Holding, modeVars, loopVars

LEMMA DieStep ==
  ASSUME ProcessInv, NEW p \in Pids, Die(p)
  PROVE  hosts' \in [Pids -> Processes] /\ hosts'[p].phase = "none" /\ \A q \in Pids : q # p => hosts'[q] = hosts[q]
<1>1. NoProcess \in Processes /\ NoProcess.phase = "none"
  BY DEF NoProcess, Processes, Phases
<1> QED BY <1>1 DEF ProcessInv, HostsTypeOK, Die

(* The owner of the mutex goes on: nobody else holds anything.              *)
LEMMA OwnerStep ==
  ASSUME ProcessInv, NEW p \in Pids, Phase(p) \in Holding, HostsTypeOK',
         \A q \in Pids : q # p => hosts'[q] = hosts[q], Named(p)', Unmarked(p)'
  PROVE  ProcessInv'
<1>1. \A q \in Pids : q # p => Phase(q)' \notin Holding
  BY DEF ProcessInv, OneOwner, Phase
<1>2. OneOwner'
  BY <1>1 DEF OneOwner
<1>3. \A q \in Pids : Named(q)' /\ Unmarked(q)'
  BY <1>1 DEF Named, Unmarked, Publishing, Unmarking, Holding
<1> QED BY <1>2, <1>3 DEF ProcessInv

(* A process that holds nothing before and after.                           *)
LEMMA OutsiderStep ==
  ASSUME ProcessInv, NEW p \in Pids, Phase(p)' \notin Holding, HostsTypeOK',
         \A q \in Pids : q # p => hosts'[q] = hosts[q],
         endpoint' = endpoint \/ endpoint' = Closed(endpoint, p), marker' = marker
  PROVE  ProcessInv'
<1>1. OneOwner'
  BY DEF ProcessInv, OneOwner, Phase
<1>2. Named(p)' /\ Unmarked(p)'
  BY DEF Named, Unmarked, Publishing, Unmarking, Holding
<1>3. ASSUME NEW q \in Pids, q # p PROVE Named(q)' /\ Unmarked(q)'
  <2>1. endpoint = Record(q) => endpoint' = endpoint
    BY <1>3 DEF Record, Closed
  <2>2. hosts'[q] = hosts[q] /\ Named(q) /\ Unmarked(q)
    BY <1>3 DEF ProcessInv
  <2> QED BY <2>1, <2>2 DEF Named, Unmarked, Record, Phase
<1> QED BY <1>1, <1>2, <1>3 DEF ProcessInv

-----------------------------------------------------------------------------
(* The actions of a Host.                                                   *)

LEMMA AcquirePreserves == ASSUME ProcessInv, NEW p \in Pids, Acquire(p) PROVE ProcessInv'
<1>1. UNCHANGED <<endpoint, marker, uiElevated, asked, mode>>
  BY DEF Acquire, modeVars, loopVars
<1>2. CASE Owners = {} /\ Enter(p, "owner")
  <2>1. EnteredAs(p, "owner")
    BY <1>2, EnterStep DEF Phases, Holding
  <2>2. \A q \in Pids : Phase(q) \notin Holding
    BY <1>2 DEF Owners
  <2>3. HostsTypeOK' /\ Phase(p)' = "owner" /\ \A q \in Pids : q # p => Phase(q)' \notin Holding
    BY <1>1, <2>1, <2>2 DEF EnteredAs, HostsTypeOK, ProcessInv, Phase
  <2>4. OneOwner'
    BY <2>3 DEF OneOwner
  <2>5. \A q \in Pids : Phase(q)' \notin Publishing /\ Phase(q)' \notin Unmarking
    BY <2>3 DEF Publishing, Unmarking, Holding
  <2> QED BY <2>3, <2>4, <2>5 DEF ProcessInv, Named, Unmarked
<1>3. CASE Die(p)
  <2>1. HostsTypeOK' /\ Phase(p)' \notin Holding
    BY <1>1, <1>3, DieStep DEF HostsTypeOK, ProcessInv, Phase, Holding
  <2> QED BY <1>1, <1>3, <2>1, DieStep, OutsiderStep
<1> QED BY <1>2, <1>3 DEF Acquire

(* A Host that comes up.                                                    *)
LEMMA StartingPreserves ==
  ASSUME ProcessInv, NEW p \in Pids, Clear(p) \/ Publish(p) \/ Serve(p) PROVE ProcessInv'
<1>1. UNCHANGED <<uiElevated, asked, mode>>
  BY DEF Clear, Publish, Serve, modeVars, loopVars
<1>2. CASE Clear(p)
  <2>1. EnteredAs(p, "cleared") /\ Phase(p) \in Holding /\ ~marker'
    BY <1>2, EnterStep DEF Clear, Phases, Holding
  <2>2. HostsTypeOK' /\ Named(p)' /\ Unmarked(p)'
    BY <1>1, <2>1 DEF EnteredAs, HostsTypeOK, ProcessInv, Phase, Named, Unmarked, Publishing
  <2> QED BY <2>1, <2>2, OwnerStep DEF EnteredAs
<1>3. CASE Publish(p)
  <2>1. EnteredAs(p, "published") /\ Phase(p) \in Holding /\ ~marker /\ marker' = marker
    BY <1>3, EnterStep DEF Publish, Phases, Holding, ProcessInv, Unmarked, Unmarking
  <2>2. HostsTypeOK' /\ Named(p)' /\ Unmarked(p)'
    BY <1>1, <1>3, <2>1 DEF Publish, EnteredAs, HostsTypeOK, ProcessInv, Phase, Named, Unmarked, Record
  <2> QED BY <2>1, <2>2, OwnerStep DEF EnteredAs
<1>4. CASE Serve(p)
  <2>1. /\ EnteredAs(p, "serving") /\ Phase(p) \in Holding
        /\ ~marker /\ endpoint = Record(p) /\ UNCHANGED <<marker, endpoint>>
    BY <1>4, EnterStep DEF Serve, Phases, Holding, ProcessInv, Named, Unmarked, Unmarking, Publishing
  <2>2. HostsTypeOK' /\ Named(p)' /\ Unmarked(p)'
    BY <1>1, <2>1 DEF EnteredAs, HostsTypeOK, ProcessInv, Phase, Named, Unmarked, Record
  <2> QED BY <2>1, <2>2, OwnerStep DEF EnteredAs
<1> QED BY <1>2, <1>3, <1>4

(* A Host that begins to end.                                               *)
LEMMA ClosingPreserves ==
  ASSUME ProcessInv, NEW p \in Pids, ExitHost(p) \/ FailHost(p) \/ HandleRestart(p) PROVE ProcessInv'
<1>1. PICK exit \in {"success", "failure", "restart"} : Close(p, exit)
  BY DEF ExitHost, FailHost, HandleRestart
<1>2. Phase(p) \in {"published", "serving"}
  BY DEF ExitHost, FailHost, HandleRestart
<1>3. EnteredAs(p, "closing") /\ UNCHANGED <<endpoint, marker, uiElevated, asked, mode>>
  BY <1>1, CloseStep
<1>4. endpoint = Record(p) /\ Phase(p) \in Holding
  BY <1>2 DEF ProcessInv, Named, Publishing, Holding
<1>5. HostsTypeOK' /\ Named(p)' /\ Unmarked(p)'
  BY <1>3, <1>4 DEF EnteredAs, HostsTypeOK, ProcessInv, Phase, Named, Unmarked, Record, Unmarking
<1> QED BY <1>3, <1>4, <1>5, OwnerStep DEF EnteredAs

(* Marker, pipe, endpoint file.                                             *)
LEMMA ShutDownPreserves == ASSUME ProcessInv, NEW p \in Pids, ShutDown(p) PROVE ProcessInv'
<1> DEFINE next == After(Phase(p), hosts[p].exit)
<1>1. /\ Phase(p) \in {"closing", "marked", "stopped"} /\ Enter(p, next)
      /\ endpoint' = IF next = "unpublished" THEN NoFile ELSE Closed(endpoint, IF next = "stopped" THEN p ELSE "none")
      /\ UNCHANGED <<uiElevated, asked, mode>>
  BY DEF ShutDown, modeVars
<1>2. next \in {"marked", "stopped", "unpublished"} /\ (next = "marked" => Phase(p) = "closing")
  BY <1>1 DEF After
<1>3. EnteredAs(p, next) /\ Phase(p) \in Holding
  BY <1>1, <1>2, EnterStep DEF Phases, Holding
<1>4. next = "marked" => endpoint' = Record(p)
  <2> SUFFICES ASSUME next = "marked" PROVE endpoint' = Record(p)
    OBVIOUS
  <2>1. endpoint = Record(p)
    BY <1>2 DEF ProcessInv, Named, Publishing
  <2>2. endpoint.pid # "none"
    BY <2>1, LifecycleAssumption DEF Record
  <2>3. endpoint' = Closed(endpoint, "none")
    BY <1>1
  <2> QED BY <2>1, <2>2, <2>3 DEF Closed
<1>5. HostsTypeOK'
  BY <1>1, <1>3 DEF EnteredAs, HostsTypeOK, ProcessInv
<1>6. Phase(p)' = next
  BY <1>3 DEF EnteredAs, Phase
<1>7. Named(p)'
  BY <1>2, <1>3, <1>4, <1>6 DEF Named, Record, EnteredAs, Publishing
<1>8. Unmarked(p)'
  BY <1>2, <1>6 DEF Unmarked, Unmarking
<1> HIDE DEF next
<1> QED BY <1>3, <1>5, <1>7, <1>8, OwnerStep DEF EnteredAs

(* A Host that ends, with or without its destructors, and programs that are *)
(* no Hosts.                                                                *)
LEMMA EndPreserves ==
  ASSUME ProcessInv, NEW p \in Pids, Release(p) \/ Crash(p) \/ OtherProgramEnds(p) PROVE ProcessInv'
<1>1. /\ Die(p) /\ UNCHANGED <<marker, uiElevated, asked, mode>>
      /\ endpoint' = endpoint \/ endpoint' = Closed(endpoint, p)
  BY DEF Release, Crash, OtherProgramEnds, modeVars, loopVars
<1>2. HostsTypeOK' /\ Phase(p)' \notin Holding
  BY <1>1, DieStep DEF HostsTypeOK, ProcessInv, Phase, Holding
<1> QED BY <1>1, <1>2, DieStep, OutsiderStep

LEMMA OtherPreserves == ASSUME ProcessInv, NEW p \in Pids, OtherProgram(p) PROVE ProcessInv'
<1>1. EnteredAs(p, "other") /\ UNCHANGED <<endpoint, marker, uiElevated, asked, mode>>
  BY EnterStep DEF OtherProgram, Phases, modeVars, loopVars
<1>2. HostsTypeOK' /\ Phase(p)' \notin Holding
  BY <1>1 DEF EnteredAs, HostsTypeOK, ProcessInv, Phase, Holding
<1> QED BY <1>1, <1>2, OutsiderStep DEF EnteredAs

LEMMA LaunchPreserves == ProcessInv /\ Launch => ProcessInv'
<1> SUFFICES ASSUME ProcessInv, Launch PROVE ProcessInv'
  OBVIOUS
<1>1. PICK p \in Pids :
        /\ Phase(p) = "none"
        /\ hosts' = [hosts EXCEPT ![p] = [NoProcess EXCEPT !.phase = "starting", !.elevated = asked]]
  BY DEF Launch
<1>2. [NoProcess EXCEPT !.phase = "starting", !.elevated = asked] \in Processes
  BY DEF ProcessInv, HostsTypeOK, NoProcess, Processes, Phases
<1>3. hosts' \in [Pids -> Processes] /\ \A q \in Pids : q # p => hosts'[q] = hosts[q]
  BY <1>1, <1>2 DEF ProcessInv, HostsTypeOK
<1>4. hosts'[p] = [NoProcess EXCEPT !.phase = "starting", !.elevated = asked]
  BY <1>1 DEF ProcessInv, HostsTypeOK
<1>5. Phase(p)' \notin Holding
  BY <1>4 DEF NoProcess, Phase, Holding
<1>6. HostsTypeOK' /\ endpoint' = endpoint /\ marker' = marker
  BY <1>3 DEF Launch, modeVars, ProcessInv, HostsTypeOK
<1> QED BY <1>3, <1>5, <1>6, OutsiderStep

(* A request over the pipe.                                                 *)
LEMMA ServePreserves == ASSUME ProcessInv, NEW p \in Pids, ServeRequest(p) PROVE ProcessInv'
<1>1. Phase(p) \in Holding /\ UNCHANGED <<endpoint, marker, uiElevated, asked, mode>>
  BY DEF ServeRequest, Listening, Holding, modeVars, loopVars
<1>2. hosts' = hosts \/ hosts' = [hosts EXCEPT ![p].posted = TRUE]
  BY DEF ServeRequest, ServeHello, ServeRestart
<1>3. EnteredAs(p, Phase(p))
  BY <1>2 DEF EnteredAs, ProcessInv, HostsTypeOK, Processes, Phase
<1>4. HostsTypeOK' /\ Named(p)' /\ Unmarked(p)'
  BY <1>1, <1>3 DEF EnteredAs, HostsTypeOK, ProcessInv, Phase, Named, Unmarked, Record
<1> QED BY <1>1, <1>3, <1>4, OwnerStep DEF EnteredAs

(* Steps that leave the processes and the endpoint file alone, and at most  *)
(* remove the marker.                                                       *)
LEMMA QuietProcess ==
  ASSUME ProcessInv, UNCHANGED <<hosts, endpoint>>, marker' => marker, HostsTypeOK'
  PROVE  ProcessInv'
  BY DEF ProcessInv, OneOwner, Named, Unmarked, Phase, Record

LEMMA LoopPreserves ==
  ASSUME ProcessInv,
         \/ CheckMarker \/ FindHost \/ FindNone \/ SeeModeOff \/ Connect \/ SendHello \/ ConnectTimesOut \/ AfterHello
         \/ LoseConnection \/ Delay \/ ClientGone \/ RefuseElevation \/ ThrottleEnds
  PROVE  ProcessInv'
<1>1. UNCHANGED <<hosts, endpoint, marker, uiElevated, mode>>
  BY DEF CheckMarker, FindHost, FindNone, SeeModeOff, Connect, SendHello, ConnectTimesOut, AfterHello, LoseConnection, Delay,
     ClientGone, RefuseElevation, ThrottleEnds, processVars, modeVars
<1>2. asked' \in BOOLEAN
  BY DEF CheckMarker, FindHost, FindNone, SeeModeOff, Connect, SendHello, ConnectTimesOut, AfterHello, LoseConnection, Delay,
     ClientGone, RefuseElevation, ThrottleEnds, loopVars, Require, ProcessInv, HostsTypeOK
<1>3. HostsTypeOK'
  BY <1>1, <1>2 DEF ProcessInv, HostsTypeOK
<1> QED BY <1>1, <1>3, QuietProcess

LEMMA UserPreserves ==
  ASSUME ProcessInv, SetMode \/ StartUi \/ EndUi \/ \E p \in Pids : OpenSettings(p)
  PROVE  ProcessInv'
<1>1. UNCHANGED <<hosts, endpoint>> /\ (marker' = marker \/ marker' = FALSE) /\ asked' = asked
  BY DEF SetMode, StartUi, EndUi, OpenSettings, processVars, loopVars
<1>2. mode' = mode \/ mode' = ~mode
  BY DEF SetMode, StartUi, EndUi, OpenSettings, modeVars
<1>3. uiElevated' \in BOOLEAN
  <2>1. \A p \in Pids : hosts[p].elevated \in BOOLEAN
    BY DEF ProcessInv, HostsTypeOK, Processes
  <2> QED BY <2>1 DEF SetMode, StartUi, EndUi, OpenSettings, modeVars, ProcessInv, HostsTypeOK
<1>4. HostsTypeOK'
  BY <1>1, <1>2, <1>3 DEF ProcessInv, HostsTypeOK
<1> QED BY <1>1, <1>4, QuietProcess

LEMMA NextPreservesProcess == ProcessInv /\ [Next]_vars => ProcessInv'
<1> SUFFICES ASSUME ProcessInv, [Next]_vars PROVE ProcessInv'
  OBVIOUS
<1>1. CASE UNCHANGED vars
  <2>1. HostsTypeOK' /\ UNCHANGED <<hosts, endpoint, marker>>
    BY <1>1 DEF vars, processVars, modeVars, loopVars, ProcessInv, HostsTypeOK
  <2> QED BY <2>1, QuietProcess
<1>2. ASSUME NEW p \in Pids,
             HostStep(p) \/ ExitHost(p) \/ FailHost(p) \/ Crash(p) \/ ServeRequest(p)
               \/ OtherProgram(p) \/ OtherProgramEnds(p) \/ OpenSettings(p)
      PROVE  ProcessInv'
  BY <1>2, AcquirePreserves, StartingPreserves, ClosingPreserves, ShutDownPreserves, EndPreserves, OtherPreserves,
     ServePreserves, UserPreserves DEF HostStep
<1>3. CASE LoopStep \/ ClientGone \/ RefuseElevation \/ ThrottleEnds \/ SetMode \/ StartUi \/ EndUi
  BY <1>3, LoopPreserves, LaunchPreserves, UserPreserves DEF LoopStep
<1> QED BY <1>1, <1>2, <1>3 DEF Next

THEOREM ProcessInvariant == Spec => []ProcessInv
  BY InitProcess, NextPreservesProcess, PTL DEF Spec

(* Of any number of Hosts started in any order, ended, restarted or crashed *)
(* at any step, one serves, and the endpoint file names it: the order of    *)
(* SingleInstanceGuard and IpcEndpointRegistration.                         *)
THEOREM EndpointOfServer == Spec => []EndpointNamesServer
  BY ProcessInvariant, InvSuffices, PTL

(* No marker of an exit is there while a Host serves.                       *)
THEOREM MarkerOfExit == Spec => []MarkerMeansExited
  BY ProcessInvariant, InvSuffices, PTL
=============================================================================
