--------------------------- MODULE MonitorProofs ---------------------------
(***************************************************************************)
(* Theorems about Monitor, for any number of sockets, any capacity of the  *)
(* pipes and any number of reports.                                        *)
(***************************************************************************)
EXTENDS Monitor, SequenceTheorems, TLAPS

\* What a send does to the pipes.
LEMMA EventSent ==
  ASSUME TypeOK, NEW s \in Sock, NEW event \in {"event", "stopped"}, MonitorEvent(s, event)
  PROVE  /\ pipe' \in [Sock -> Seq({"event", "stopped"})]
         /\ \A r \in Sock : r # s => pipe'[r] = pipe[r]
         /\ Len(pipe[s]) \in Nat /\ Len(pipe'[s]) = Len(pipe[s]) + 1
         /\ \A i \in 1 .. Len(pipe[s]) : pipe'[s][i] = pipe[s][i]
         /\ pipe'[s][Len(pipe[s]) + 1] = event
         /\ pipe'[s] # <<>>
<1>1. pipe[s] \in Seq({"event", "stopped"}) /\ pipe' = [pipe EXCEPT ![s] = Append(pipe[s], event)]
  BY DEF TypeOK, MonitorEvent
<1>2. /\ Append(pipe[s], event) \in Seq({"event", "stopped"})
      /\ Len(Append(pipe[s], event)) = Len(pipe[s]) + 1
      /\ \A i \in 1 .. Len(pipe[s]) : Append(pipe[s], event)[i] = pipe[s][i]
      /\ Append(pipe[s], event)[Len(pipe[s]) + 1] = event
  BY <1>1, AppendProperties
<1>3. Append(pipe[s], event) # <<>>
  BY <1>1, <1>2
<1>4. pipe'[s] = Append(pipe[s], event)
  BY <1>1 DEF TypeOK
<1>5. pipe' \in [Sock -> Seq({"event", "stopped"})]
  BY <1>1, <1>2 DEF TypeOK
<1> QED
  BY <1>1, <1>2, <1>3, <1>4, <1>5 DEF TypeOK

\* What a read does to the pipes.
LEMMA EventRead ==
  ASSUME TypeOK, NEW s \in Sock, ReadEvent(s)
  PROVE  /\ pipe' \in [Sock -> Seq({"event", "stopped"})]
         /\ \A r \in Sock : r # s => pipe'[r] = pipe[r]
         /\ Len(pipe'[s]) \in Nat /\ Len(pipe[s]) = Len(pipe'[s]) + 1
         /\ \A i \in 1 .. Len(pipe'[s]) : pipe'[s][i] = pipe[s][i + 1]
<1>1. /\ pipe[s] \in Seq({"event", "stopped"}) /\ pipe[s] # <<>>
      /\ pipe' = [pipe EXCEPT ![s] = Tail(pipe[s])]
  BY DEF TypeOK, ReadEvent
<1>2. /\ Tail(pipe[s]) \in Seq({"event", "stopped"})
      /\ Len(Tail(pipe[s])) = Len(pipe[s]) - 1
      /\ \A i \in 1 .. Len(Tail(pipe[s])) : Tail(pipe[s])[i] = pipe[s][i + 1]
  BY <1>1, HeadTailProperties
<1>3. Len(pipe[s]) \in Nat /\ Len(Tail(pipe[s])) \in Nat
  BY <1>1, <1>2
<1>4. pipe'[s] = Tail(pipe[s])
  BY <1>1 DEF TypeOK
<1>5. pipe' \in [Sock -> Seq({"event", "stopped"})]
  BY <1>1, <1>2 DEF TypeOK
<1> QED
  BY <1>1, <1>2, <1>3, <1>4, <1>5 DEF TypeOK

-----------------------------------------------------------------------------

\* Every step keeps the types.
LEMMA TypeStep ==
  ASSUME TypeOK, [Next]_vars
  PROVE  TypeOK'
<1> USE MonitorAssumption DEF TypeOK, mainVars, ioVars, monVars
<1>1. ASSUME NEW s \in Sock, Open(s) PROVE TypeOK'
  BY <1>1 DEF Open
<1>2. ASSUME NEW s \in Sock, StopMonitoring(s) PROVE TypeOK'
  BY <1>2 DEF StopMonitoring
<1>3. ASSUME NEW s \in Sock, Event(s) PROVE TypeOK'
  <2>1. reports[s] + 1 \in 0 .. MaxEvents
    BY <1>3 DEF Event
  <2> QED
    BY <1>3, <2>1 DEF Event
<1>4. ASSUME NEW s \in Sock, Connect(s) PROVE TypeOK'
  BY <1>4 DEF Connect
<1>5. ASSUME NEW s \in Sock, ReadEvent(s) PROVE TypeOK'
  <2>1. pipe' \in [Sock -> Seq({"event", "stopped"})]
    BY <1>5, EventRead
  <2> QED
    BY <1>5, <2>1 DEF ReadEvent
<1>6. CASE EventListening
  <2>1. at \in Sock /\ MonitorEvent(at, "event")
    BY <1>6 DEF EventListening, MonitorEvent
  <2>2. pipe' \in [Sock -> Seq({"event", "stopped"})]
    BY <2>1, EventSent
  <2> QED
    BY <1>6, <2>2 DEF EventListening
<1>7. CASE CloseMonitorSocket
  <2>1. at \in Sock /\ MonitorEvent(at, "stopped")
    BY <1>7 DEF CloseMonitorSocket, MonitorEvent
  <2>2. pipe' \in [Sock -> Seq({"event", "stopped"})]
    BY <2>1, EventSent
  <2> QED
    BY <1>7, <2>2 DEF CloseMonitorSocket
<1>8. CASE SendEvent
  <2>1. io \in Sock /\ MonitorEvent(io, "event")
    BY <1>8 DEF SendEvent, MonitorEvent
  <2>2. pipe' \in [Sock -> Seq({"event", "stopped"})]
    BY <2>1, EventSent
  <2> QED
    BY <1>8, <2>2 DEF SendEvent
<1>9. CASE Leave \/ SignalStop \/ Join
  BY <1>9 DEF Leave, SignalStop, Join
<1>10. CASE Poll
  <2>1. stopSeen' \in BOOLEAN
    BY <1>10, ZenonT(20) DEF Poll
  <2>2. revents' \subseteq Sock
    BY <1>10 DEF Poll
  <2> QED
    BY <1>10, <2>1, <2>2 DEF Poll
<1>11. CASE EndPass
  BY <1>11 DEF EndPass
<1>12. CASE Finished \/ UNCHANGED vars
  BY <1>12 DEF Finished, vars
<1> QED
  BY <1>1, <1>2, <1>3, <1>4, <1>5, <1>6, <1>7, <1>8, <1>9, <1>10, <1>11, <1>12 DEF Next

\* Every reachable state has the declared types.
THEOREM TypeCorrect == Spec => []TypeOK
<1>1. Init => TypeOK
  <2>1. 0 \in 0 .. MaxEvents /\ <<>> \in Seq({"event", "stopped"})
    BY MonitorAssumption
  <2> QED
    BY <2>1 DEF Init, TypeOK
<1>2. TypeOK /\ [Next]_vars => TypeOK'
  BY TypeStep
<1> QED
  BY <1>1, <1>2, PTL DEF Spec

-----------------------------------------------------------------------------

\* Every step keeps the senders apart, and their PAIRs open.
LEMMA AloneStep ==
  ASSUME TypeOK, SendsAlone, [Next]_vars
  PROVE  SendsAlone'
<1> USE MonitorAssumption DEF TypeOK, SendsAlone, mainVars, ioVars, monVars
<1>1. ASSUME NEW s \in Sock, Open(s) PROVE SendsAlone'
  BY <1>1 DEF Open
<1>2. ASSUME NEW s \in Sock, StopMonitoring(s) PROVE SendsAlone'
  BY <1>2 DEF StopMonitoring, Locked
<1>3. ASSUME NEW s \in Sock, Event(s) PROVE SendsAlone'
  BY <1>3 DEF Event, Locked
<1>4. ASSUME NEW s \in Sock, Connect(s) \/ ReadEvent(s) PROVE SendsAlone'
  BY <1>4 DEF Connect, ReadEvent
<1>5. CASE EventListening \/ SendEvent
  BY <1>5 DEF EventListening, SendEvent
<1>6. CASE CloseMonitorSocket
  BY <1>6 DEF CloseMonitorSocket
<1>7. CASE Leave \/ SignalStop \/ Join \/ Poll \/ EndPass
  BY <1>7 DEF Leave, SignalStop, Join, Poll, EndPass
<1>8. CASE Finished \/ UNCHANGED vars
  BY <1>8 DEF Finished, vars
<1> QED
  BY <1>1, <1>2, <1>3, <1>4, <1>5, <1>6, <1>7, <1>8 DEF Next

\* Nobody sends through a PAIR that is closed, or that somebody else sends through.
THEOREM AlwaysAlone == Spec => []SendsAlone
<1>1. Init => SendsAlone
  BY DEF Init, SendsAlone
<1>2. TypeOK /\ SendsAlone /\ [Next]_vars => SendsAlone'
  BY AloneStep
<1> QED
  BY <1>1, <1>2, TypeCorrect, PTL DEF Spec

-----------------------------------------------------------------------------

\* An event that is sent while the PAIR is open follows no MONITOR_STOPPED.
LEMMA EventFollowsNoStop ==
  ASSUME TypeOK, StoppedIsLast, NEW s \in Sock, mon[s] = "on", MonitorEvent(s, "event"),
         mon' = mon
  PROVE  StoppedIsLast'
<1>1. \A i \in 1 .. Len(pipe[s]) : pipe[s][i] # "stopped"
  BY DEF StoppedIsLast
<1>2. /\ \A r \in Sock : r # s => pipe'[r] = pipe[r]
      /\ Len(pipe[s]) \in Nat /\ Len(pipe'[s]) = Len(pipe[s]) + 1
      /\ \A i \in 1 .. Len(pipe[s]) : pipe'[s][i] = pipe[s][i]
      /\ pipe'[s][Len(pipe[s]) + 1] = "event"
  BY EventSent
<1>3. \A i \in 1 .. Len(pipe'[s]) : pipe'[s][i] # "stopped"
  BY <1>1, <1>2
<1> QED
  BY <1>2, <1>3 DEF StoppedIsLast

\* Every step leaves MONITOR_STOPPED the last event of its socket.
LEMMA StoppedStep ==
  ASSUME TypeOK, SendsAlone, StoppedIsLast, [Next]_vars
  PROVE  StoppedIsLast'
<1> USE MonitorAssumption DEF mainVars, ioVars, monVars
<1>1. ASSUME NEW s \in Sock, Open(s) PROVE StoppedIsLast'
  BY <1>1 DEF Open, StoppedIsLast, TypeOK
<1>2. ASSUME NEW s \in Sock, StopMonitoring(s) \/ Event(s) \/ Connect(s) PROVE StoppedIsLast'
  BY <1>2 DEF StopMonitoring, Event, Connect, StoppedIsLast
<1>3. ASSUME NEW s \in Sock, ReadEvent(s) PROVE StoppedIsLast'
  <2>1. /\ \A r \in Sock : r # s => pipe'[r] = pipe[r]
        /\ Len(pipe'[s]) \in Nat /\ Len(pipe[s]) = Len(pipe'[s]) + 1
        /\ \A i \in 1 .. Len(pipe'[s]) : pipe'[s][i] = pipe[s][i + 1]
    BY <1>3, EventRead
  <2>2. mon' = mon
    BY <1>3 DEF ReadEvent
  <2>3. ASSUME NEW i \in 1 .. Len(pipe'[s]), pipe'[s][i] = "stopped"
        PROVE  i = Len(pipe'[s]) /\ mon'[s] = "closed"
    <3>1. i + 1 \in 1 .. Len(pipe[s]) /\ pipe[s][i + 1] = "stopped"
      BY <2>1, <2>3
    <3>2. i + 1 = Len(pipe[s]) /\ mon[s] = "closed"
      BY <3>1 DEF StoppedIsLast
    <3> QED
      BY <2>1, <2>2, <3>2
  <2> QED
    BY <2>1, <2>2, <2>3 DEF StoppedIsLast
<1>4. CASE EventListening
  <2>1. at \in Sock /\ MonitorEvent(at, "event") /\ mon' = mon
    BY <1>4 DEF EventListening, MonitorEvent, TypeOK
  <2>2. mon[at] = "on"
    BY <2>1 DEF SendsAlone
  <2> QED
    BY <2>1, <2>2, EventFollowsNoStop
<1>5. CASE SendEvent
  <2>1. io \in Sock /\ MonitorEvent(io, "event") /\ mon' = mon
    BY <1>5 DEF SendEvent, MonitorEvent, TypeOK
  <2>2. mon[io] = "on"
    BY <2>1 DEF SendsAlone
  <2> QED
    BY <2>1, <2>2, EventFollowsNoStop
<1>6. CASE CloseMonitorSocket
  <2>1. at \in Sock /\ MonitorEvent(at, "stopped") /\ mon' = [mon EXCEPT ![at] = "closed"]
    BY <1>6 DEF CloseMonitorSocket, MonitorEvent, TypeOK
  <2>2. mon[at] = "on"
    BY <2>1 DEF SendsAlone
  <2>3. \A i \in 1 .. Len(pipe[at]) : pipe[at][i] # "stopped"
    BY <2>1, <2>2 DEF StoppedIsLast
  <2>4. /\ \A r \in Sock : r # at => pipe'[r] = pipe[r]
        /\ Len(pipe[at]) \in Nat /\ Len(pipe'[at]) = Len(pipe[at]) + 1
        /\ \A i \in 1 .. Len(pipe[at]) : pipe'[at][i] = pipe[at][i]
    BY <2>1, EventSent
  <2>5. \A i \in 1 .. Len(pipe'[at]) : pipe'[at][i] = "stopped" => i = Len(pipe'[at])
    BY <2>3, <2>4
  <2>6. mon'[at] = "closed" /\ \A r \in Sock : r # at => mon'[r] = mon[r]
    BY <2>1 DEF TypeOK
  <2> QED
    BY <2>4, <2>5, <2>6 DEF StoppedIsLast
<1>7. CASE Leave \/ SignalStop \/ Join \/ Poll \/ EndPass
  BY <1>7 DEF Leave, SignalStop, Join, Poll, EndPass, StoppedIsLast
<1>8. CASE Finished \/ UNCHANGED vars
  BY <1>8 DEF Finished, vars, StoppedIsLast
<1> QED
  BY <1>1, <1>2, <1>3, <1>4, <1>5, <1>6, <1>7, <1>8 DEF Next

\* Nothing follows a socket's MONITOR_STOPPED.
THEOREM NothingFollows == Spec => []StoppedIsLast
<1>1. Init => StoppedIsLast
  <2> SUFFICES ASSUME Init PROVE StoppedIsLast
    OBVIOUS
  <2>1. \A s \in Sock : pipe[s] = <<>>
    BY DEF Init
  <2>2. Len(<<>>) = 0
    OBVIOUS
  <2> QED
    BY <2>1, <2>2 DEF StoppedIsLast
<1>2. TypeOK /\ SendsAlone /\ StoppedIsLast /\ [Next]_vars => StoppedIsLast'
  BY StoppedStep
<1> QED
  BY <1>1, <1>2, TypeCorrect, AlwaysAlone, PTL DEF Spec

-----------------------------------------------------------------------------

\* Every step of others adds to the pipes only, and a read takes its socket from
\* what is left to look at.
LEMMA ReadsStep ==
  ASSUME TypeOK, ReadsWhatIsThere, [Next]_vars
  PROVE  ReadsWhatIsThere'
<1> USE MonitorAssumption DEF mainVars, ioVars, monVars
<1>1. ASSUME NEW s \in Sock, NEW event \in {"event", "stopped"}, MonitorEvent(s, event),
             UNCHANGED monVars
      PROVE  ReadsWhatIsThere'
  <2>1. pipe'[s] # <<>> /\ \A r \in Sock : r # s => pipe'[r] = pipe[r]
    BY <1>1, EventSent
  <2> QED
    BY <1>1, <2>1 DEF ReadsWhatIsThere, TypeOK
<1>2. ASSUME NEW s \in Sock, Open(s) \/ StopMonitoring(s) \/ Event(s) PROVE ReadsWhatIsThere'
  BY <1>2 DEF Open, StopMonitoring, Event, ReadsWhatIsThere
<1>3. ASSUME NEW s \in Sock, Connect(s) PROVE ReadsWhatIsThere'
  BY <1>3 DEF Connect, ReadsWhatIsThere
<1>4. ASSUME NEW s \in Sock, ReadEvent(s) PROVE ReadsWhatIsThere'
  <2>1. \A r \in Sock : r # s => pipe'[r] = pipe[r]
    BY <1>4, EventRead
  <2> QED
    BY <1>4, <2>1 DEF ReadEvent, ReadsWhatIsThere, TypeOK
<1>5. CASE EventListening
  BY <1>1, <1>5 DEF EventListening, MonitorEvent, TypeOK
<1>6. CASE SendEvent
  BY <1>1, <1>6 DEF SendEvent, MonitorEvent, TypeOK
<1>7. CASE CloseMonitorSocket
  BY <1>1, <1>7 DEF CloseMonitorSocket, MonitorEvent, TypeOK
<1>8. CASE Poll
  <2>1. revents' = {s \in Sock : pipe[s] # <<>>} /\ pipe' = pipe
    BY <1>8 DEF Poll
  <2> QED
    BY <2>1 DEF ReadsWhatIsThere
<1>9. CASE EndPass
  BY <1>9 DEF EndPass, ReadsWhatIsThere
<1>10. CASE Leave \/ SignalStop \/ Join
  BY <1>10 DEF Leave, SignalStop, Join, ReadsWhatIsThere
<1>11. CASE Finished \/ UNCHANGED vars
  BY <1>11 DEF Finished, vars, ReadsWhatIsThere
<1> QED
  BY <1>2, <1>3, <1>4, <1>5, <1>6, <1>7, <1>8, <1>9, <1>10, <1>11 DEF Next

\* The monitor thread never waits in the middle of a pass.
THEOREM NeverWaitsInPass == Spec => []ReadsWhatIsThere
<1>1. Init => ReadsWhatIsThere
  BY DEF Init, ReadsWhatIsThere
<1>2. TypeOK /\ ReadsWhatIsThere /\ [Next]_vars => ReadsWhatIsThere'
  BY ReadsStep
<1> QED
  BY <1>1, <1>2, TypeCorrect, PTL DEF Spec
=============================================================================
