-------------------------- MODULE SignalingProofs --------------------------
(***************************************************************************)
(* Proofs about Signaling, for any number of threads and messages, any     *)
(* capacity of a pipe, and any timing of main()'s sleep: PUSH/PULL first,  *)
(* then what CLIENT and PUB sockets do to the order of the pings.          *)
(***************************************************************************)
EXTENDS Signaling, SequenceTheorems, TLAPS

-----------------------------------------------------------------------------
(***************************************************************************)
(* Type correctness.                                                       *)
(***************************************************************************)

\* What a send does to the pipes, whatever the kind of socket.
LEMMA SendTyped ==
  ASSUME pipe \in [Socket -> Seq(Msg)], NEW s \in Socket, NEW m \in Msg, SendCommand(s, m)
  PROVE  pipe' \in [Socket -> Seq(Msg)]
<1>1. Append(pipe[s], m) \in Seq(Msg)
  BY AppendProperties
<1> QED
  BY <1>1 DEF SendCommand, SendOrDrop, SendOrBlock

\* A message that is received comes from the head of a pipe.
LEMMA ReceivedTyped ==
  ASSUME pipe \in [Socket -> Seq(Msg)], NEW s \in Socket, NEW command, Received(s, command)
  PROVE  /\ Head(pipe[s]) \in Msg /\ Head(pipe[s]).command = command
         /\ pipe' \in [Socket -> Seq(Msg)]
<1>1. Head(pipe[s]) \in Msg /\ Tail(pipe[s]) \in Seq(Msg)
  BY HeadTailProperties DEF Received
<1> QED
  BY <1>1 DEF Received

\* Every step keeps the variables in their sets.
LEMMA TypeStep == TypeOK /\ [Next]_vars => TypeOK'
<1> SUFFICES ASSUME TypeOK, [Next]_vars PROVE TypeOK'
  OBVIOUS
<1> USE DEF TypeOK
<1>1. ASSUME NEW t \in Thread, NextPing(t) PROVE TypeOK'
  <2>1. /\ sent' \in [Thread -> Nat]
        /\ threadPc' \in [Thread -> {"head", "send", "done"}]
    BY <1>1 DEF NextPing
  <2> QED
    BY <1>1, <2>1 DEF NextPing
<1>2. ASSUME NEW t \in Thread, SendPing(t) PROVE TypeOK'
  <2>1. SocketOf(t) \in Socket /\ Ping(t, sent[t]) \in Msg
    BY DEF SocketOf, Socket, Ping, Msg
  <2>2. pipe' \in [Socket -> Seq(Msg)]
    BY <1>2, <2>1, SendTyped DEF SendPing
  <2> QED
    BY <1>2, <2>2 DEF SendPing
<1>3. CASE Bind
  BY <1>3 DEF Bind
<1>4. ASSUME NEW s \in Socket, Subscribe(s) PROVE TypeOK'
  BY <1>4 DEF Subscribe
<1>5. ASSUME NEW s \in Socket, ReceivePing(s) PROVE TypeOK'
  <2>1. Head(pipe[s]) \in Msg /\ Head(pipe[s]).command = "P" /\ pipe' \in [Socket -> Seq(Msg)]
    BY <1>5, ReceivedTyped DEF ReceivePing
  <2>2. Head(pipe[s]).voidArg \in Thread /\ Head(pipe[s]).longArg \in Nat
    BY <2>1 DEF Msg, Exit
  <2> QED
    BY <1>5, <2>1, <2>2 DEF ReceivePing
<1>6. ASSUME NEW s \in Socket, ReceiveExit(s) PROVE TypeOK'
  BY <1>6, ReceivedTyped DEF ReceiveExit
<1>7. CASE JoinThreads
  BY <1>7 DEF JoinThreads
<1>8. CASE Wake
  BY <1>8 DEF Wake
<1>9. CASE SendExit
  <2>1. pipe' \in [Socket -> Seq(Msg)]
    BY <1>9, SendTyped DEF SendExit, Socket, Exit, Msg
  <2> QED
    BY <1>9, <2>1 DEF SendExit
<1>10. CASE CheckResults
  BY <1>10 DEF CheckResults
<1>11. CASE Finished \/ UNCHANGED vars
  BY <1>11 DEF Finished, vars
<1> QED
  BY <1>1, <1>2, <1>3, <1>4, <1>5, <1>6, <1>7, <1>8, <1>9, <1>10, <1>11 DEF Next

\* Type correctness of every reachable state.
THEOREM TypeCorrect == Spec => []TypeOK
<1>1. Init => TypeOK
  <2> SUFFICES ASSUME Init PROVE TypeOK
    OBVIOUS
  <2>1. pipe \in [Socket -> Seq(Msg)]
    BY EmptySeq DEF Init
  <2>2. keepGoing \in BOOLEAN /\ failed \in BOOLEAN
    BY DEF Init
  <2>3. /\ threadPc \in [Thread -> {"head", "send", "done"}]
        /\ sent \in [Thread -> Nat] /\ received \in [Thread -> Nat]
    BY DEF Init
  <2> QED
    BY <2>1, <2>2, <2>3 DEF Init, TypeOK
<1> QED
  BY <1>1, TypeStep, PTL DEF Spec

-----------------------------------------------------------------------------
(***************************************************************************)
(* The flag and the maps are never shared by two running threads.          *)
(***************************************************************************)

\* The exit command is on its way, or has arrived, only after main() has joined
\* the control threads.
ExitLast ==
  /\ mainPc # "join" => \A t \in Thread : threadPc[t] = "done"
  /\ mainPc \in {"join", "sleep", "exit"} =>
       keepGoing /\ \A s \in Socket : \A i \in 1 .. Len(pipe[s]) : pipe[s][i].command = "P"

\* Sending adds one message at the end of a pipe, if anything.
LEMMA SendAdds ==
  ASSUME pipe \in [Socket -> Seq(Msg)], NEW s \in Socket, NEW m \in Msg, SendCommand(s, m),
         NEW r \in Socket, NEW i \in 1 .. Len(pipe'[r])
  PROVE  \/ i \in 1 .. Len(pipe[r]) /\ pipe'[r][i] = pipe[r][i]
         \/ pipe'[r][i] = m
<1>1. pipe' = pipe \/ pipe' = [pipe EXCEPT ![s] = Append(@, m)]
  BY DEF SendCommand, SendOrDrop, SendOrBlock
<1>2. CASE pipe' = pipe \/ r # s
  BY <1>1, <1>2
<1>3. CASE r = s /\ pipe' = [pipe EXCEPT ![s] = Append(@, m)]
  <2>1. pipe[s] \in Seq(Msg) /\ pipe'[r] = Append(pipe[s], m)
    BY <1>3
  <2> QED
    BY <1>3, <2>1, AppendProperties
<1> QED
  BY <1>1, <1>2, <1>3

\* Receiving takes the first message of a pipe and leaves the others.
LEMMA ReceiveTakes ==
  ASSUME pipe \in [Socket -> Seq(Msg)], NEW s \in Socket, NEW command, Received(s, command)
  PROVE  /\ \A r \in Socket : r # s => pipe'[r] = pipe[r]
         /\ Len(pipe[s]) \in Nat \ {0} /\ Len(pipe'[s]) = Len(pipe[s]) - 1
         /\ \A i \in 1 .. Len(pipe'[s]) : pipe'[s][i] = pipe[s][i + 1]
         /\ pipe[s][1].command = command /\ pipe[s][1] = Head(pipe[s])
<1>1. pipe[s] \in Seq(Msg) /\ pipe[s] # <<>> /\ pipe'[s] = Tail(pipe[s])
  BY DEF Received
<1>2. /\ Len(pipe[s]) \in Nat \ {0} /\ Len(Tail(pipe[s])) = Len(pipe[s]) - 1
      /\ \A i \in 1 .. Len(Tail(pipe[s])) : Tail(pipe[s])[i] = pipe[s][i + 1]
      /\ pipe[s][1] = Head(pipe[s])
  BY <1>1, HeadTailProperties, LenProperties, EmptySeq
<1> QED
  BY <1>1, <1>2 DEF Received

\* Every step keeps the exit command last.
LEMMA ExitLastStep == TypeOK /\ ExitLast /\ [Next]_vars => ExitLast'
<1> SUFFICES ASSUME TypeOK, ExitLast, [Next]_vars PROVE ExitLast'
  OBVIOUS
<1> USE DEF TypeOK, ExitLast
<1>1. ASSUME NEW t \in Thread, NextPing(t) PROVE ExitLast'
  BY <1>1 DEF NextPing
<1>2. ASSUME NEW t \in Thread, SendPing(t) PROVE ExitLast'
  <2>1. PICK m \in Msg : m = Ping(t, sent[t])
    BY DEF Ping, Msg
  <2>2. m.command = "P" /\ SocketOf(t) \in Socket
    BY <2>1 DEF Ping, SocketOf, Socket
  <2>3. SendCommand(SocketOf(t), m) /\ mainPc = "join" /\ mainPc' = mainPc
    BY <1>2, <2>1 DEF SendPing
  <2>4. ASSUME NEW s \in Socket, NEW i \in 1 .. Len(pipe'[s])
        PROVE  pipe'[s][i].command = "P"
    <3>1. \/ i \in 1 .. Len(pipe[s]) /\ pipe'[s][i] = pipe[s][i]
          \/ pipe'[s][i] = m
      BY <2>2, <2>3, <2>4, SendAdds DEF TypeOK
    <3> QED
      BY <2>2, <2>3, <2>4, <3>1
  <2> QED
    BY <1>2, <2>3, <2>4 DEF SendPing
<1>3. CASE Bind
  BY <1>3 DEF Bind
<1>4. ASSUME NEW s \in Socket, Subscribe(s) PROVE ExitLast'
  BY <1>4 DEF Subscribe
<1>5. ASSUME NEW s \in Socket, ReceivePing(s) PROVE ExitLast'
  <2>1. Received(s, "P")
    BY <1>5 DEF ReceivePing
  <2>2. ASSUME mainPc \in {"join", "sleep", "exit"},
               NEW r \in Socket, NEW i \in 1 .. Len(pipe'[r])
        PROVE  pipe'[r][i].command = "P"
    <3>1. CASE r # s
      BY <2>1, <2>2, <3>1, ReceiveTakes
    <3>2. CASE r = s
      <4>1. i + 1 \in 1 .. Len(pipe[s]) /\ pipe'[s][i] = pipe[s][i + 1]
        BY <2>1, <2>2, <3>2, ReceiveTakes
      <4> QED
        BY <2>2, <3>2, <4>1
    <3> QED
      BY <3>1, <3>2
  <2> QED
    BY <1>5, <2>2 DEF ReceivePing
<1>6. ASSUME NEW s \in Socket, ReceiveExit(s) PROVE ExitLast'
  <2>1. Received(s, "X")
    BY <1>6 DEF ReceiveExit
  <2>2. 1 \in 1 .. Len(pipe[s]) /\ pipe[s][1].command = "X"
    BY <2>1, ReceiveTakes
  <2>3. mainPc \notin {"join", "sleep", "exit"}
    BY <2>2
  <2> QED
    BY <1>6, <2>3 DEF ReceiveExit
<1>7. CASE JoinThreads
  BY <1>7 DEF JoinThreads
<1>8. CASE Wake
  BY <1>8 DEF Wake
<1>9. CASE SendExit
  BY <1>9 DEF SendExit
<1>10. CASE CheckResults
  BY <1>10 DEF CheckResults
<1>11. CASE Finished \/ UNCHANGED vars
  BY <1>11 DEF Finished, vars
<1> QED
  BY <1>1, <1>2, <1>3, <1>4, <1>5, <1>6, <1>7, <1>8, <1>9, <1>10, <1>11 DEF Next

\* The flag that the control threads read is cleared, and the results that they
\* write are read, only when there are no control threads any more.
THEOREM FlagNeverShared == Spec => []FlagUnshared
<1>1. Init => ExitLast
  BY DEF Init, ExitLast
<1>2. ExitLast => FlagUnshared
  BY DEF ExitLast, FlagUnshared
<1> QED
  BY <1>1, <1>2, TypeCorrect, ExitLastStep, PTL DEF Spec

-----------------------------------------------------------------------------
(***************************************************************************)
(* PUSH/PULL: pings arrive once and in order.                              *)
(***************************************************************************)

\* With a socket for every thread, what a pipe holds continues what has been
\* received, and together they are all that has been sent.
Consecutive ==
  /\ \A t \in Thread :
       /\ \A i \in 1 .. Len(pipe[t]) : pipe[t][i] = Ping(t, received[t] + i)
       /\ sent[t] = received[t] + Len(pipe[t]) + (IF threadPc[t] = "send" THEN 1 ELSE 0)
  /\ \A i \in 1 .. Len(pipe[Shutdown]) : pipe[Shutdown][i] = Exit

\* zmq_send on a PUSH socket: the message is at the end of the sender's own pipe.
LEMMA PushAppends ==
  ASSUME transport = "push", pipe \in [Socket -> Seq(Msg)],
         NEW s \in Socket, NEW m \in Msg, SendCommand(s, m)
  PROVE  /\ \A r \in Socket : r # s => pipe'[r] = pipe[r]
         /\ Len(pipe[s]) \in Nat /\ Len(pipe'[s]) = Len(pipe[s]) + 1
         /\ \A i \in 1 .. Len(pipe[s]) : pipe'[s][i] = pipe[s][i]
         /\ pipe'[s][Len(pipe[s]) + 1] = m
<1>1. pipe[s] \in Seq(Msg) /\ pipe' = [pipe EXCEPT ![s] = Append(@, m)]
  BY DEF SendCommand, SendOrBlock
<1>2. pipe'[s] = Append(pipe[s], m)
  BY <1>1
<1> QED
  BY <1>1, <1>2, AppendProperties, LenProperties

\* A ping that is received is the next one of the thread whose pipe it was in.
LEMMA NextReceived ==
  ASSUME TypeOK, Consecutive, NEW s \in Socket, Received(s, "P")
  PROVE  /\ s \in Thread
         /\ Head(pipe[s]).voidArg = s /\ Head(pipe[s]).longArg = received[s] + 1
         /\ received[s] < sent[s]
<1>1. /\ Len(pipe[s]) \in Nat \ {0} /\ 1 \in 1 .. Len(pipe[s])
      /\ pipe[s][1].command = "P" /\ pipe[s][1] = Head(pipe[s])
  BY ReceiveTakes DEF TypeOK
<1>2. s # Shutdown
  BY <1>1 DEF Consecutive, Exit
<1>3. s \in Thread
  BY <1>2 DEF Socket
<1>4. pipe[s][1] = Ping(s, received[s] + 1)
  BY <1>1, <1>3 DEF Consecutive
<1>5. received[s] < sent[s]
  <2>1. sent[s] = received[s] + Len(pipe[s]) + (IF threadPc[s] = "send" THEN 1 ELSE 0)
    BY <1>3 DEF Consecutive
  <2>2. received[s] \in Nat
    BY <1>3 DEF TypeOK
  <2> QED
    BY <1>1, <2>1, <2>2
<1> QED
  BY <1>1, <1>3, <1>4, <1>5 DEF Ping

\* Every step keeps the pipes consecutive.
LEMMA ConsecutiveStep ==
  ASSUME transport = "push", TypeOK, Consecutive, [Next]_vars
  PROVE  Consecutive'
<1> USE SignalingAssumption
<1>1. ASSUME pipe' = pipe, received' = received, sent' = sent,
             \A t \in Thread : (threadPc'[t] = "send") <=> (threadPc[t] = "send")
      PROVE  Consecutive'
  BY <1>1 DEF Consecutive
<1>2. ASSUME NEW t \in Thread, NextPing(t) PROVE Consecutive'
  <2>1. /\ pipe' = pipe /\ received' = received /\ threadPc[t] = "head"
        /\ \A r \in Thread \ {t} : sent'[r] = sent[r] /\ threadPc'[r] = threadPc[r]
        /\ \/ sent'[t] = sent[t] + 1 /\ threadPc'[t] = "send"
           \/ sent'[t] = sent[t] /\ threadPc'[t] = "done"
    BY <1>2 DEF NextPing, TypeOK
  <2>2. ASSUME NEW r \in Thread
        PROVE  sent'[r] = received'[r] + Len(pipe'[r]) + (IF threadPc'[r] = "send" THEN 1 ELSE 0)
    <3>1. Len(pipe[r]) \in Nat /\ received[r] \in Nat
      BY LenProperties DEF TypeOK, Socket
    <3> QED
      BY <2>1, <3>1 DEF Consecutive
  <2> QED
    BY <2>1, <2>2 DEF Consecutive
<1>3. ASSUME NEW t \in Thread, SendPing(t) PROVE Consecutive'
  <2>1. PICK m \in Msg : m = Ping(t, sent[t])
    BY DEF Ping, Msg, TypeOK
  <2>2. t \in Socket /\ Shutdown \in Socket /\ t # Shutdown /\ SocketOf(t) = t
    BY DEF Socket, SocketOf
  <2>3. SendCommand(t, m) /\ threadPc[t] = "send"
    BY <1>3, <2>1, <2>2 DEF SendPing
  <2>4. /\ \A r \in Socket : r # t => pipe'[r] = pipe[r]
        /\ Len(pipe[t]) \in Nat /\ Len(pipe'[t]) = Len(pipe[t]) + 1
        /\ \A i \in 1 .. Len(pipe[t]) : pipe'[t][i] = pipe[t][i]
        /\ pipe'[t][Len(pipe[t]) + 1] = m
    BY <2>2, <2>3, PushAppends DEF TypeOK
  <2>5. /\ sent' = sent /\ received' = received
        /\ \A r \in Thread \ {t} : threadPc'[r] = threadPc[r]
        /\ threadPc'[t] # "send"
    BY <1>3 DEF SendPing, TypeOK
  <2>6. sent[t] = received[t] + Len(pipe[t]) + 1 /\ received[t] \in Nat
    BY <2>3 DEF Consecutive, TypeOK
  <2>7. ASSUME NEW i \in 1 .. Len(pipe'[t]) PROVE pipe'[t][i] = Ping(t, received[t] + i)
    <3>1. CASE i \in 1 .. Len(pipe[t])
      BY <2>4, <3>1 DEF Consecutive
    <3>2. CASE i = Len(pipe[t]) + 1
      <4>1. received[t] + i = sent[t]
        <5> DEFINE n == received[t]  k == Len(pipe[t])
        <5>1. n \in Nat /\ k \in Nat /\ i = k + 1 /\ sent[t] = n + k + 1
          BY <2>4, <2>6, <3>2
        <5> HIDE DEF n, k
        <5>2. n + i = sent[t]
          BY <5>1
        <5> QED
          BY <5>2 DEF n
      <4> QED
        BY <2>1, <2>4, <3>2, <4>1
    <3> QED
      BY <2>4, <3>1, <3>2
  <2>8. sent'[t] = received'[t] + Len(pipe'[t]) + (IF threadPc'[t] = "send" THEN 1 ELSE 0)
    BY <2>4, <2>5, <2>6
  <2>9. ASSUME NEW r \in Thread \ {t}
        PROVE  /\ \A i \in 1 .. Len(pipe'[r]) : pipe'[r][i] = Ping(r, received'[r] + i)
               /\ sent'[r] = received'[r] + Len(pipe'[r])
                              + (IF threadPc'[r] = "send" THEN 1 ELSE 0)
    BY <2>4, <2>5 DEF Consecutive, Socket
  <2> QED
    BY <2>2, <2>4, <2>5, <2>7, <2>8, <2>9 DEF Consecutive
<1>4. ASSUME NEW s \in Socket, ReceivePing(s) PROVE Consecutive'
  <2>1. Received(s, "P")
    BY <1>4 DEF ReceivePing
  <2>2. s \in Thread /\ Head(pipe[s]).voidArg = s /\ Head(pipe[s]).longArg = received[s] + 1
    BY <2>1, NextReceived
  <2>3. /\ received' = [received EXCEPT ![s] = received[s] + 1] /\ received[s] \in Nat
        /\ sent' = sent /\ threadPc' = threadPc
    <3>1. received[s] \in Nat /\ received[s] + 1 > received[s]
      BY <2>2 DEF TypeOK
    <3>2. received' = [received EXCEPT ![s] =
              IF received[s] + 1 > received[s] THEN received[s] + 1 ELSE received[s]]
      BY <1>4, <2>2 DEF ReceivePing
    <3> QED
      BY <1>4, <3>1, <3>2 DEF ReceivePing
  <2>4. /\ \A r \in Socket : r # s => pipe'[r] = pipe[r]
        /\ Len(pipe[s]) \in Nat \ {0} /\ Len(pipe'[s]) = Len(pipe[s]) - 1
        /\ \A i \in 1 .. Len(pipe'[s]) : pipe'[s][i] = pipe[s][i + 1]
    BY <2>1, ReceiveTakes DEF TypeOK
  <2>5. ASSUME NEW i \in 1 .. Len(pipe'[s]) PROVE pipe'[s][i] = Ping(s, received'[s] + i)
    <3>1. i + 1 \in 1 .. Len(pipe[s]) /\ received'[s] + i = received[s] + (i + 1)
      BY <2>2, <2>3, <2>4 DEF TypeOK
    <3> QED
      BY <2>2, <2>4, <3>1 DEF Consecutive
  <2>6. sent'[s] = received'[s] + Len(pipe'[s]) + (IF threadPc'[s] = "send" THEN 1 ELSE 0)
    BY <2>2, <2>3, <2>4 DEF Consecutive, TypeOK
  <2>7. ASSUME NEW r \in Thread \ {s}
        PROVE  /\ \A i \in 1 .. Len(pipe'[r]) : pipe'[r][i] = Ping(r, received'[r] + i)
               /\ sent'[r] = received'[r] + Len(pipe'[r])
                              + (IF threadPc'[r] = "send" THEN 1 ELSE 0)
    BY <2>3, <2>4 DEF Consecutive, Socket, TypeOK
  <2>8. Shutdown \in Socket /\ Shutdown # s
    BY <2>2 DEF Socket
  <2> QED
    BY <2>4, <2>5, <2>6, <2>7, <2>8 DEF Consecutive
<1>5. ASSUME NEW s \in Socket, ReceiveExit(s) PROVE Consecutive'
  <2>1. Received(s, "X") /\ sent' = sent /\ received' = received /\ threadPc' = threadPc
    BY <1>5 DEF ReceiveExit
  <2>2. /\ \A r \in Socket : r # s => pipe'[r] = pipe[r]
        /\ Len(pipe[s]) \in Nat \ {0} /\ Len(pipe'[s]) = Len(pipe[s]) - 1
        /\ \A i \in 1 .. Len(pipe'[s]) : pipe'[s][i] = pipe[s][i + 1]
        /\ pipe[s][1].command = "X"
    BY <2>1, ReceiveTakes DEF TypeOK
  <2>3. s \notin Thread
    <3>1. ASSUME s \in Thread PROVE pipe[s][1] = Ping(s, received[s] + 1)
      BY <2>2, <3>1 DEF Consecutive
    <3>2. \A n : Ping(s, n).command = "P"
      BY DEF Ping
    <3> QED
      BY <2>2, <3>1, <3>2
  <2>4. s = Shutdown
    BY <2>3 DEF Socket
  <2>5. \A i \in 1 .. Len(pipe'[s]) : pipe'[s][i] = Exit
    BY <2>2, <2>4 DEF Consecutive
  <2> QED
    BY <2>1, <2>2, <2>3, <2>4, <2>5 DEF Consecutive, Socket
<1>6. CASE SendExit
  <2>1. Exit \in Msg /\ Shutdown \in Socket /\ SendCommand(Shutdown, Exit)
    BY <1>6 DEF SendExit, Msg, Socket
  <2>2. /\ \A r \in Socket : r # Shutdown => pipe'[r] = pipe[r]
        /\ Len(pipe[Shutdown]) \in Nat /\ Len(pipe'[Shutdown]) = Len(pipe[Shutdown]) + 1
        /\ \A i \in 1 .. Len(pipe[Shutdown]) : pipe'[Shutdown][i] = pipe[Shutdown][i]
        /\ pipe'[Shutdown][Len(pipe[Shutdown]) + 1] = Exit
    BY <2>1, PushAppends DEF TypeOK
  <2>3. \A i \in 1 .. Len(pipe'[Shutdown]) : pipe'[Shutdown][i] = Exit
    BY <2>2 DEF Consecutive
  <2>4. \A r \in Thread : pipe'[r] = pipe[r]
    BY <2>2 DEF Socket
  <2> QED
    BY <1>6, <2>3, <2>4 DEF Consecutive, SendExit
<1>7. ASSUME NEW s \in Socket, Subscribe(s) PROVE Consecutive'
  BY <1>1, <1>7 DEF Subscribe
<1>8. CASE Bind \/ JoinThreads \/ Wake \/ CheckResults \/ Finished \/ UNCHANGED vars
  BY <1>1, <1>8 DEF Bind, JoinThreads, Wake, CheckResults, Finished, vars
<1> QED
  BY <1>2, <1>3, <1>4, <1>5, <1>6, <1>7, <1>8 DEF Next

\* No step makes the main loop print that a ping was not the one it expected.
LEMMA InOrderStep ==
  ASSUME TypeOK, Consecutive, InOrder, [Next]_vars
  PROVE  InOrder'
<1>1. ASSUME NEW s \in Socket, ReceivePing(s) PROVE failed' = failed /\ mainPc' = mainPc
  <2>1. Received(s, "P")
    BY <1>1 DEF ReceivePing
  <2>2. Head(pipe[s]).longArg = received[Head(pipe[s]).voidArg] + 1
    BY <2>1, NextReceived
  <2>3. failed \in BOOLEAN
    BY DEF TypeOK
  <2> QED
    BY <1>1, <2>2, <2>3 DEF ReceivePing
<1>2. CASE CheckResults
  BY <1>2 DEF CheckResults, InOrder
<1>3. CASE JoinThreads \/ Wake \/ SendExit
  BY <1>3 DEF JoinThreads, Wake, SendExit, InOrder
<1>4. CASE Bind \/ Finished \/ UNCHANGED vars
  BY <1>4 DEF Bind, Finished, vars, InOrder
<1>5. ASSUME NEW t \in Thread, NextPing(t) \/ SendPing(t) PROVE InOrder'
  BY <1>5 DEF NextPing, SendPing, InOrder
<1>6. ASSUME NEW s \in Socket, Subscribe(s) \/ ReceiveExit(s) PROVE InOrder'
  BY <1>6 DEF Subscribe, ReceiveExit, InOrder
<1>7. ASSUME NEW s \in Socket, ReceivePing(s) PROVE InOrder'
  BY <1>1, <1>7 DEF InOrder
<1> QED
  BY <1>2, <1>3, <1>4, <1>5, <1>6, <1>7 DEF Next

\* With PUSH sockets every ping is the one the main loop expects, for any number
\* of threads and however small the pipes are.
THEOREM PushInOrder == Transports = {"push"} /\ Spec => []InOrder
<1> DEFINE Only == Transports = {"push"}
<1> DEFINE Push == transport = "push"
<1>1. Init => Consecutive /\ InOrder
  <2> SUFFICES ASSUME Init PROVE Consecutive /\ InOrder
    OBVIOUS
  <2>1. \A s \in Socket : pipe[s] = <<>>
    BY DEF Init
  <2>2. InOrder
    BY DEF Init, InOrder
  <2>3. Len(<<>>) = 0
    OBVIOUS
  <2>4. Consecutive
    BY <2>1, <2>3 DEF Init, Consecutive, Socket
  <2> QED
    BY <2>2, <2>4
<1>2. Only /\ TypeOK => Push
  BY DEF TypeOK
<1>3. Push /\ TypeOK /\ Consecutive /\ InOrder /\ [Next]_vars
      => Consecutive' /\ InOrder'
  BY ConsecutiveStep, InOrderStep
<1>4. Only => Only'
  OBVIOUS
<1> HIDE DEF Only, Push
<1>5. Only /\ Spec => []InOrder
  BY <1>1, <1>3, <1>2, <1>4, TypeCorrect, PTL DEF Spec
<1> QED
  BY <1>5 DEF Only

-----------------------------------------------------------------------------
(***************************************************************************)
(* PUSH/PULL implements Pinging, if main() sleeps long enough.             *)
(***************************************************************************)

\* A thread that is done has sent what it was asked to; main() wakes up when
\* everything has been received, and is done after the loop is.
Settled ==
  /\ \A t \in Thread :
       /\ threadPc[t] = "head" => sent[t] < NumMsgs
       /\ threadPc[t] = "send" => sent[t] <= NumMsgs
       /\ threadPc[t] = "done" => sent[t] = NumMsgs
  /\ mainPc \in {"exit", "reap", "done"} => \A t \in Thread : pipe[t] = <<>>
  /\ mainPc = "done" => loopPc = "closed"

\* The assumptions under which PUSH/PULL keeps the promises of Pinging.
PatientPush == Transports = {"push"} /\ "push" \in Patient /\ NumMsgs > 0

\* Every step keeps Settled.
LEMMA SettledStep ==
  ASSUME PatientPush, TypeOK, ExitLast, Settled, [Next]_vars
  PROVE  Settled'
<1> USE SignalingAssumption DEF PatientPush
<1>1. ASSUME NEW t \in Thread, NextPing(t) PROVE Settled'
  <2>1. threadPc[t] = "head" /\ mainPc = "join"
    BY <1>1 DEF NextPing, ExitLast, TypeOK
  <2>2. keepGoing
    BY <2>1 DEF ExitLast
  <2>3. /\ sent' = [sent EXCEPT ![t] = @ + 1]
        /\ threadPc' = [threadPc EXCEPT ![t] = "send"]
        /\ mainPc' = mainPc /\ loopPc' = loopPc
    BY <1>1, <2>2 DEF NextPing
  <2>4. sent[t] \in Nat /\ sent[t] < NumMsgs
    BY <2>1 DEF Settled, TypeOK
  <2>5. sent[t] + 1 <= NumMsgs
    BY <2>4
  <2> QED
    BY <2>1, <2>3, <2>5 DEF Settled, TypeOK
<1>3. ASSUME NEW t \in Thread, SendPing(t) PROVE Settled'
  <2>1. threadPc[t] = "send" /\ mainPc = "join"
    BY <1>3 DEF SendPing, ExitLast, TypeOK
  <2>2. sent[t] \in Nat /\ sent[t] <= NumMsgs
    BY <2>1 DEF Settled, TypeOK
  <2>3. /\ threadPc' = [threadPc EXCEPT ![t] = IF sent[t] >= NumMsgs THEN "done" ELSE "head"]
        /\ sent' = sent /\ mainPc' = mainPc /\ loopPc' = loopPc
    BY <1>3 DEF SendPing
  <2> QED
    BY <2>1, <2>2, <2>3 DEF Settled, TypeOK
<1>2. ASSUME NEW s \in Socket, Received(s, "P") \/ Received(s, "X")
      PROVE  \A t \in Thread : pipe[t] = <<>> => pipe'[t] = <<>>
  BY <1>2 DEF Received, TypeOK, Socket
<1>4. ASSUME NEW s \in Socket, ReceivePing(s) PROVE Settled'
  BY <1>2, <1>4 DEF ReceivePing, Settled
<1>5. ASSUME NEW s \in Socket, ReceiveExit(s) PROVE Settled'
  BY <1>2, <1>5 DEF ReceiveExit, Settled
<1>6. CASE Wake
  <2>1. \A s \in Socket : pipe[s] = <<>>
    BY <1>6 DEF Wake, TypeOK
  <2> QED
    BY <1>6, <2>1 DEF Wake, Settled, Socket
<1>7. CASE SendExit
  <2>1. Exit \in Msg /\ Shutdown \in Socket /\ SendCommand(Shutdown, Exit)
    BY <1>7 DEF SendExit, Msg, Socket
  <2>2. \A t \in Thread : pipe'[t] = pipe[t]
    BY <2>1, PushAppends DEF TypeOK, Socket
  <2> QED
    BY <1>7, <2>2 DEF SendExit, Settled
<1>8. CASE Bind \/ JoinThreads \/ CheckResults \/ Finished \/ UNCHANGED vars
  BY <1>8 DEF Bind, JoinThreads, CheckResults, Finished, vars, Settled
<1>9. ASSUME NEW s \in Socket, Subscribe(s) PROVE Settled'
  BY <1>9 DEF Subscribe, Settled
<1> QED
  BY <1>1, <1>3, <1>4, <1>5, <1>6, <1>7, <1>8, <1>9 DEF Next

\* Every step is a step of Pinging or leaves it alone.
LEMMA PingingStep ==
  ASSUME PatientPush, TypeOK, ExitLast, Consecutive, Settled, [Next]_vars
  PROVE  [P!Next]_<<sent, received, mainPc = "done">>
<1> USE SignalingAssumption DEF PatientPush
<1> DEFINE Same == sent' = sent /\ received' = received
                   /\ (mainPc' = "done" <=> mainPc = "done")
<1>1. ASSUME NEW t \in Thread, NextPing(t) PROVE P!Send(t)
  <2>1. threadPc[t] = "head" /\ mainPc = "join"
    BY <1>1 DEF NextPing, ExitLast, TypeOK
  <2>2. keepGoing
    BY <2>1 DEF ExitLast
  <2>3. sent' = [sent EXCEPT ![t] = @ + 1] /\ received' = received /\ mainPc' = mainPc
    BY <1>1, <2>2 DEF NextPing
  <2> QED
    BY <2>1, <2>3 DEF P!Send, Settled
<1>3. ASSUME NEW t \in Thread, SendPing(t) PROVE Same
  BY <1>3 DEF SendPing
<1>2. ASSUME NEW s \in Socket, ReceivePing(s) PROVE s \in Thread /\ P!Receive(s)
  <2>1. Received(s, "P") /\ loopPc = "poll"
    BY <1>2 DEF ReceivePing, Received
  <2>2. /\ s \in Thread /\ Head(pipe[s]).voidArg = s
        /\ Head(pipe[s]).longArg = received[s] + 1 /\ received[s] < sent[s]
    BY <2>1, NextReceived
  <2>3. received' = [received EXCEPT ![s] = received[s] + 1]
    <3>1. received[s] \in Nat /\ received[s] + 1 > received[s]
      BY <2>2 DEF TypeOK
    <3>2. received' = [received EXCEPT ![s] =
              IF received[s] + 1 > received[s] THEN received[s] + 1 ELSE received[s]]
      BY <1>2, <2>2 DEF ReceivePing
    <3> QED
      BY <3>1, <3>2
  <2>4. mainPc # "done" /\ mainPc' = mainPc /\ sent' = sent
    BY <1>2, <2>1 DEF ReceivePing, Settled
  <2> QED
    BY <2>2, <2>3, <2>4 DEF P!Receive
<1>4. ASSUME CheckResults PROVE P!End
  <2>1. mainPc = "reap" /\ mainPc' = "done" /\ sent' = sent /\ received' = received
    BY <1>4 DEF CheckResults
  <2>2. ASSUME NEW t \in Thread PROVE received[t] = NumMsgs
    <3>1. threadPc[t] = "done" /\ sent[t] = NumMsgs /\ pipe[t] = <<>>
      BY <2>1 DEF ExitLast, Settled
    <3>2. sent[t] = received[t] + Len(pipe[t]) + (IF threadPc[t] = "send" THEN 1 ELSE 0)
      BY DEF Consecutive
    <3>3. Len(pipe[t]) = 0 /\ received[t] \in Nat
      BY <3>1 DEF TypeOK
    <3> QED
      BY <3>1, <3>2, <3>3
  <2> QED
    BY <2>1, <2>2 DEF P!End
<1>5. ASSUME NEW s \in Socket, Subscribe(s) \/ ReceiveExit(s) PROVE Same
  BY <1>5 DEF Subscribe, ReceiveExit
<1>6. CASE Bind \/ JoinThreads \/ Wake \/ SendExit \/ Finished \/ UNCHANGED vars
  <2>1. Same
    BY <1>6 DEF Bind, JoinThreads, Wake, SendExit, Finished, vars
  <2> QED
    BY <2>1
<1> QED
  BY <1>1, <1>3, <1>2, <1>4, <1>5, <1>6 DEF Next, P!Next

\* PUSH/PULL keeps its promises: with a sleep that is long enough, the program
\* ends only when every ping of every thread has been received.
THEOREM PushKeepsPinging == PatientPush /\ Spec => KeepsPinging
<1>1. Init => ExitLast /\ Consecutive /\ P!Init
  <2> SUFFICES ASSUME Init PROVE ExitLast /\ Consecutive /\ P!Init
    OBVIOUS
  <2>1. (\A s \in Socket : pipe[s] = <<>>) /\ Len(<<>>) = 0
    BY DEF Init
  <2>2. Consecutive
    BY <2>1 DEF Init, Consecutive, Socket
  <2>3. ExitLast
    BY DEF Init, ExitLast
  <2>4. P!Init
    BY DEF Init, P!Init
  <2> QED
    BY <2>2, <2>3, <2>4
<1>2. PatientPush /\ Init => Settled
  BY SignalingAssumption DEF PatientPush, Init, Settled, Socket
<1>3. PatientPush /\ TypeOK => transport = "push"
  BY DEF PatientPush, TypeOK
<1>4. /\ PatientPush /\ TypeOK /\ ExitLast /\ Consecutive /\ Settled /\ [Next]_vars
      => PatientPush' /\ ExitLast' /\ Consecutive' /\ Settled'
  BY <1>3, ExitLastStep, ConsecutiveStep, SettledStep DEF PatientPush
<1>5. /\ PatientPush /\ TypeOK /\ ExitLast /\ Consecutive /\ Settled /\ [Next]_vars
      => [P!Next]_P!pvars
  BY PingingStep DEF P!pvars
<1> QED
  BY <1>1, <1>2, <1>4, <1>5, TypeCorrect, PTL DEF Spec, KeepsPinging, P!Spec

-----------------------------------------------------------------------------
(***************************************************************************)
(* Every control thread sends -msgs messages.                              *)
(***************************************************************************)

Sending ==
  \A t \in Thread :
    /\ threadPc[t] = "head" => sent[t] < NumMsgs
    /\ threadPc[t] = "send" => sent[t] \in 1 .. NumMsgs
    /\ threadPc[t] = "done" => sent[t] = NumMsgs

\* Every step keeps Sending.
LEMMA SendingStep ==
  ASSUME TypeOK, ExitLast, Sending, [Next]_vars
  PROVE  Sending'
<1> USE SignalingAssumption
<1>1. ASSUME NEW t \in Thread, NextPing(t) PROVE Sending'
  <2>1. threadPc[t] = "head" /\ mainPc = "join"
    BY <1>1 DEF NextPing, ExitLast, TypeOK
  <2>2. keepGoing
    BY <2>1 DEF ExitLast
  <2>3. /\ sent' = [sent EXCEPT ![t] = @ + 1]
        /\ threadPc' = [threadPc EXCEPT ![t] = "send"]
    BY <1>1, <2>2 DEF NextPing
  <2>4. sent[t] \in Nat /\ sent[t] < NumMsgs
    BY <2>1 DEF Sending, TypeOK
  <2>5. sent[t] + 1 \in 1 .. NumMsgs
    BY <2>4
  <2> QED
    BY <2>1, <2>3, <2>5 DEF Sending, TypeOK
<1>2. ASSUME NEW t \in Thread, SendPing(t) PROVE Sending'
  <2>1. threadPc[t] = "send"
    BY <1>2 DEF SendPing
  <2>2. sent[t] \in 1 .. NumMsgs
    BY <2>1 DEF Sending
  <2>3. /\ threadPc' = [threadPc EXCEPT ![t] = IF sent[t] >= NumMsgs THEN "done" ELSE "head"]
        /\ sent' = sent
    BY <1>2 DEF SendPing
  <2> QED
    BY <2>1, <2>2, <2>3 DEF Sending, TypeOK
<1>3. ASSUME sent' = sent, threadPc' = threadPc PROVE Sending'
  BY <1>3 DEF Sending
<1>4. CASE Bind \/ JoinThreads \/ Wake \/ SendExit \/ CheckResults \/ Finished \/ UNCHANGED vars
  BY <1>3, <1>4 DEF Bind, JoinThreads, Wake, SendExit, CheckResults, Finished, vars
<1>5. ASSUME NEW s \in Socket, Subscribe(s) \/ ReceivePing(s) \/ ReceiveExit(s) PROVE Sending'
  BY <1>3, <1>5 DEF Subscribe, ReceivePing, ReceiveExit
<1> QED
  BY <1>1, <1>2, <1>4, <1>5 DEF Next

LEMMA SendingInit == NumMsgs > 0 /\ Init => ExitLast /\ Sending
BY SignalingAssumption DEF Init, ExitLast, Sending

\* With at least one message to send, every control thread sends exactly -msgs of them,
\* with every transport: nobody clears keepGoing while it is at it
\* (threads/common.h:94-113).
THEOREM EachSendsAsAsked == NumMsgs > 0 /\ Spec => []SendsAsAsked
<1>1. TypeOK /\ ExitLast /\ Sending /\ [Next]_vars => ExitLast' /\ Sending'
  BY ExitLastStep, SendingStep
<1>2. Sending => SendsAsAsked
  BY DEF Sending, SendsAsAsked
<1> QED
  BY <1>1, <1>2, SendingInit, TypeCorrect, PTL DEF Spec

-----------------------------------------------------------------------------
(***************************************************************************)
(* CLIENT/SERVER: the pings of all threads are mixed in one pipe.          *)
(***************************************************************************)

Carries(q, i, t) == q[i].command = "P" /\ q[i].voidArg = t

\* The queue q holds the pings r+1 to d of thread t, in this order, among others.
Chain(q, t, r, d) ==
  /\ r <= d
  /\ \A n \in r + 1 .. d : \E i \in 1 .. Len(q) : q[i] = Ping(t, n)
  /\ \A i \in 1 .. Len(q) : Carries(q, i, t) => q[i].longArg \in r + 1 .. d
  /\ \A i, j \in 1 .. Len(q) :
       i < j /\ Carries(q, i, t) /\ Carries(q, j, t) => q[i].longArg < q[j].longArg

\* The next ping of the thread comes at the end.
LEMMA ChainNext ==
  ASSUME NEW q \in Seq(Msg), NEW t \in Thread, NEW r \in Nat, NEW d \in Nat, Chain(q, t, r, d)
  PROVE  Chain(Append(q, Ping(t, d + 1)), t, r, d + 1)
<1> DEFINE k == Len(q)  x == Ping(t, d + 1)  a == Append(q, x)
<1>1. k \in Nat /\ Len(a) = k + 1 /\ (\A i \in 1 .. k : a[i] = q[i]) /\ a[k + 1] = x
  BY LenProperties, AppendProperties
<1>2. x.command = "P" /\ x.voidArg = t /\ x.longArg = d + 1
  BY DEF Ping
<1> HIDE DEF k, x, a
<1>3. \A i \in 1 .. Len(a) : i \in 1 .. k \/ i = k + 1
  BY <1>1
<1>4. \A i \in 1 .. k : Carries(q, i, t) => q[i].longArg \in r + 1 .. d
  BY DEF Chain, k
<1>5. \A i \in 1 .. k : Carries(a, i, t) <=> Carries(q, i, t)
  BY <1>1 DEF Carries
<1>6. r <= d + 1
  BY DEF Chain
<1>7. ASSUME NEW n \in r + 1 .. d + 1 PROVE \E i \in 1 .. Len(a) : a[i] = Ping(t, n)
  <2>1. CASE n = d + 1
    BY <1>1, <2>1 DEF x
  <2>2. CASE n \in r + 1 .. d
    <3>1. PICK i \in 1 .. k : q[i] = Ping(t, n)
      BY <2>2 DEF Chain, k
    <3>2. a[i] = Ping(t, n) /\ i \in 1 .. Len(a)
      BY <1>1, <3>1
    <3> QED
      BY <3>2
  <2> QED
    BY <2>1, <2>2
<1>8. ASSUME NEW i \in 1 .. Len(a), Carries(a, i, t) PROVE a[i].longArg \in r + 1 .. d + 1
  <2>1. CASE i \in 1 .. k
    BY <1>1, <1>4, <1>5, <1>8, <2>1
  <2>2. CASE i = k + 1
    BY <1>1, <1>2, <1>6, <2>2 DEF Chain
  <2> QED
    BY <1>3, <2>1, <2>2
<1>9. ASSUME NEW i \in 1 .. Len(a), NEW j \in 1 .. Len(a), i < j, Carries(a, i, t), Carries(a, j, t)
      PROVE  a[i].longArg < a[j].longArg
  <2>1. i \in 1 .. k
    BY <1>1, <1>9
  <2>2. CASE j \in 1 .. k
    BY <1>1, <1>5, <1>9, <2>1, <2>2 DEF Chain, k
  <2>3. CASE j = k + 1
    <3>1. q[i].longArg \in r + 1 .. d /\ a[i] = q[i] /\ a[j].longArg = d + 1
      BY <1>1, <1>2, <1>4, <1>5, <1>9, <2>1, <2>3
    <3> QED
      BY <3>1
  <2> QED
    BY <1>3, <2>2, <2>3
<1> QED
  BY <1>6, <1>7, <1>8, <1>9 DEF Chain, a, x

\* Something that is not a ping of the thread comes at the end.
LEMMA ChainOther ==
  ASSUME NEW q \in Seq(Msg), NEW t \in Thread, NEW r \in Nat, NEW d \in Nat, Chain(q, t, r, d),
         NEW x \in Msg, x.command # "P" \/ x.voidArg # t
  PROVE  Chain(Append(q, x), t, r, d)
<1> DEFINE k == Len(q)  a == Append(q, x)
<1>1. k \in Nat /\ Len(a) = k + 1 /\ (\A i \in 1 .. k : a[i] = q[i]) /\ a[k + 1] = x
  BY LenProperties, AppendProperties
<1> HIDE DEF k, a
<1>2. \A i \in 1 .. Len(a) : Carries(a, i, t) => i \in 1 .. k /\ Carries(q, i, t)
  BY <1>1 DEF Carries
<1>3. ASSUME NEW n \in r + 1 .. d PROVE \E i \in 1 .. Len(a) : a[i] = Ping(t, n)
  <2>1. PICK i \in 1 .. k : q[i] = Ping(t, n)
    BY DEF Chain, k
  <2>2. a[i] = Ping(t, n) /\ i \in 1 .. Len(a)
    BY <1>1, <2>1
  <2> QED
    BY <2>2
<1>4. \A i \in 1 .. Len(a) : Carries(a, i, t) => a[i].longArg \in r + 1 .. d
  BY <1>1, <1>2 DEF Chain, k
<1>5. \A i, j \in 1 .. Len(a) :
        i < j /\ Carries(a, i, t) /\ Carries(a, j, t) => a[i].longArg < a[j].longArg
  BY <1>1, <1>2 DEF Chain, k
<1> QED
  BY <1>3, <1>4, <1>5 DEF Chain, a

\* The first ping of the thread is the next one, and what follows it continues it.
LEMMA ChainTaken ==
  ASSUME NEW q \in Seq(Msg), NEW t \in Thread, NEW r \in Nat, NEW d \in Nat, Chain(q, t, r, d),
         q # <<>>
  PROVE  /\ Carries(q, 1, t) => /\ q[1].longArg = r + 1 /\ r < d
                                /\ Chain(Tail(q), t, r + 1, d)
         /\ ~Carries(q, 1, t) => Chain(Tail(q), t, r, d)
<1> DEFINE k == Len(q)  a == Tail(q)
<1>1. k \in Nat \ {0} /\ Len(a) = k - 1 /\ \A i \in 1 .. Len(a) : a[i] = q[i + 1]
  BY LenProperties, HeadTailProperties, EmptySeq
<1> HIDE DEF k, a
<1>2. /\ 1 \in 1 .. k /\ \A i \in 1 .. Len(a) : i + 1 \in 1 .. k
      /\ \A i \in 1 .. k : i # 1 => i - 1 \in 1 .. Len(a) /\ a[i - 1] = q[i]
  BY <1>1
<1>3. \A i \in 1 .. Len(a) : Carries(a, i, t) <=> Carries(q, i + 1, t)
  BY <1>1 DEF Carries
<1>4. \A i, j \in 1 .. Len(a) :
        i < j /\ Carries(a, i, t) /\ Carries(a, j, t) => a[i].longArg < a[j].longArg
  <2> SUFFICES ASSUME NEW i \in 1 .. Len(a), NEW j \in 1 .. Len(a), i < j,
                      Carries(a, i, t), Carries(a, j, t)
               PROVE  a[i].longArg < a[j].longArg
    OBVIOUS
  <2>1. /\ i + 1 \in 1 .. k /\ j + 1 \in 1 .. k /\ i + 1 < j + 1
        /\ a[i] = q[i + 1] /\ a[j] = q[j + 1]
    BY <1>1, <1>2
  <2>2. Carries(q, i + 1, t) /\ Carries(q, j + 1, t)
    BY <1>3
  <2> QED
    BY <2>1, <2>2 DEF Chain, k
<1>5. ASSUME Carries(q, 1, t)
      PROVE  q[1].longArg = r + 1 /\ r < d /\ Chain(a, t, r + 1, d)
  <2>1. q[1].longArg \in r + 1 .. d
    BY <1>2, <1>5 DEF Chain, k
  <2>2. r + 1 \in r + 1 .. d
    BY <2>1
  <2>3. PICK i \in 1 .. k : q[i] = Ping(t, r + 1)
    BY <2>2 DEF Chain, k
  <2>4. Carries(q, i, t) /\ q[i].longArg = r + 1
    BY <2>3 DEF Carries, Ping
  <2>5. i # 1 => q[1].longArg < q[i].longArg
    BY <1>2, <1>5, <2>4 DEF Chain, k
  <2>6. q[1].longArg = r + 1
    BY <2>1, <2>4, <2>5
  <2>7. ASSUME NEW n \in r + 1 + 1 .. d PROVE \E j \in 1 .. Len(a) : a[j] = Ping(t, n)
    <3>1. n \in r + 1 .. d /\ n # r + 1
      BY <2>7
    <3>2. PICK j \in 1 .. k : q[j] = Ping(t, n)
      BY <3>1 DEF Chain, k
    <3>3. q[j].longArg = n
      BY <3>2 DEF Ping
    <3>4. j # 1
      BY <2>6, <3>1, <3>3
    <3> QED
      BY <1>2, <3>2, <3>4
  <2>8. ASSUME NEW j \in 1 .. Len(a), Carries(a, j, t) PROVE a[j].longArg \in r + 1 + 1 .. d
    <3>1. a[j] = q[j + 1] /\ j + 1 \in 1 .. k /\ 1 < j + 1 /\ Carries(q, j + 1, t)
      BY <1>1, <1>2, <1>3, <2>8
    <3>2. q[j + 1].longArg \in r + 1 .. d
      BY <3>1 DEF Chain, k
    <3>3. q[1].longArg < q[j + 1].longArg
      BY <1>2, <1>5, <3>1 DEF Chain, k
    <3> QED
      BY <2>6, <3>1, <3>2, <3>3
  <2>9. r + 1 <= d /\ r < d
    BY <2>2
  <2> QED
    BY <1>4, <2>6, <2>7, <2>8, <2>9 DEF Chain
<1>6. ASSUME ~Carries(q, 1, t) PROVE Chain(a, t, r, d)
  <2>1. ASSUME NEW n \in r + 1 .. d PROVE \E j \in 1 .. Len(a) : a[j] = Ping(t, n)
    <3>1. PICK j \in 1 .. k : q[j] = Ping(t, n)
      BY DEF Chain, k
    <3>2. j # 1
      BY <1>6, <3>1 DEF Carries, Ping
    <3> QED
      BY <1>2, <3>1, <3>2
  <2>2. \A j \in 1 .. Len(a) : Carries(a, j, t) => a[j].longArg \in r + 1 .. d
    BY <1>1, <1>2, <1>3 DEF Chain, k
  <2> QED
    BY <1>4, <2>1, <2>2 DEF Chain
<1> QED
  BY <1>5, <1>6 DEF a

-----------------------------------------------------------------------------

\* How many of its pings thread t has put into a pipe.
Delivered(t) == IF threadPc[t] = "send" THEN sent[t] - 1 ELSE sent[t]

\* The program's one pipe holds, of every thread, what was sent and not received.
Chained == \A t \in Thread : Chain(pipe[Shutdown], t, received[t], Delivered(t))

LEMMA DeliveredNat ==
  ASSUME TypeOK, Sending, NEW t \in Thread
  PROVE  Delivered(t) \in Nat
<1>1. sent[t] \in Nat /\ (threadPc[t] = "send" => sent[t] \in 1 .. NumMsgs)
  BY DEF TypeOK, Sending
<1> QED
  BY <1>1, SignalingAssumption DEF Delivered

\* zmq_send on the CLIENT socket.
LEMMA ClientAppends ==
  ASSUME transport = "client", TypeOK, NEW m, SendCommand(Shutdown, m)
  PROVE  pipe[Shutdown] \in Seq(Msg) /\ pipe'[Shutdown] = Append(pipe[Shutdown], m)
BY DEF SendCommand, SendOrBlock, TypeOK, Socket

\* The head of the one pipe.
LEMMA ClientTakes ==
  ASSUME TypeOK, NEW command, Received(Shutdown, command)
  PROVE  /\ pipe[Shutdown] \in Seq(Msg) /\ pipe[Shutdown] # <<>>
         /\ pipe'[Shutdown] = Tail(pipe[Shutdown])
         /\ Head(pipe[Shutdown]) = pipe[Shutdown][1] /\ pipe[Shutdown][1] \in Msg
         /\ pipe[Shutdown][1].command = command
<1>1. /\ pipe[Shutdown] \in Seq(Msg) /\ pipe[Shutdown] # <<>>
      /\ pipe'[Shutdown] = Tail(pipe[Shutdown]) /\ Head(pipe[Shutdown]).command = command
  BY DEF Received, TypeOK, Socket
<1>2. Head(pipe[Shutdown]) = pipe[Shutdown][1] /\ Head(pipe[Shutdown]) \in Msg
  BY <1>1, HeadTailProperties
<1> QED
  BY <1>1, <1>2

\* With a CLIENT socket nothing is in the threads' own pipes.
OnePipe == \A t \in Thread : pipe[t] = <<>>

\* A ping that is received is the next one of the thread that it names.
LEMMA ClientReceived ==
  ASSUME TypeOK, OnePipe, Sending, Chained, NEW s \in Socket, ReceivePing(s)
  PROVE  \E t \in Thread :
           /\ s = Shutdown /\ Received(Shutdown, "P") /\ Carries(pipe[Shutdown], 1, t)
           /\ received[t] < Delivered(t) /\ Delivered(t) <= sent[t]
           /\ received' = [received EXCEPT ![t] = received[t] + 1]
           /\ failed' = failed /\ mainPc' = mainPc /\ loopPc' = loopPc
           /\ sent' = sent /\ threadPc' = threadPc
<1>1. s = Shutdown /\ Received(Shutdown, "P")
  BY DEF ReceivePing, Received, OnePipe, Socket
<1>2. /\ Head(pipe[Shutdown]) = pipe[Shutdown][1] /\ pipe[Shutdown][1] \in Msg
      /\ pipe[Shutdown][1].command = "P"
      /\ pipe[Shutdown] \in Seq(Msg) /\ pipe[Shutdown] # <<>>
  BY <1>1, ClientTakes
<1>3. PICK t \in Thread : t = pipe[Shutdown][1].voidArg
  BY <1>2 DEF Msg, Exit
<1>4. Carries(pipe[Shutdown], 1, t)
  BY <1>2, <1>3 DEF Carries
<1>5. received[t] \in Nat /\ Delivered(t) \in Nat /\ sent[t] \in Nat
  BY DeliveredNat DEF TypeOK
<1>6. pipe[Shutdown][1].longArg = received[t] + 1 /\ received[t] < Delivered(t)
  BY <1>2, <1>4, <1>5, ChainTaken DEF Chained
<1>7. Delivered(t) <= sent[t]
  BY <1>5 DEF Delivered
<1>8. received' = [received EXCEPT ![t] = received[t] + 1] /\ failed' = failed
  <2>1. received[t] + 1 > received[t] /\ failed \in BOOLEAN
    BY <1>5 DEF TypeOK
  <2>2. /\ failed' = (failed \/ received[t] + 1 # received[t] + 1)
        /\ received' = [received EXCEPT ![t] =
              IF received[t] + 1 > received[t] THEN received[t] + 1 ELSE received[t]]
    BY <1>1, <1>2, <1>3, <1>6 DEF ReceivePing
  <2> QED
    BY <2>1, <2>2
<1> QED
  BY <1>1, <1>4, <1>6, <1>7, <1>8 DEF ReceivePing

\* A step that neither sends nor receives keeps the pipe and what it continues.
LEMMA ChainedKept ==
  ASSUME Chained, pipe' = pipe, received' = received,
         \A t \in Thread : Delivered(t)' = Delivered(t)
  PROVE  Chained'
BY DEF Chained

LEMMA ChainedStep ==
  ASSUME transport = "client", TypeOK, ExitLast, Sending, OnePipe, Chained, [Next]_vars
  PROVE  OnePipe' /\ Chained'
<1> USE SignalingAssumption
<1>0. Shutdown \in Socket /\ \A t \in Thread : t \in Socket /\ t # Shutdown /\ SocketOf(t) = Shutdown
  BY DEF Socket, SocketOf
<1>1. ASSUME NEW t \in Thread, NextPing(t) PROVE OnePipe' /\ Chained'
  <2>1. pipe' = pipe /\ received' = received /\ threadPc[t] = "head" /\ mainPc = "join"
    BY <1>1 DEF NextPing, ExitLast, TypeOK
  <2>2. keepGoing
    BY <2>1 DEF ExitLast
  <2>3. /\ sent' = [sent EXCEPT ![t] = @ + 1]
        /\ threadPc' = [threadPc EXCEPT ![t] = "send"]
    BY <1>1, <2>2 DEF NextPing
  <2>4. \A r \in Thread : Delivered(r)' = Delivered(r)
    <3>1. sent[t] \in Nat /\ sent[t] + 1 - 1 = sent[t]
      BY DEF TypeOK
    <3> QED
      BY <2>1, <2>3, <3>1 DEF Delivered, TypeOK
  <2> QED
    BY <2>1, <2>4, ChainedKept DEF OnePipe
<1>2. ASSUME NEW t \in Thread, SendPing(t) PROVE OnePipe' /\ Chained'
  <2>1. /\ SendCommand(Shutdown, Ping(t, sent[t])) /\ threadPc[t] = "send"
        /\ threadPc' = [threadPc EXCEPT ![t] = IF sent[t] >= NumMsgs THEN "done" ELSE "head"]
        /\ sent' = sent /\ received' = received
    BY <1>0, <1>2 DEF SendPing
  <2>2. pipe[Shutdown] \in Seq(Msg) /\ pipe'[Shutdown] = Append(pipe[Shutdown], Ping(t, sent[t]))
    BY <2>1, ClientAppends
  <2>3. OnePipe'
    BY <1>0, <2>1 DEF SendCommand, SendOrBlock, OnePipe, TypeOK
  <2>4. ASSUME NEW r \in Thread
        PROVE  Chain(pipe'[Shutdown], r, received'[r], Delivered(r)')
    <3>1. received[r] \in Nat /\ Delivered(r) \in Nat /\ sent[t] \in Nat
          /\ Chain(pipe[Shutdown], r, received[r], Delivered(r))
      BY DeliveredNat DEF TypeOK, Chained
    <3>2. CASE r = t
      <4>1. Delivered(t)' = sent[t] /\ sent[t] = Delivered(t) + 1
        BY <2>1, <3>1 DEF Delivered, TypeOK
      <4> QED
        BY <2>1, <2>2, <3>1, <3>2, <4>1, ChainNext
    <3>3. CASE r # t
      <4>1. Delivered(r)' = Delivered(r)
        BY <2>1, <3>3 DEF Delivered, TypeOK
      <4>2. Ping(t, sent[t]) \in Msg /\ Ping(t, sent[t]).voidArg # r
        BY <3>1, <3>3 DEF Ping, Msg
      <4> QED
        BY <2>1, <2>2, <3>1, <4>1, <4>2, ChainOther
    <3> QED
      BY <3>2, <3>3
  <2> QED
    BY <2>3, <2>4 DEF Chained
<1>3. ASSUME NEW s \in Socket, ReceivePing(s) PROVE OnePipe' /\ Chained'
  <2>1. PICK t \in Thread :
          /\ s = Shutdown /\ Received(Shutdown, "P") /\ Carries(pipe[Shutdown], 1, t)
          /\ received' = [received EXCEPT ![t] = received[t] + 1]
          /\ sent' = sent /\ threadPc' = threadPc
    BY <1>3, ClientReceived
  <2>2. /\ pipe[Shutdown] \in Seq(Msg) /\ pipe[Shutdown] # <<>>
        /\ pipe'[Shutdown] = Tail(pipe[Shutdown])
    BY <2>1, ClientTakes
  <2>3. OnePipe'
    BY <1>0, <2>1 DEF Received, OnePipe, TypeOK
  <2>4. ASSUME NEW r \in Thread
        PROVE  Chain(pipe'[Shutdown], r, received'[r], Delivered(r)')
    <3>1. received[r] \in Nat /\ Delivered(r) \in Nat
          /\ Chain(pipe[Shutdown], r, received[r], Delivered(r))
      BY DeliveredNat DEF TypeOK, Chained
    <3>2. Delivered(r)' = Delivered(r)
      BY <2>1 DEF Delivered
    <3>3. CASE r = t
      <4>1. received'[r] = received[r] + 1
        BY <2>1, <3>3 DEF TypeOK
      <4> QED
        BY <2>1, <2>2, <3>1, <3>2, <3>3, <4>1, ChainTaken
    <3>4. CASE r # t
      <4>1. ~Carries(pipe[Shutdown], 1, r) /\ received'[r] = received[r]
        BY <2>1, <3>4 DEF Carries, TypeOK
      <4> QED
        BY <2>2, <3>1, <3>2, <4>1, ChainTaken
    <3> QED
      BY <3>3, <3>4
  <2> QED
    BY <2>3, <2>4 DEF Chained
<1>4. ASSUME NEW s \in Socket, ReceiveExit(s) PROVE OnePipe' /\ Chained'
  <2>1. s = Shutdown /\ Received(Shutdown, "X")
    BY <1>4 DEF ReceiveExit, Received, OnePipe, Socket
  <2>2. /\ pipe[Shutdown] \in Seq(Msg) /\ pipe[Shutdown] # <<>>
        /\ pipe'[Shutdown] = Tail(pipe[Shutdown]) /\ pipe[Shutdown][1].command = "X"
    BY <2>1, ClientTakes
  <2>3. OnePipe'
    BY <1>0, <2>1 DEF Received, OnePipe, TypeOK
  <2>4. ASSUME NEW r \in Thread
        PROVE  Chain(pipe'[Shutdown], r, received'[r], Delivered(r)')
    <3>1. received[r] \in Nat /\ Delivered(r) \in Nat
          /\ Chain(pipe[Shutdown], r, received[r], Delivered(r))
      BY DeliveredNat DEF TypeOK, Chained
    <3>2. Delivered(r)' = Delivered(r) /\ received' = received
      BY <1>4 DEF ReceiveExit, Delivered
    <3>3. ~Carries(pipe[Shutdown], 1, r)
      BY <2>2 DEF Carries
    <3> QED
      BY <2>2, <3>1, <3>2, <3>3, ChainTaken
  <2> QED
    BY <2>3, <2>4 DEF Chained
<1>5. CASE SendExit
  <2>1. SendCommand(Shutdown, Exit) /\ UNCHANGED <<sent, received, threadPc>>
    BY <1>5 DEF SendExit
  <2>2. pipe[Shutdown] \in Seq(Msg) /\ pipe'[Shutdown] = Append(pipe[Shutdown], Exit)
    BY <2>1, ClientAppends
  <2>3. OnePipe'
    BY <1>0, <2>1 DEF SendCommand, SendOrBlock, OnePipe, TypeOK
  <2>4. Exit \in Msg /\ Exit.command # "P"
    BY DEF Exit, Msg
  <2>5. ASSUME NEW r \in Thread
        PROVE  Chain(pipe'[Shutdown], r, received'[r], Delivered(r)')
    <3>1. received[r] \in Nat /\ Delivered(r) \in Nat
          /\ Chain(pipe[Shutdown], r, received[r], Delivered(r))
      BY DeliveredNat DEF TypeOK, Chained
    <3>2. Delivered(r)' = Delivered(r) /\ received' = received
      BY <2>1 DEF Delivered
    <3> QED
      BY <2>2, <2>4, <3>1, <3>2, ChainOther
  <2> QED
    BY <2>3, <2>5 DEF Chained
<1>6. ASSUME UNCHANGED <<sent, received, threadPc, pipe>> PROVE OnePipe' /\ Chained'
  <2>1. \A t \in Thread : Delivered(t)' = Delivered(t)
    BY <1>6 DEF Delivered
  <2> QED
    BY <1>6, <2>1, ChainedKept DEF OnePipe
<1>7. ASSUME NEW s \in Socket, Subscribe(s) PROVE OnePipe' /\ Chained'
  BY <1>6, <1>7 DEF Subscribe
<1>8. CASE Bind \/ JoinThreads \/ Wake \/ CheckResults \/ Finished \/ UNCHANGED vars
  BY <1>6, <1>8 DEF Bind, JoinThreads, Wake, CheckResults, Finished, vars
<1> QED
  BY <1>1, <1>2, <1>3, <1>4, <1>5, <1>7, <1>8 DEF Next

\* No step makes the main loop print that a ping was not the one it expected.
LEMMA ClientInOrderStep ==
  ASSUME TypeOK, OnePipe, Sending, Chained, InOrder, [Next]_vars
  PROVE  InOrder'
<1>1. ASSUME NEW s \in Socket, ReceivePing(s) PROVE InOrder'
  BY <1>1, ClientReceived DEF InOrder
<1>2. CASE JoinThreads \/ Wake \/ SendExit \/ CheckResults
  BY <1>2 DEF JoinThreads, Wake, SendExit, CheckResults, InOrder
<1>3. CASE Bind \/ Finished \/ UNCHANGED vars
  BY <1>3 DEF Bind, Finished, vars, InOrder
<1>4. ASSUME NEW t \in Thread, NextPing(t) \/ SendPing(t) PROVE InOrder'
  BY <1>4 DEF NextPing, SendPing, InOrder
<1>5. ASSUME NEW s \in Socket, Subscribe(s) \/ ReceiveExit(s) PROVE InOrder'
  BY <1>5 DEF Subscribe, ReceiveExit, InOrder
<1> QED
  BY <1>1, <1>2, <1>3, <1>4, <1>5 DEF Next

\* The exit command is the last message of the one pipe, so when it was received, all
\* was; and main() is done after the loop is.
ExitAtEnd ==
  LET q == pipe[Shutdown] IN
  /\ \A i \in 1 .. Len(q) : q[i].command = "X" => i = Len(q)
  /\ loopPc = "closed" => q = <<>> /\ mainPc \in {"reap", "done"}
  /\ mainPc = "done" => loopPc = "closed"

LEMMA ExitAtEndStep ==
  ASSUME transport = "client", TypeOK, ExitLast, OnePipe, ExitAtEnd, [Next]_vars
  PROVE  ExitAtEnd'
<1> USE SignalingAssumption
<1> DEFINE q == pipe[Shutdown]  k == Len(q)
<1>0. q \in Seq(Msg) /\ k \in Nat
  BY LenProperties DEF TypeOK, Socket
<1>1. ASSUME NEW m \in Msg, SendCommand(Shutdown, m), mainPc \in {"join", "exit"},
             loopPc' = loopPc, mainPc' \in {"join", "reap"}
      PROVE  ExitAtEnd'
  <2>1. pipe'[Shutdown] = Append(q, m)
    BY <1>1, ClientAppends
  <2>2. /\ Len(pipe'[Shutdown]) = k + 1
        /\ \A i \in 1 .. k : pipe'[Shutdown][i] = q[i]
    BY <1>0, <2>1, AppendProperties, LenProperties
  <2>3. \A i \in 1 .. k : q[i].command = "P"
    BY <1>1 DEF ExitLast, Socket
  <2>4. loopPc' # "closed"
    BY <1>1 DEF ExitAtEnd
  <2>5. ASSUME NEW i \in 1 .. Len(pipe'[Shutdown]), pipe'[Shutdown][i].command = "X"
        PROVE  i = Len(pipe'[Shutdown])
    <3>1. i \notin 1 .. k
      BY <2>2, <2>3, <2>5
    <3> QED
      BY <1>0, <2>2, <3>1
  <2> QED
    BY <1>1, <2>4, <2>5 DEF ExitAtEnd
<1>2. ASSUME NEW s \in Socket, NEW command, Received(s, command), mainPc' = mainPc,
             loopPc' = loopPc \/ command = "X"
      PROVE  ExitAtEnd'
  <2>1. s = Shutdown
    BY <1>2 DEF Received, OnePipe, Socket
  <2>2. /\ k \in Nat \ {0} /\ Len(pipe'[Shutdown]) = k - 1
        /\ \A i \in 1 .. Len(pipe'[Shutdown]) : pipe'[Shutdown][i] = q[i + 1]
        /\ q[1].command = command
    BY <1>2, <2>1, ReceiveTakes DEF TypeOK
  <2>3. loopPc = "poll" /\ mainPc # "done"
    BY <1>2 DEF Received, ExitAtEnd
  <2>4. ASSUME NEW i \in 1 .. Len(pipe'[Shutdown]), pipe'[Shutdown][i].command = "X"
        PROVE  i = Len(pipe'[Shutdown])
    <3>1. i + 1 \in 1 .. k /\ q[i + 1].command = "X"
      BY <2>2, <2>4
    <3>2. i + 1 = k
      BY <3>1 DEF ExitAtEnd
    <3> QED
      BY <2>2, <3>2
  <2>5. CASE command = "X"
    <3>1. k = 1
      <4>1. 1 \in 1 .. k /\ q[1].command = "X"
        BY <2>2, <2>5
      <4> QED
        BY <4>1 DEF ExitAtEnd
    <3>2. pipe'[Shutdown] = <<>>
      <4>1. pipe'[Shutdown] = Tail(q) /\ q # <<>>
        BY <1>2, <2>1 DEF Received, TypeOK
      <4>2. Tail(q) \in Seq(Msg) /\ Len(Tail(q)) = 0
        BY <1>0, <2>2, <3>1, <4>1, HeadTailProperties
      <4> QED
        BY <4>1, <4>2, EmptySeq
    <3>3. mainPc \in {"reap", "done"}
      <4>1. 1 \in 1 .. k /\ q[1].command # "P"
        BY <2>2, <2>5
      <4> QED
        BY <4>1 DEF ExitLast, TypeOK, Socket
    <3> QED
      BY <1>2, <2>3, <2>4, <3>2, <3>3 DEF ExitAtEnd
  <2>6. CASE loopPc' = loopPc
    BY <1>2, <2>3, <2>4, <2>6 DEF ExitAtEnd
  <2> QED
    BY <1>2, <2>5, <2>6
<1>3. ASSUME NEW t \in Thread, SendPing(t) PROVE ExitAtEnd'
  <2>1. /\ SocketOf(t) = Shutdown /\ SendCommand(Shutdown, Ping(t, sent[t]))
        /\ mainPc' = mainPc /\ loopPc' = loopPc /\ mainPc = "join"
    BY <1>3 DEF SendPing, SocketOf, ExitLast, TypeOK
  <2>2. Ping(t, sent[t]) \in Msg
    BY DEF Ping, Msg, TypeOK
  <2> QED
    BY <1>1, <2>1, <2>2
<1>4. CASE SendExit
  <2>1. Exit \in Msg
    BY DEF Exit, Msg
  <2> QED
    BY <1>1, <1>4, <2>1 DEF SendExit
<1>5. ASSUME NEW s \in Socket, ReceivePing(s) PROVE ExitAtEnd'
  BY <1>2, <1>5 DEF ReceivePing
<1>6. ASSUME NEW s \in Socket, ReceiveExit(s) PROVE ExitAtEnd'
  BY <1>2, <1>6 DEF ReceiveExit
<1>7. CASE CheckResults \/ Bind \/ JoinThreads \/ Wake \/ Finished \/ UNCHANGED vars
  BY <1>7 DEF CheckResults, Bind, JoinThreads, Wake, Finished, vars, ExitAtEnd
<1>8. ASSUME NEW t \in Thread, NextPing(t) PROVE ExitAtEnd'
  BY <1>8 DEF NextPing, ExitAtEnd
<1>9. ASSUME NEW s \in Socket, Subscribe(s) PROVE ExitAtEnd'
  BY <1>9 DEF Subscribe, ExitAtEnd
<1> QED
  BY <1>3, <1>4, <1>5, <1>6, <1>7, <1>8, <1>9 DEF Next

\* The state that a CLIENT program is in, and at least one message to send.
OnlyClient == Transports = {"client"} /\ NumMsgs > 0
InPipe     == OnePipe /\ Chained /\ ExitAtEnd

LEMMA InPipeInit == OnlyClient /\ Init => InPipe /\ InOrder /\ P!Init
<1> SUFFICES ASSUME OnlyClient, Init PROVE InPipe /\ InOrder /\ P!Init
  OBVIOUS
<1>1. (\A s \in Socket : pipe[s] = <<>>) /\ Len(<<>>) = 0
  BY DEF Init
<1>2. OnePipe
  BY <1>1 DEF OnePipe, Socket
<1>3. Chained
  <2>1. \A t \in Thread : received[t] = 0 /\ Delivered(t) = 0
    BY DEF Init, Delivered
  <2>2. 0 + 1 .. 0 = {} /\ 1 .. 0 = {} /\ 0 <= 0
    OBVIOUS
  <2>3. Len(pipe[Shutdown]) = 0
    BY <1>1 DEF Socket
  <2>4. \A t \in Thread : Chain(pipe[Shutdown], t, 0, 0)
    BY <2>2, <2>3 DEF Chain
  <2> QED
    BY <2>1, <2>4 DEF Chained
<1>4. ExitAtEnd
  BY <1>1 DEF Init, ExitAtEnd, Socket
<1>5. InOrder /\ P!Init
  BY DEF Init, InOrder, P!Init
<1> QED
  BY <1>2, <1>3, <1>4, <1>5 DEF InPipe

LEMMA InPipeStep ==
  ASSUME OnlyClient, TypeOK, ExitLast, Sending, InPipe, InOrder, [Next]_vars
  PROVE  InPipe' /\ InOrder'
<1>1. transport = "client"
  BY DEF OnlyClient, TypeOK
<1> QED
  BY <1>1, ChainedStep, ExitAtEndStep, ClientInOrderStep DEF InPipe

\* The invariants of the CLIENT program.
LEMMA InPipeAlways ==
  OnlyClient /\ Spec => [](TypeOK /\ ExitLast /\ Sending /\ InPipe /\ InOrder)
<1>1. OnlyClient /\ Init => ExitLast /\ Sending /\ InPipe /\ InOrder
  BY SendingInit, InPipeInit DEF OnlyClient
<1>2. /\ OnlyClient /\ TypeOK /\ ExitLast /\ Sending /\ InPipe /\ InOrder /\ [Next]_vars
      => OnlyClient' /\ ExitLast' /\ Sending' /\ InPipe' /\ InOrder'
  BY InPipeStep, ExitLastStep, SendingStep DEF OnlyClient
<1> QED
  BY <1>1, <1>2, TypeCorrect, PTL DEF Spec

\* With the one CLIENT socket that all threads share every ping is the one the main
\* loop expects of the thread it names, however the threads' pings mix and however
\* small the pipe is (threads/common.h:132-136, clientserver.cpp:17).
THEOREM ClientInOrder == OnlyClient /\ Spec => []InOrder
BY InPipeAlways, PTL

\* Every step of the CLIENT program is a step of Pinging or leaves it alone.
LEMMA ClientPingingStep ==
  ASSUME OnlyClient, TypeOK, ExitLast, Sending, InPipe, [Next]_vars
  PROVE  [P!Next]_<<sent, received, mainPc = "done">>
<1> USE SignalingAssumption DEF InPipe
<1> DEFINE Same == sent' = sent /\ received' = received
                   /\ (mainPc' = "done" <=> mainPc = "done")
<1>1. ASSUME NEW t \in Thread, NextPing(t) PROVE P!Send(t)
  <2>1. threadPc[t] = "head" /\ mainPc = "join"
    BY <1>1 DEF NextPing, ExitLast, TypeOK
  <2>2. keepGoing
    BY <2>1 DEF ExitLast
  <2>3. sent' = [sent EXCEPT ![t] = @ + 1] /\ received' = received /\ mainPc' = mainPc
    BY <1>1, <2>2 DEF NextPing
  <2> QED
    BY <2>1, <2>3 DEF P!Send, Sending
<1>2. ASSUME NEW t \in Thread, SendPing(t) PROVE Same
  BY <1>2 DEF SendPing
<1>3. ASSUME NEW s \in Socket, ReceivePing(s) PROVE \E t \in Thread : P!Receive(t)
  <2>1. PICK t \in Thread :
          /\ Received(Shutdown, "P") /\ received[t] < Delivered(t) /\ Delivered(t) <= sent[t]
          /\ received' = [received EXCEPT ![t] = received[t] + 1]
          /\ mainPc' = mainPc /\ sent' = sent
    BY <1>3, ClientReceived
  <2>2. mainPc # "done"
    BY <2>1 DEF Received, ExitAtEnd
  <2>3. received[t] < sent[t]
    <3>1. received[t] \in Nat /\ Delivered(t) \in Nat /\ sent[t] \in Nat
      BY DeliveredNat DEF TypeOK
    <3> QED
      BY <2>1, <3>1
  <2> QED
    BY <2>1, <2>2, <2>3 DEF P!Receive
<1>4. ASSUME CheckResults PROVE P!End
  <2>1. /\ mainPc = "reap" /\ loopPc = "closed" /\ mainPc' = "done"
        /\ sent' = sent /\ received' = received
    BY <1>4 DEF CheckResults
  <2>2. pipe[Shutdown] = <<>> /\ Len(<<>>) = 0
    BY <2>1 DEF ExitAtEnd
  <2>3. ASSUME NEW t \in Thread PROVE received[t] = NumMsgs
    <3>1. Delivered(t) = NumMsgs
      BY <2>1 DEF ExitLast, Sending, Delivered
    <3>2. Chain(<<>>, t, received[t], NumMsgs) /\ received[t] \in Nat
      BY <2>2, <3>1 DEF Chained, TypeOK
    <3>3. received[t] <= NumMsgs /\ \A n \in received[t] + 1 .. NumMsgs : FALSE
      BY <2>2, <3>2 DEF Chain
    <3>4. received[t] < NumMsgs => NumMsgs \in received[t] + 1 .. NumMsgs
      BY <3>2
    <3> QED
      BY <3>2, <3>3, <3>4
  <2> QED
    BY <2>1, <2>3 DEF P!End
<1>5. ASSUME NEW s \in Socket, Subscribe(s) \/ ReceiveExit(s) PROVE Same
  BY <1>5 DEF Subscribe, ReceiveExit
<1>6. CASE Bind \/ JoinThreads \/ Wake \/ SendExit \/ Finished \/ UNCHANGED vars
  <2>1. Same
    BY <1>6 DEF Bind, JoinThreads, Wake, SendExit, Finished, vars
  <2> QED
    BY <2>1
<1> QED
  BY <1>1, <1>2, <1>3, <1>4, <1>5, <1>6 DEF Next, P!Next

\* CLIENT/SERVER keeps its promises, however short the sleep: the program ends only
\* when every ping of every thread has been received, because the exit command follows
\* them through the one pipe (clientserver.cpp:15-18 and 119-127).
THEOREM ClientKeepsPinging == OnlyClient /\ Spec => KeepsPinging
<1>1. OnlyClient /\ Init => P!Init
  BY InPipeInit
<1>2. /\ OnlyClient /\ TypeOK /\ ExitLast /\ Sending /\ InPipe /\ [Next]_vars
      => [P!Next]_P!pvars
  BY ClientPingingStep DEF P!pvars
<1>3. OnlyClient => OnlyClient'
  BY DEF OnlyClient
<1> QED
  BY <1>1, <1>2, <1>3, InPipeAlways, PTL DEF Spec, KeepsPinging, P!Spec

-----------------------------------------------------------------------------
(***************************************************************************)
(* PUB/SUB: only the first pings of a thread are lost.                     *)
(***************************************************************************)

\* A pipe that holds the last n of the pings that thread t has put into it, where the
\* first of those continues what was received, if anything was.
Rest(t, q, d) ==
  /\ \A i \in 1 .. Len(q) : q[i] = Ping(t, d - Len(q) + i)
  /\ received[t] + Len(q) <= d
  /\ received[t] > 0 => received[t] + Len(q) = d
  /\ Len(q) > 0 \/ received[t] > 0 => t \in reached

OnlyRest ==
  /\ \A t \in Thread : Rest(t, pipe[t], Delivered(t))
  /\ \A i \in 1 .. Len(pipe[Shutdown]) : pipe[Shutdown][i] = Exit

\* The PUB program with pipes that hold all that a thread sends.
RoomyPub == Transports = {"pub"} /\ NumMsgs > 0 /\ NumMsgs <= Hwm

\* zmq_send on a PUB socket that has room.
LEMMA PubAppends ==
  ASSUME transport = "pub", TypeOK, NEW s \in Socket, NEW m, SendCommand(s, m)
  PROVE  /\ \A x \in Socket : x # s => pipe'[x] = pipe[x]
         /\ pipe[s] \in Seq(Msg) /\ Len(pipe[s]) \in Nat
         /\ s \in reached /\ Len(pipe[s]) < Hwm => pipe'[s] = Append(pipe[s], m)
         /\ pipe'[s] = pipe[s] \/ pipe'[s] = Append(pipe[s], m)
         /\ s \notin reached => pipe'[s] = pipe[s]
<1>1. pipe[s] \in Seq(Msg) /\ Len(pipe[s]) \in Nat
  BY LenProperties DEF TypeOK
<1> QED
  BY <1>1 DEF SendCommand, SendOrDrop, TypeOK

LEMMA OnlyRestStep ==
  ASSUME RoomyPub, transport = "pub", TypeOK, ExitLast, Sending, OnlyRest, [Next]_vars
  PROVE  OnlyRest'
<1> USE SignalingAssumption
<1>0. Shutdown \in Socket /\ \A t \in Thread : t \in Socket /\ t # Shutdown /\ SocketOf(t) = t
  BY DEF Socket, SocketOf
<1>00. ASSUME NEW t \in Thread
       PROVE  /\ pipe[t] \in Seq(Msg) /\ Len(pipe[t]) \in Nat /\ received[t] \in Nat
              /\ Delivered(t) \in Nat /\ sent[t] \in Nat
              /\ Rest(t, pipe[t], Delivered(t))
  BY <1>0, DeliveredNat, LenProperties DEF TypeOK, OnlyRest
<1>1. ASSUME NEW t \in Thread, NextPing(t) PROVE OnlyRest'
  <2>1. /\ pipe' = pipe /\ received' = received /\ reached' = reached
        /\ threadPc[t] = "head" /\ mainPc = "join"
    BY <1>1 DEF NextPing, ExitLast, TypeOK
  <2>2. keepGoing
    BY <2>1 DEF ExitLast
  <2>3. /\ sent' = [sent EXCEPT ![t] = @ + 1]
        /\ threadPc' = [threadPc EXCEPT ![t] = "send"]
    BY <1>1, <2>2 DEF NextPing
  <2>4. \A x \in Thread : Delivered(x)' = Delivered(x)
    <3>1. sent[t] + 1 - 1 = sent[t]
      BY <1>00
    <3> QED
      BY <2>1, <2>3, <3>1 DEF Delivered, TypeOK
  <2> QED
    BY <2>1, <2>4 DEF OnlyRest, Rest
<1>2. ASSUME NEW t \in Thread, SendPing(t) PROVE OnlyRest'
  <2>1. /\ SendCommand(t, Ping(t, sent[t])) /\ threadPc[t] = "send"
        /\ threadPc' = [threadPc EXCEPT ![t] = IF sent[t] >= NumMsgs THEN "done" ELSE "head"]
        /\ sent' = sent /\ received' = received /\ reached' = reached
    BY <1>0, <1>2 DEF SendPing
  <2>2. /\ \A x \in Socket : x # t => pipe'[x] = pipe[x]
        /\ t \in reached /\ Len(pipe[t]) < Hwm => pipe'[t] = Append(pipe[t], Ping(t, sent[t]))
        /\ t \notin reached => pipe'[t] = pipe[t]
    BY <1>0, <2>1, PubAppends
  <2>3. sent[t] \in 1 .. NumMsgs /\ Delivered(t) = sent[t] - 1 /\ Delivered(t)' = sent[t]
    BY <2>1 DEF Sending, Delivered, TypeOK
  <2>4. Rest(t, pipe[t], sent[t])' /\ Delivered(t)' = sent'[t]
    <3>0. Delivered(t)' = sent'[t]
      BY <2>1, <2>3
    <3>1. CASE t \in reached
      <4>1. Len(pipe[t]) < Hwm
        BY <1>00, <2>3 DEF Rest, RoomyPub
      <4>2. pipe'[t] = Append(pipe[t], Ping(t, sent[t]))
        BY <2>2, <3>1, <4>1
      <4>3. /\ Len(pipe'[t]) = Len(pipe[t]) + 1
            /\ \A i \in 1 .. Len(pipe[t]) : pipe'[t][i] = pipe[t][i]
            /\ pipe'[t][Len(pipe[t]) + 1] = Ping(t, sent[t])
        BY <1>00, <4>2, AppendProperties
      <4>4. ASSUME NEW i \in 1 .. Len(pipe'[t])
            PROVE  pipe'[t][i] = Ping(t, sent[t] - Len(pipe'[t]) + i)
        <5>1. CASE i \in 1 .. Len(pipe[t])
          <6>1. sent[t] - Len(pipe'[t]) + i = Delivered(t) - Len(pipe[t]) + i
            BY <1>00, <2>3, <4>3
          <6> QED
            BY <1>00, <4>3, <5>1, <6>1 DEF Rest
        <5>2. CASE i = Len(pipe[t]) + 1
          <6>1. sent[t] - Len(pipe'[t]) + i = sent[t]
            BY <1>00, <4>3, <5>2
          <6> QED
            BY <4>3, <5>2, <6>1
        <5> QED
          BY <1>00, <4>3, <5>1, <5>2
      <4>5. /\ received[t] + Len(pipe'[t]) <= sent[t]
            /\ received[t] > 0 => received[t] + Len(pipe'[t]) = sent[t]
        <5>1. /\ received[t] + Len(pipe[t]) <= Delivered(t)
              /\ received[t] > 0 => received[t] + Len(pipe[t]) = Delivered(t)
          BY <1>00 DEF Rest
        <5>2. Delivered(t) + 1 = sent[t]
          BY <2>3
        <5> QED
          BY <1>00, <4>3, <5>1, <5>2
      <4> QED
        BY <2>1, <3>0, <3>1, <4>4, <4>5 DEF Rest
    <3>2. CASE t \notin reached
      <4>1. received[t] = 0 /\ Len(pipe[t]) = 0 /\ pipe'[t] = pipe[t]
        BY <1>00, <2>2, <3>2 DEF Rest
      <4> QED
        BY <2>1, <2>3, <3>0, <4>1 DEF Rest
    <3> QED
      BY <3>1, <3>2
  <2>5. ASSUME NEW x \in Thread, x # t PROVE Rest(x, pipe[x], Delivered(x))'
    <3>1. Delivered(x)' = Delivered(x) /\ pipe'[x] = pipe[x]
      BY <1>0, <2>1, <2>2, <2>5 DEF Delivered, TypeOK
    <3> QED
      BY <1>00, <2>1, <3>1 DEF Rest
  <2>6. pipe'[Shutdown] = pipe[Shutdown]
    BY <1>0, <2>2
  <2> QED
    BY <2>4, <2>5, <2>6 DEF OnlyRest
<1>3. ASSUME NEW s \in Socket, ReceivePing(s) PROVE OnlyRest'
  <2>1. /\ Received(s, "P") /\ sent' = sent /\ threadPc' = threadPc /\ reached' = reached
    BY <1>3 DEF ReceivePing
  <2>2. /\ \A x \in Socket : x # s => pipe'[x] = pipe[x]
        /\ Len(pipe[s]) \in Nat \ {0} /\ Len(pipe'[s]) = Len(pipe[s]) - 1
        /\ \A i \in 1 .. Len(pipe'[s]) : pipe'[s][i] = pipe[s][i + 1]
        /\ pipe[s][1].command = "P" /\ pipe[s][1] = Head(pipe[s])
    BY <2>1, ReceiveTakes DEF TypeOK
  <2>3. s # Shutdown
    BY <2>2 DEF OnlyRest, Exit
  <2>4. s \in Thread
    BY <2>3 DEF Socket
  <2>5. Head(pipe[s]) = Ping(s, Delivered(s) - Len(pipe[s]) + 1)
    <3>1. 1 \in 1 .. Len(pipe[s])
      BY <2>2
    <3> QED
      BY <1>00, <2>2, <2>4, <3>1 DEF Rest
  <2>6. PICK n \in Nat : n = Delivered(s) - Len(pipe[s]) + 1 /\ n > received[s]
    BY <1>00, <2>2, <2>4 DEF Rest
  <2>7. received' = [received EXCEPT ![s] = n]
    <3>1. Head(pipe[s]).voidArg = s /\ Head(pipe[s]).longArg = n
      BY <2>5, <2>6 DEF Ping
    <3> QED
      BY <1>3, <2>6, <3>1 DEF ReceivePing
  <2>8. \A x \in Thread : Delivered(x)' = Delivered(x)
    BY <2>1 DEF Delivered
  <2>9. Rest(s, pipe[s], Delivered(s))'
    <3>1. received'[s] = n /\ n + Len(pipe'[s]) = Delivered(s)
      BY <1>00, <2>2, <2>4, <2>6, <2>7 DEF TypeOK
    <3>2. ASSUME NEW i \in 1 .. Len(pipe'[s])
          PROVE  pipe'[s][i] = Ping(s, Delivered(s) - Len(pipe'[s]) + i)
      <4>1. /\ i + 1 \in 1 .. Len(pipe[s])
            /\ Delivered(s) - Len(pipe'[s]) + i = Delivered(s) - Len(pipe[s]) + (i + 1)
        BY <1>00, <2>2, <2>4
      <4> QED
        BY <1>00, <2>2, <2>4, <4>1 DEF Rest
    <3>3. s \in reached
      BY <1>00, <2>2, <2>4 DEF Rest
    <3> QED
      BY <1>00, <2>1, <2>2, <2>4, <2>8, <3>1, <3>2, <3>3 DEF Rest
  <2>10. ASSUME NEW x \in Thread, x # s PROVE Rest(x, pipe[x], Delivered(x))'
    <3>1. pipe'[x] = pipe[x] /\ received'[x] = received[x] /\ Delivered(x)' = Delivered(x)
      BY <1>0, <2>2, <2>7, <2>8, <2>10 DEF TypeOK
    <3> QED
      BY <1>00, <2>1, <3>1 DEF Rest
  <2>11. pipe'[Shutdown] = pipe[Shutdown]
    BY <1>0, <2>2, <2>3
  <2> QED
    BY <2>4, <2>8, <2>9, <2>10, <2>11 DEF OnlyRest
<1>4. ASSUME NEW s \in Socket, ReceiveExit(s) PROVE OnlyRest'
  <2>1. Received(s, "X") /\ UNCHANGED <<sent, received, threadPc, reached>>
    BY <1>4 DEF ReceiveExit
  <2>2. /\ \A x \in Socket : x # s => pipe'[x] = pipe[x]
        /\ Len(pipe[s]) \in Nat \ {0} /\ Len(pipe'[s]) = Len(pipe[s]) - 1
        /\ \A i \in 1 .. Len(pipe'[s]) : pipe'[s][i] = pipe[s][i + 1]
        /\ pipe[s][1].command = "X"
    BY <2>1, ReceiveTakes DEF TypeOK
  <2>3. ASSUME s \in Thread PROVE FALSE
    <3>1. 1 \in 1 .. Len(pipe[s])
      BY <2>2
    <3>2. pipe[s][1] = Ping(s, Delivered(s) - Len(pipe[s]) + 1)
      BY <1>00, <2>3, <3>1 DEF Rest
    <3> QED
      BY <2>2, <3>2 DEF Ping
  <2>4. s = Shutdown
    BY <2>3 DEF Socket
  <2>5. \A i \in 1 .. Len(pipe'[s]) : pipe'[s][i] = Exit
    BY <2>2, <2>4 DEF OnlyRest
  <2>6. \A x \in Thread : Delivered(x)' = Delivered(x) /\ pipe'[x] = pipe[x]
    BY <1>0, <2>1, <2>2, <2>4 DEF Delivered
  <2> QED
    BY <2>1, <2>4, <2>5, <2>6 DEF OnlyRest, Rest
<1>5. CASE SendExit
  <2>1. SendCommand(Shutdown, Exit) /\ UNCHANGED <<sent, received, threadPc, reached>>
    BY <1>5 DEF SendExit
  <2>2. /\ \A x \in Socket : x # Shutdown => pipe'[x] = pipe[x]
        /\ pipe[Shutdown] \in Seq(Msg) /\ Len(pipe[Shutdown]) \in Nat
        /\ pipe'[Shutdown] = pipe[Shutdown] \/ pipe'[Shutdown] = Append(pipe[Shutdown], Exit)
    BY <1>0, <2>1, PubAppends
  <2>3. Exit \in Msg
    BY DEF Msg
  <2>4. \A i \in 1 .. Len(pipe'[Shutdown]) : pipe'[Shutdown][i] = Exit
    BY <2>2, <2>3, AppendProperties DEF OnlyRest
  <2>5. \A x \in Thread : Delivered(x)' = Delivered(x) /\ pipe'[x] = pipe[x]
    BY <1>0, <2>1, <2>2 DEF Delivered
  <2> QED
    BY <2>1, <2>4, <2>5 DEF OnlyRest, Rest
<1>6. ASSUME NEW s \in Socket, Subscribe(s) PROVE OnlyRest'
  <2>1. UNCHANGED <<sent, received, threadPc, pipe>> /\ reached \subseteq reached'
    BY <1>6 DEF Subscribe
  <2> QED
    BY <2>1 DEF OnlyRest, Rest, Delivered
<1>7. CASE Bind \/ JoinThreads \/ Wake \/ CheckResults \/ Finished \/ UNCHANGED vars
  <2>1. UNCHANGED <<sent, received, threadPc, pipe, reached>>
    BY <1>7 DEF Bind, JoinThreads, Wake, CheckResults, Finished, vars
  <2> QED
    BY <2>1 DEF OnlyRest, Rest, Delivered
<1> QED
  BY <1>1, <1>2, <1>3, <1>4, <1>5, <1>6, <1>7 DEF Next

LEMMA OnlyRestThen ==
  ASSUME transport = "pub", TypeOK, Sending, OnlyRest
  PROVE  OnlyInitialLost
<1> SUFFICES ASSUME NEW t \in Thread
             PROVE  /\ \A i \in 1 .. Len(pipe[t]) - 1 :
                          pipe[t][i + 1].longArg = pipe[t][i].longArg + 1
                    /\ pipe[t] # <<>> /\ received[t] > 0 =>
                          Head(pipe[t]).longArg = received[t] + 1
  BY DEF OnlyInitialLost, SocketOf
<1>1. /\ pipe[t] \in Seq(Msg) /\ Len(pipe[t]) \in Nat /\ received[t] \in Nat
      /\ Delivered(t) \in Nat /\ Rest(t, pipe[t], Delivered(t))
  BY DeliveredNat, LenProperties DEF TypeOK, OnlyRest, Socket
<1>2. ASSUME NEW i \in 1 .. Len(pipe[t])
      PROVE  pipe[t][i].longArg = Delivered(t) - Len(pipe[t]) + i
  <2>1. pipe[t][i] = Ping(t, Delivered(t) - Len(pipe[t]) + i)
    BY <1>1 DEF Rest
  <2> QED
    BY <2>1 DEF Ping
<1>3. ASSUME NEW i \in 1 .. Len(pipe[t]) - 1
      PROVE  pipe[t][i + 1].longArg = pipe[t][i].longArg + 1
  <2>1. i \in 1 .. Len(pipe[t]) /\ i + 1 \in 1 .. Len(pipe[t])
    BY <1>1
  <2>2. Delivered(t) - Len(pipe[t]) + (i + 1) = (Delivered(t) - Len(pipe[t]) + i) + 1
    BY <1>1
  <2> QED
    BY <1>2, <2>1, <2>2
<1>4. ASSUME pipe[t] # <<>>, received[t] > 0 PROVE Head(pipe[t]).longArg = received[t] + 1
  <2>1. Head(pipe[t]) = pipe[t][1] /\ 1 \in 1 .. Len(pipe[t])
    BY <1>1, <1>4, HeadTailProperties, EmptySeq
  <2>2. received[t] + Len(pipe[t]) = Delivered(t)
    BY <1>1, <1>4 DEF Rest
  <2>3. Delivered(t) - Len(pipe[t]) + 1 = received[t] + 1
    BY <1>1, <2>2
  <2> QED
    BY <1>2, <2>1, <2>3
<1> QED
  BY <1>3, <1>4

\* Of the pings that a thread sends with a PUB socket only the first can be lost: once
\* one got through, the others follow it without a gap, if the pipe holds all that the
\* thread sends (pubsub.cpp:32, common.h:132-142).
THEOREM PubLosesOnlyFirst == RoomyPub /\ Spec => []OnlyInitialLost
<1>1. RoomyPub /\ Init => ExitLast /\ Sending /\ OnlyRest
  <2> SUFFICES ASSUME RoomyPub, Init PROVE ExitLast /\ Sending /\ OnlyRest
    OBVIOUS
  <2>1. (\A s \in Socket : pipe[s] = <<>>) /\ Len(<<>>) = 0
    BY DEF Init
  <2>2. \A t \in Thread : t \in Socket /\ received[t] = 0 /\ Delivered(t) = 0
    BY DEF Init, Delivered, Socket
  <2>3. OnlyRest
    BY <2>1, <2>2 DEF OnlyRest, Rest, Socket
  <2> QED
    BY <2>3, SendingInit DEF RoomyPub
<1>2. RoomyPub /\ TypeOK => transport = "pub"
  BY DEF RoomyPub, TypeOK
<1>3. /\ RoomyPub /\ TypeOK /\ ExitLast /\ Sending /\ OnlyRest /\ [Next]_vars
      => RoomyPub' /\ ExitLast' /\ Sending' /\ OnlyRest'
  BY <1>2, ExitLastStep, SendingStep, OnlyRestStep DEF RoomyPub
<1>4. RoomyPub /\ TypeOK /\ Sending /\ OnlyRest => OnlyInitialLost
  BY <1>2, OnlyRestThen
<1> QED
  BY <1>1, <1>3, <1>4, TypeCorrect, PTL DEF Spec

=============================================================================
