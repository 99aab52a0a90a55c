---------------------------- MODULE PairProofs ----------------------------
(***************************************************************************)
(* Proofs about Pairs, for any number of threads and messages: the steps   *)
(* preserve the invariant of PairPipeProofs, and what follows from it.     *)
(***************************************************************************)
EXTENDS PairPipeProofs

-----------------------------------------------------------------------------
(***************************************************************************)
(* What the main loop's end of a pipe has to read.                         *)
(***************************************************************************)

\* The four things that it can have.
LEMMA Shapes ==
  ASSUME NEW p \in Pipe, PairsAssumption
  PROVE  /\ ~In(p, <<>>) /\ In(p, <<p>>) /\ ~In(p, <<Delimiter>>) /\ In(p, <<p, Delimiter>>)
         /\ ~In(Delimiter, <<p>>) /\ In(Delimiter, <<Delimiter>>) /\ In(Delimiter, <<p, Delimiter>>)
         /\ Append(<<>>, p) = <<p>> /\ Append(<<>>, Delimiter) = <<Delimiter>>
         /\ Append(<<p>>, Delimiter) = <<p, Delimiter>>
         /\ Tail(<<p>>) = <<>> /\ Tail(<<Delimiter>>) = <<>> /\ Tail(<<p, Delimiter>>) = <<Delimiter>>
         /\ Head(<<p>>) = p /\ Head(<<Delimiter>>) = Delimiter /\ Head(<<p, Delimiter>>) = p
         /\ p # Delimiter
<1> DEFINE d == Delimiter
<1>1. p # d
  BY PipeFacts
<1> HIDE DEF d
<1>2. Len(<<>>) = 0 /\ Len(<<p>>) = 1 /\ Len(<<d>>) = 1 /\ Len(<<p, d>>) = 2
  OBVIOUS
<1>3. <<p>>[1] = p /\ <<d>>[1] = d /\ <<p, d>>[1] = p /\ <<p, d>>[2] = d
  OBVIOUS
<1>4. 1 .. 0 = {} /\ 1 .. 1 = {1} /\ 1 .. 2 = {1, 2}
  OBVIOUS
<1>5. /\ ~In(p, <<>>) /\ In(p, <<p>>) /\ ~In(p, <<d>>) /\ In(p, <<p, d>>)
      /\ ~In(d, <<p>>) /\ In(d, <<d>>) /\ In(d, <<p, d>>)
  BY <1>1, <1>2, <1>3, <1>4 DEF In
<1>6. Append(<<>>, p) = <<p>> /\ Append(<<>>, d) = <<d>> /\ Append(<<p>>, d) = <<p, d>>
  <2>1. <<>> \in Seq({p, d}) /\ <<p>> \in Seq({p, d}) /\ <<d>> \in Seq({p, d})
        /\ <<p, d>> \in Seq({p, d})
    OBVIOUS
  <2>2. Append(<<>>, p) = <<p>>
    BY <2>1, <1>2, <1>3, <1>4, AppendProperties, SeqEqual
  <2>3. Append(<<>>, d) = <<d>>
    BY <2>1, <1>2, <1>3, <1>4, AppendProperties, SeqEqual
  <2>4. Append(<<p>>, d) = <<p, d>>
    <3> DEFINE a == Append(<<p>>, d)
    <3>1. a \in Seq({p, d}) /\ Len(a) = 2 /\ a[1] = p /\ a[2] = d
      BY <2>1, <1>2, <1>3, AppendProperties
    <3> HIDE DEF a
    <3>2. a = <<p, d>>
      BY <2>1, <3>1, <1>2, <1>3, <1>4, SeqEqual
    <3> QED
      BY <3>2 DEF a
  <2> QED
    BY <2>2, <2>3, <2>4
<1>7. /\ Tail(<<p>>) = <<>> /\ Tail(<<d>>) = <<>> /\ Tail(<<p, d>>) = <<d>>
      /\ Head(<<p>>) = p /\ Head(<<d>>) = d /\ Head(<<p, d>>) = p
  OBVIOUS
<1> QED
  BY <1>1, <1>5, <1>6, <1>7 DEF d

\* A message that is received is that of the pipe which the main loop's PAIR has.
LEMMA ReceivedFacts ==
  ASSUME PairsAssumption, TypeOK, Handshake, Data, NEW m \in Pipe, Received(m)
  PROVE  /\ attached[Loop] = m /\ WasSent(m) /\ In(m, unread[m][Loop])
         /\ ~Mail(Loop, "bind", m) /\ end[m][Loop] \in Live
         /\ unread[m][Loop] \in {<<m>>, <<m, Delimiter>>}
         /\ unread' = [unread EXCEPT ![m][Loop] = Tail(@)]
         /\ UNCHANGED <<sent, pc, end, attached, mailbox, refused>>
<1>1. PICK p : p = attached[Loop]
  OBVIOUS
<1>2. /\ p # None /\ unread[p][Loop] # <<>> /\ Head(unread[p][Loop]) = m
      /\ unread' = [unread EXCEPT ![p][Loop] = Tail(@)]
      /\ UNCHANGED <<sent, pc, end, attached, mailbox, refused>>
  BY <1>1 DEF Received, Readable, callVars
<1>3. p \in Pipe
  BY <1>1, <1>2 DEF TypeOK, User
<1>4. /\ unread[p][Loop] \in {<<>>, <<p>>, <<Delimiter>>, <<p, Delimiter>>}
      /\ In(p, unread[p][Loop]) => WasSent(p)
      /\ end[p][Loop] \in Live /\ ~Mail(Loop, "bind", p)
  BY <1>1, <1>3 DEF Data
<1>5. m # Delimiter
  BY Shapes
<1>6. unread[p][Loop] \in {<<p>>, <<p, Delimiter>>} /\ m = p /\ In(p, unread[p][Loop])
  BY <1>2, <1>3, <1>4, <1>5, Shapes
<1> QED
  BY <1>1, <1>2, <1>4, <1>6

-----------------------------------------------------------------------------
(***************************************************************************)
(* The program's own variables.                                            *)
(***************************************************************************)

ProgOK ==
  /\ flags \in Flags
  /\ mainPc \in {"join", "reap", "done", "aborted"} /\ loopPc \in {"start", "poll", "closed"}
  /\ pc \in [Socket -> Place]
  /\ ready \in [Socket -> BOOLEAN] /\ holder \in Socket \cup {None}
  /\ sent \in [Socket -> Nat] /\ \A s \in Socket : sent[s] = 0 \/ <<s, sent[s]>> \in Pipe
  /\ received \in [Socket -> Nat] /\ failed \in BOOLEAN

\* The type invariant's two parts.
LEMMA TypedParts == TypeOK <=> ProgOK /\ PipesOK
BY DEF TypeOK, ProgOK, PipesOK, CmdType, Place

\* Pings that can be sent.
LEMMA PingPipe ==
  ASSUME PairsAssumption, NEW t \in Thread, NEW n \in 1 .. NumMsgs \cup {1}
  PROVE  <<t, n>> \in Pipe /\ n \in Nat /\ n > 0 /\ <<t, n>> # Exit /\ t \in Socket
BY DEF Pipe, Exit, Socket

\* The exit command is sent by a thread that is not idle any more.
LEMMA ExitFacts ==
  ASSUME PairsAssumption, TypeOK, Places, Handshake, Data, ReceiveExit
  PROVE  /\ pc[Shutdown] # "idle" /\ attached[Loop] = Exit /\ ~Mail(Loop, "bind", Exit)
         /\ WasSent(Exit) /\ \A t \in Thread : pc[t] = "ended"
<1>1. Exit \in Pipe /\ Exit[1] = Shutdown /\ Exit[2] = 1
  BY DEF Exit, Pipe
<1>2. WasSent(Exit) /\ attached[Loop] = Exit /\ ~Mail(Loop, "bind", Exit)
  BY <1>1, ReceivedFacts DEF ReceiveExit
<1>3. pc[Shutdown] # "idle"
  BY <1>1, <1>2 DEF WasSent, Since, Places
<1> QED
  BY <1>2, <1>3 DEF Places

\* Its steps keep the variables in their sets, and the threads in their places.
LEMMA ProgStep ==
  ASSUME PairsAssumption, TypeOK, Places, Handshake, Data, Next
  PROVE  ProgOK' /\ Places'
<1>0. ProgOK /\ Shutdown \in Socket /\ Thread \subseteq Socket /\ Shutdown \notin Thread
  BY PairsAssumption, TypedParts DEF Socket
<1> USE DEF ProgOK
<1>1. ASSUME NEW s \in Socket, NextPing(s) PROVE ProgOK' /\ Places'
  <2>1. pc[s] = "head" /\ s \in Thread /\ loopPc # "closed"
    BY <1>1, HeadOpen DEF NextPing, At, Places, Socket
  <2>2. /\ sent' = [sent EXCEPT ![s] = sent[s] + 1] /\ pc' = [pc EXCEPT ![s] = "lock"]
        /\ ready' = [ready EXCEPT ![s] = FALSE]
        /\ UNCHANGED <<flags, mainPc, loopPc, holder, received, failed>>
    BY <1>1, <2>1 DEF NextPing, To
  <2>3. sent[s] \in Nat /\ (sent[s] = 0 \/ sent[s] < NumMsgs) /\ NumMsgs \in Nat
    BY <1>0, <2>1, PairsAssumption DEF Places
  <2>4. sent[s] + 1 \in 1 .. NumMsgs \cup {1}
    BY <2>3
  <2>5. <<s, sent[s] + 1>> \in Pipe
    BY <2>1, <2>4, PingPipe
  <2>6. ProgOK'
    BY <1>0, <2>2, <2>3, <2>5 DEF Place
  <2>7. sent'[s] > 0 /\ pc'[s] = "lock"
    BY <1>0, <2>2, <2>3
  <2>8. \A r \in Socket : r # s => sent'[r] = sent[r] /\ pc'[r] = pc[r]
    BY <1>0, <2>2
  <2>9. pc[Shutdown] = "idle"
    BY <2>1 DEF Places
  <2>10. Places'
    BY <1>0, <2>1, <2>2, <2>7, <2>8, <2>9 DEF Places
  <2> QED
    BY <2>6, <2>10
\* A thread goes from one place of sendCommand to another.
<1>2. ASSUME NEW s \in Socket, NEW where \in Place \ {"idle", "head"},
             pc[s] \notin {"idle", "head", "ended"},
             where = "ended" /\ s \in Thread => sent[s] >= NumMsgs,
             pc' = [pc EXCEPT ![s] = where], sent' = sent, mainPc' \in {mainPc, "aborted"},
             loopPc' = loopPc
      PROVE  Places' /\ pc' \in [Socket -> Place]
  <2>1. pc'[s] = where /\ \A r \in Socket : r # s => pc'[r] = pc[r]
    BY <1>0, <1>2
  <2>2. \A t \in Thread : pc'[t] = "ended" \/ pc[t] # "ended"
    BY <1>0, <1>2, <2>1
  <2>3. pc' \in [Socket -> Place]
    BY <1>0, <1>2
  <2>4. pc'[Shutdown] = "idle" <=> pc[Shutdown] = "idle"
    BY <1>0, <1>2, <2>1
  <2>5. \A t \in Thread : /\ pc'[t] # "idle" /\ (pc'[t] = "head" <=> pc[t] = "head")
                          /\ pc'[t] = "ended" => sent[t] >= NumMsgs
    BY <1>0, <1>2, <2>1 DEF Places
  <2>6. pc'[Shutdown] # "head"
    BY <1>0, <1>2, <2>1 DEF Places
  <2>7. \A t \in Thread : pc[t] = "ended" => pc'[t] = "ended"
    BY <1>0, <1>2, <2>1
  <2> QED
    BY <1>2, <2>3, <2>4, <2>5, <2>6, <2>7 DEF Places
\* A step that leaves pc and sent alone.
<1>3. ASSUME pc' = pc, sent' = sent, mainPc' = mainPc \/ mainPc' = "done",
             loopPc' = "closed" => pc[Shutdown] # "idle"
      PROVE  Places'
  BY <1>3 DEF Places
<1>4. ASSUME NEW s \in Socket, Lock(s) PROVE ProgOK' /\ Places'
  <2>1. /\ pc[s] = "lock" /\ pc' = [pc EXCEPT ![s] = "connect"] /\ sent' = sent /\ mainPc' = mainPc
        /\ loopPc' = loopPc
    BY <1>4 DEF Lock, At, To
  <2>2. Places' /\ pc' \in [Socket -> Place]
    BY <1>2, <2>1 DEF Place
  <2> QED
    BY <1>0, <1>4, <2>2 DEF Lock, To
<1>5. ASSUME NEW s \in Socket, Drained(s) PROVE ProgOK' /\ Places'
  <2>1. Places'
    BY <1>3, <1>5 DEF Drained, progVars, Places
  <2> QED
    BY <1>0, <1>5, <2>1 DEF Drained, progVars
<1>6. ASSUME NEW s \in Socket, Connect(s) PROVE ProgOK' /\ Places'
  <2>1. /\ pc[s] = "connect" /\ sent' = sent /\ mainPc' = mainPc /\ loopPc' = loopPc
        /\ \E where \in {"poll", "send"} : pc' = [pc EXCEPT ![s] = where]
    BY <1>6 DEF Connect, At, To, After, progVars
  <2>2. Places' /\ pc' \in [Socket -> Place]
    BY <1>2, <2>1 DEF Place
  <2> QED
    BY <1>0, <1>6, <2>2 DEF Connect, To, progVars
<1>7. ASSUME NEW s \in Socket, Poll(s) PROVE ProgOK' /\ Places'
  <2>1. /\ pc[s] = "poll" /\ sent' = sent /\ mainPc' = mainPc /\ loopPc' = loopPc
        /\ pc' = [pc EXCEPT ![s] = "send"]
    BY <1>7 DEF Poll, At, To, After, progVars
  <2>2. Places' /\ pc' \in [Socket -> Place]
    BY <1>2, <2>1 DEF Place
  <2> QED
    BY <1>0, <1>7, <2>2 DEF Poll, To, progVars
<1>8. ASSUME NEW s \in Socket, Send(s) PROVE ProgOK' /\ Places'
  <2>1. /\ pc[s] = "send" /\ sent' = sent /\ mainPc' = mainPc /\ loopPc' = loopPc
        /\ pc' = [pc EXCEPT ![s] = "disconnect"]
    BY <1>8 DEF Send, At, To, After, progVars
  <2>2. Places' /\ pc' \in [Socket -> Place]
    BY <1>2, <2>1 DEF Place
  <2> QED
    BY <1>0, <1>8, <2>2 DEF Send, To, progVars
<1>9. ASSUME NEW s \in Socket, SendFails(s) PROVE ProgOK' /\ Places'
  <2>1. /\ pc[s] = "send" /\ sent' = sent /\ mainPc' \in {mainPc, "aborted"} /\ loopPc' = loopPc
        /\ pc' = [pc EXCEPT ![s] = "send"]
    BY <1>9 DEF SendFails, At, To
  <2>2. Places' /\ pc' \in [Socket -> Place]
    BY <1>2, <2>1 DEF Place
  <2> QED
    BY <1>0, <1>9, <2>1, <2>2 DEF SendFails, To
<1>10. ASSUME NEW s \in Socket, Disconnect(s) PROVE ProgOK' /\ Places'
  <2>1. /\ pc[s] = "disconnect" /\ sent' = sent /\ mainPc' = mainPc /\ loopPc' = loopPc
        /\ holder' = None /\ ready' = [ready EXCEPT ![s] = FALSE]
        /\ UNCHANGED <<flags, received, failed>>
        /\ pc' = [pc EXCEPT ![s] = IF s \in Thread /\ sent[s] < NumMsgs THEN "head" ELSE "ended"]
    BY <1>10 DEF Disconnect, At, To
  <2>2. CASE ~(s \in Thread /\ sent[s] < NumMsgs)
    <3>1. s \in Thread => sent[s] >= NumMsgs
      BY <1>0, <2>2, PairsAssumption
    <3>2. pc' = [pc EXCEPT ![s] = "ended"]
      BY <2>1, <2>2
    <3>3. Places' /\ pc' \in [Socket -> Place]
      BY <1>2, <2>1, <3>1, <3>2 DEF Place
    <3> QED
      BY <1>0, <2>1, <3>3
  <2>3. CASE s \in Thread /\ sent[s] < NumMsgs
    <3>1. pc' = [pc EXCEPT ![s] = "head"]
      BY <2>1, <2>3
    <3>2. pc' \in [Socket -> Place] /\ pc'[s] = "head" /\ \A r \in Socket : r # s => pc'[r] = pc[r]
      BY <1>0, <3>1 DEF Place
    <3>3. pc[Shutdown] = "idle" /\ Shutdown # s
      BY <1>0, <2>1, <2>3 DEF Places
    <3>4. Places'
      BY <1>0, <2>1, <2>3, <3>2, <3>3 DEF Places
    <3> QED
      BY <1>0, <2>1, <3>2, <3>4
  <2> QED
    BY <2>2, <2>3
<1>11. ASSUME pc' = pc, sent' = sent, mainPc' = mainPc, loopPc' = loopPc, UNCHANGED <<ready, progVars>>
       PROVE  ProgOK' /\ Places'
  BY <1>0, <1>11 DEF progVars, Places
<1>12. ASSUME NEW x \in User, ReadDelimiter(x) PROVE ProgOK' /\ Places'
  BY <1>11, <1>12 DEF ReadDelimiter, progVars, callVars
<1>13. ASSUME NEW x \in User, NEW p \in Pipe, ProcessPipeTerm(x, p) PROVE ProgOK' /\ Places'
  BY <1>11, <1>13 DEF ProcessPipeTerm, progVars, callVars
<1>14. ASSUME NEW x \in User, NEW p \in Pipe, ProcessPipeTermAck(x, p) PROVE ProgOK' /\ Places'
  BY <1>11, <1>14 DEF ProcessPipeTermAck, progVars, callVars
<1>15. ASSUME NEW s \in Socket, NEW p \in Pipe, Reap(s, p) PROVE ProgOK' /\ Places'
  BY <1>11, <1>15 DEF Reap, progVars, callVars
<1>16. ASSUME NEW p \in Pipe, ProcessBind(p) PROVE ProgOK' /\ Places'
  BY <1>11, <1>16 DEF ProcessBind, progVars, callVars
<1>17. CASE Bind
  <2>1. Places'
    BY <1>3, <1>17 DEF Bind, callVars
  <2> QED
    BY <1>0, <1>17, <2>1 DEF Bind, callVars
<1>18. CASE ReceiveExit
  <2>1. Places'
    BY <1>3, <1>18, ExitFacts DEF ReceiveExit, Received, callVars
  <2> QED
    BY <1>0, <1>18, <2>1 DEF ReceiveExit, Received, callVars
<1>19. ASSUME NEW t \in Thread, NEW n \in 1 .. NumMsgs \cup {1}, ReceivePing(t, n)
       PROVE  ProgOK' /\ Places'
  <2>1. Places'
    BY <1>3, <1>19 DEF ReceivePing, Received, callVars, Places
  <2>2. n \in Nat
    BY PingPipe
  <2> QED
    BY <1>0, <1>19, <2>1, <2>2 DEF ReceivePing, Received, callVars
<1>20. CASE JoinThreads
  <2>1. pc[Shutdown] = "idle" /\ loopPc # "closed" /\ \A t \in Thread : pc[t] = "ended"
    BY <1>20 DEF JoinThreads, Places
  <2>2. /\ sent' = [sent EXCEPT ![Shutdown] = 1] /\ pc' = [pc EXCEPT ![Shutdown] = "lock"]
        /\ ready' = [ready EXCEPT ![Shutdown] = FALSE] /\ mainPc' = "reap"
        /\ UNCHANGED <<flags, loopPc, holder, received, failed>>
    BY <1>20 DEF JoinThreads, To
  <2>3. <<Shutdown, 1>> \in Pipe
    BY DEF Pipe
  <2>4. ProgOK'
    BY <1>0, <2>2, <2>3 DEF Place
  <2>5. \A t \in Thread : pc'[t] = pc[t] /\ sent'[t] = sent[t]
    BY <1>0, <2>2
  <2>6. pc'[Shutdown] = "lock" /\ sent'[Shutdown] = 1
    BY <1>0, <2>2
  <2>7. Places'
    BY <2>1, <2>2, <2>5, <2>6 DEF Places
  <2> QED
    BY <2>4, <2>7
<1>21. CASE CheckResults
  <2>1. Places'
    BY <1>3, <1>21 DEF CheckResults, callVars, Places
  <2> QED
    BY <1>0, <1>21, <2>1 DEF CheckResults, callVars
<1>22. Loop \in User /\ Socket \subseteq User
  BY DEF User
<1> QED
  BY <1>1, <1>4, <1>5, <1>6, <1>7, <1>8, <1>9, <1>10, <1>12, <1>13, <1>14, <1>15, <1>16, <1>17,
     <1>18, <1>19, <1>20, <1>21, <1>22 DEF Next, ThreadStep, LoopStep

-----------------------------------------------------------------------------
(***************************************************************************)
(* What a shift does.                                                      *)
(***************************************************************************)

\* The end that it moves.
LEMMA ShiftEnds ==
  ASSUME PairsAssumption, PipesOK, Handshake,
         NEW x, NEW p, NEW take, NEW to, Shift(x, p, take, to)
  PROVE  /\ p \in Pipe /\ x \in Ends(p) /\ x \in User
         /\ Goal(end[p][x], end[p][Other(p, x)], take, to)
         /\ Agree(end[p][x], end[p][Other(p, x)]) /\ Takes(x, take, p)
         /\ Asks(end[p][x], to) => end[p][Other(p, x)] # "gone"
         /\ take = "bind" => x = Loop
         /\ take = "pipe_term_ack" => end[p][x] \notin {"active", "waiting", "delimited", "gone"}
         /\ ~(Asks(end[p][x], to) /\ Answers(end[p][x], to))
         /\ to \in EndState /\ (to = "none" <=> end[p][x] = "none")
         /\ to = "active" => end[p][x] = "active"
         /\ end[p][x] = "gone" => to = "gone"
         /\ end' = [q \in Pipe |-> end'[q]] /\ \A q \in Pipe : end'[q] \in [Ends(q) -> EndState]
         /\ \A q \in Pipe : \A y \in Ends(q) :
              end'[q][y] = IF q = p /\ y = x THEN to ELSE end[q][y]
<1>1. /\ p \in Pipe /\ x \in Ends(p) /\ Move(x, p, take, to)
      /\ Goal(end[p][x], end[p][Other(p, x)], take, to) /\ Takes(x, take, p)
  BY DEF Shift, Move
<1>2. x \in User /\ Talk(p, x)
  BY <1>1, EndFacts DEF Handshake
<1>3. Agree(end[p][x], end[p][Other(p, x)])
  BY <1>2 DEF Talk
<1>4. /\ take = "pipe_term" => TermDue(end[p][x], end[p][Other(p, x)])
      /\ take = "pipe_term_ack" => AckDue(end[p][x], end[p][Other(p, x)])
      /\ take = "bind" => x = Loop
  BY <1>1, TakenDue DEF Handshake, Talks
<1>5. take = "pipe_term_ack" => end[p][x] \notin {"active", "waiting", "delimited", "gone"}
  BY <1>3, <1>4 DEF Agree, Half, AckDue
<1>6. /\ to \in EndState /\ (to = "none" <=> end[p][x] = "none")
      /\ to = "active" => end[p][x] = "active"
      /\ end[p][x] = "gone" => to = "gone"
      /\ ~(Asks(end[p][x], to) /\ Answers(end[p][x], to))
      /\ Asks(end[p][x], to) => end[p][Other(p, x)] # "gone"
  BY <1>1, <1>3, <1>4, Due
<1>7. /\ end' = [q \in Pipe |-> end'[q]] /\ \A q \in Pipe : end'[q] \in [Ends(q) -> EndState]
      /\ \A q \in Pipe : \A y \in Ends(q) :
           end'[q][y] = IF q = p /\ y = x THEN to ELSE end[q][y]
  BY <1>1, <1>6, MoveEnds
<1> QED
  BY <1>1, <1>2, <1>3, <1>4, <1>5, <1>6, <1>7

\* Changing what one end can read.
LEMMA UnreadPut ==
  ASSUME NEW S, unread = [q \in Pipe |-> unread[q]], \A q \in Pipe : unread[q] \in [Ends(q) -> S],
         NEW p \in Pipe, NEW x \in Ends(p), NEW v \in S, unread' = [unread EXCEPT ![p][x] = v]
  PROVE  /\ unread' = [q \in Pipe |-> unread'[q]] /\ \A q \in Pipe : unread'[q] \in [Ends(q) -> S]
         /\ \A q \in Pipe : \A y \in Ends(q) :
              unread'[q][y] = IF q = p /\ y = x THEN v ELSE unread[q][y]
BY EndPut

\* What can be read at the ends.
LEMMA ShiftUnread ==
  ASSUME PairsAssumption, PipesOK, Handshake,
         NEW x, NEW p, NEW take, NEW to, Shift(x, p, take, to)
  PROVE  /\ unread' = [q \in Pipe |-> unread'[q]]
         /\ \A q \in Pipe : unread'[q] \in [Ends(q) -> Seq(Pipe \cup {Delimiter})]
         /\ \A q \in Pipe : \A y \in Ends(q) :
              \/ unread'[q][y] = unread[q][y]
              \/ /\ q = p /\ y = Other(p, x) /\ Asks(end[p][x], to)
                 /\ unread'[q][y] = Append(unread[q][y], Delimiter)
              \/ /\ q = p /\ y = x /\ ReadsDelimiter(x, p, take, to)
                 /\ unread'[q][y] = Tail(unread[q][y])
         /\ \A q \in Pipe : \A y \in Ends(q) : In(Delimiter, unread'[q][y]) =>
              In(Delimiter, unread[q][y]) \/ (q = p /\ y = Other(p, x) /\ Asks(end[p][x], to))
<1> DEFINE S == Seq(Pipe \cup {Delimiter})  o == Other(p, x)
<1>1. p \in Pipe /\ x \in Ends(p) /\ o \in Ends(p)
  BY EndFacts DEF Shift
<1>2. /\ unread = [q \in Pipe |-> unread[q]]
      /\ \A q \in Pipe : unread[q] \in [Ends(q) -> S]
  BY DEF PipesOK
<1>3. unread[p][x] \in S /\ unread[p][o] \in S /\ Delimiter \in Pipe \cup {Delimiter}
  BY <1>1, <1>2
<1>4. CASE Asks(end[p][x], to) /\ unread' = [unread EXCEPT ![p][o] = Append(@, Delimiter)]
  <2>1. PICK v \in S : v = Append(unread[p][o], Delimiter)
    BY <1>3, Added
  <2>2. unread' = [unread EXCEPT ![p][o] = v]
    BY <1>4, <2>1
  <2> HIDE DEF S, o
  <2>3. /\ unread' = [q \in Pipe |-> unread'[q]] /\ \A q \in Pipe : unread'[q] \in [Ends(q) -> S]
        /\ \A q \in Pipe : \A y \in Ends(q) :
             unread'[q][y] = IF q = p /\ y = o THEN v ELSE unread[q][y]
    BY <1>1, <1>2, <2>1, <2>2, UnreadPut
  <2> QED
    BY <1>4, <2>1, <2>3 DEF S, o
<1>5. CASE ~Asks(end[p][x], to) /\ unread' = unread
  BY <1>2, <1>5
<1>6. CASE ReadsDelimiter(x, p, take, to)
  <2>1. unread[p][x] # <<>> /\ unread' = [unread EXCEPT ![p][x] = Tail(unread[p][x])]
    BY <1>6 DEF ReadsDelimiter
  <2>2. Tail(unread[p][x]) \in S /\ \A a : In(a, Tail(unread[p][x])) => In(a, unread[p][x])
    BY <1>3, <2>1, TakenOff
  <2>3. PICK v \in S : v = Tail(unread[p][x])
    BY <2>2
  <2>4. unread' = [unread EXCEPT ![p][x] = v]
    BY <2>1, <2>3
  <2> HIDE DEF S, o
  <2>5. /\ unread' = [q \in Pipe |-> unread'[q]] /\ \A q \in Pipe : unread'[q] \in [Ends(q) -> S]
        /\ \A q \in Pipe : \A y \in Ends(q) :
             unread'[q][y] = IF q = p /\ y = x THEN v ELSE unread[q][y]
    BY <1>1, <1>2, <2>3, <2>4, UnreadPut
  <2> QED
    BY <1>6, <2>2, <2>3, <2>5 DEF S, o
<1> QED
  BY <1>4, <1>5, <1>6 DEF Shift

\* Who asks first writes a delimiter.
LEMMA AskUnread ==
  ASSUME PairsAssumption, PipesOK, Handshake,
         NEW x, NEW p, NEW take, NEW to, Shift(x, p, take, to), Asks(end[p][x], to),
         take # "nothing" \/ x # Loop
  PROVE  unread'[p][Other(p, x)] = Append(unread[p][Other(p, x)], Delimiter)
<1>1. p \in Pipe /\ x \in Ends(p) /\ Other(p, x) \in Ends(p)
  BY EndFacts DEF Shift
<1>2. ~ReadsDelimiter(x, p, take, to)
  BY DEF ReadsDelimiter, Asks
<1>3. unread' = [unread EXCEPT ![p][Other(p, x)] = Append(@, Delimiter)]
  BY <1>2 DEF Shift
<1>4. unread = [q \in Pipe |-> unread[q]] /\ unread[p] \in [Ends(p) -> Seq(Pipe \cup {Delimiter})]
  BY <1>1 DEF PipesOK
<1> QED
  BY <1>1, <1>3, <1>4

\* Which commands are on their way.
LEMMA ShiftMail ==
  ASSUME PairsAssumption, PipesOK, Handshake,
         NEW x, NEW p, NEW take, NEW to, Shift(x, p, take, to), NEW y \in User
  PROVE  /\ mailbox' \in [User -> Seq(CmdType)]
         /\ \A q : Mail(y, "bind", q)' <=> Mail(y, "bind", q) /\ ~(y = x /\ take = "bind" /\ q = p)
         /\ \A m : In(m, mailbox'[y]) => In(m, mailbox[y]) \/ (y = Other(p, x) /\ m.of = p)
         /\ \A c, q, r : Order(mailbox[y], Cmd(c, q), Cmd("bind", r)) /\
              (c # "bind" /\ end[p][x] # "gone" => ~(y = Other(p, x) /\ q = p)) =>
              Order(mailbox'[y], Cmd(c, q), Cmd("bind", r))
<1>1. p \in Pipe /\ x \in Ends(p) /\ Move(x, p, take, to)
  BY DEF Shift
<1>2. /\ ~(Asks(end[p][x], to) /\ Answers(end[p][x], to))
      /\ end[p][x] = "gone" => to = "gone"
  BY ShiftEnds
<1>3. \A z \in User : Distinct(mailbox[z])
  BY DEF Handshake, Boxes
<1>4. ~Says(end[p][x], to, "bind")
  BY DEF Says
<1>5. end[p][x] = "gone" => \A c : ~Says(end[p][x], to, c)
  BY <1>2 DEF Says, Asks, Answers
<1>6. /\ mailbox' \in [User -> Seq(CmdType)]
      /\ \A c, q : Mail(y, c, q)' <=>
           \/ Mail(y, c, q) /\ ~(y = x /\ c = take /\ q = p)
           \/ y = Other(p, x) /\ q = p /\ Says(end[p][x], to, c)
      /\ \A m : In(m, mailbox'[y]) => In(m, mailbox[y]) \/ (y = Other(p, x) /\ m.of = p)
      /\ \A c, d, q, r : Order(mailbox[y], Cmd(c, q), Cmd(d, r)) /\
           (y = Other(p, x) /\ q = p /\ Says(end[p][x], to, c) =>
              ~Mail(y, d, r) /\ ~(c = d /\ q = r)) =>
           Order(mailbox'[y], Cmd(c, q), Cmd(d, r))
  BY <1>1, <1>2, <1>3, MoveMail
<1> QED
  BY <1>4, <1>5, <1>6

\* How far the threads are.
LEMMA ShiftSince ==
  ASSUME PairsAssumption, TypeOK, NEW x, NEW p, NEW take, NEW to, Shift(x, p, take, to),
         NEW q \in Pipe
  PROVE  /\ Connected(q)' <=> Connected(q)
         /\ WasSent(q)' <=> WasSent(q)
         /\ Past(q)' <=> Past(q) \/ (q = p /\ pc' # pc)
<1>1. q[1] \in Socket /\ q = <<q[1], q[2]>>
  BY PipeFacts
<1>2. sent' = sent /\ pc \in [Socket -> Place]
  BY DEF Shift, TypeOK, Place
<1>3. CASE pc' = pc
  BY <1>2, <1>3 DEF Connected, WasSent, Past, Since
<1>4. CASE pc' # pc
  <2>1. /\ pc[x] = "disconnect" /\ p = <<x, sent[x]>> /\ x \in Socket
        /\ pc' = [pc EXCEPT ![x] = IF x \in Thread /\ sent[x] < NumMsgs THEN "head" ELSE "ended"]
    BY <1>4, EndFacts DEF Shift, Leaves, Ends, User
  <2>2. pc'[x] \in {"head", "ended"} /\ \A s \in Socket : s # x => pc'[s] = pc[s]
    BY <1>2, <2>1
  <2>3. CASE q[1] # x
    <3>1. q # p
      BY <2>1, <2>3
    <3> QED
      BY <1>1, <1>2, <2>2, <2>3, <3>1 DEF Connected, WasSent, Past, Since
  <2>4. CASE q[1] = x
    <3>1. q = p <=> q[2] = sent[x]
      BY <1>1, <2>1, <2>4
    <3>2. sent'[q[1]] = sent[x] /\ sent[q[1]] = sent[x] /\ pc[q[1]] = "disconnect"
      BY <1>2, <2>1, <2>4
    <3> QED
      BY <1>4, <2>2, <2>4, <3>1, <3>2 DEF Connected, WasSent, Past, Since
  <2> QED
    BY <2>3, <2>4
<1> QED
  BY <1>3, <1>4

\* It keeps the pipes in their types, and their ends in agreement.
LEMMA ShiftHandshake ==
  ASSUME PairsAssumption, TypeOK, Handshake, Data,
         NEW x, NEW p, NEW take, NEW to, Shift(x, p, take, to)
  PROVE  PipesOK' /\ Handshake'
<1>1. /\ PipesOK /\ p \in Pipe /\ x \in Ends(p) /\ x \in User /\ Move(x, p, take, to)
      /\ Other(p, x) \in Ends(p)
  BY TypedPipes, EndFacts DEF Shift
<1>2. /\ take = "bind" => x = Loop
      /\ to \in EndState /\ (to = "none" <=> end[p][x] = "none")
      /\ end' = [q \in Pipe |-> end'[q]] /\ \A q \in Pipe : end'[q] \in [Ends(q) -> EndState]
      /\ \A q \in Pipe : \A y \in Ends(q) :
           end'[q][y] = IF q = p /\ y = x THEN to ELSE end[q][y]
  BY <1>1, ShiftEnds
<1>3. /\ unread' = [q \in Pipe |-> unread'[q]]
      /\ \A q \in Pipe : unread'[q] \in [Ends(q) -> Seq(Pipe \cup {Delimiter})]
      /\ \A q \in Pipe : \A y \in Ends(q) : In(Delimiter, unread'[q][y]) =>
           In(Delimiter, unread[q][y]) \/ (q = p /\ y = Other(p, x) /\ Asks(end[p][x], to))
  BY <1>1, ShiftUnread
<1>4. \A y \in User :
        /\ mailbox' \in [User -> Seq(CmdType)]
        /\ \A m : In(m, mailbox'[y]) => In(m, mailbox[y]) \/ (y = Other(p, x) /\ m.of = p)
  BY <1>1, ShiftMail
<1>5. /\ attached' \in [User -> Pipe \cup {None}]
      /\ \A s \in Socket : attached'[s] \in {attached[s], None}
  <2>1. attached \in [User -> Pipe \cup {None}] /\ Loop \notin Socket /\ Socket \subseteq User
    BY <1>1, PairsAssumption DEF PipesOK, User
  <2> QED
    BY <1>1, <1>2, <2>1 DEF Shift
<1>6. PipesOK'
  <2>1. refused' \subseteq Pipe
    BY <1>1 DEF Shift, PipesOK
  <2>2. mailbox' \in [User -> Seq(CmdType)]
    BY <1>1, <1>4
  <2> QED
    BY <1>2, <1>3, <1>5, <2>1, <2>2 DEF PipesOK
<1>7. Talks' /\ \A y \in User : Distinct(mailbox'[y])
  <2>1. take = "nothing" /\ x = Loop => to = end[p][x] \/ ~Mail(Loop, "bind", p)
    <3> SUFFICES ASSUME take = "nothing", x = Loop PROVE ~Mail(Loop, "bind", p)
      OBVIOUS
    <3>1. attached[Loop] = p
      BY DEF Shift, ReadsDelimiter
    <3> QED
      BY <1>1, <3>1 DEF Data
  <2> QED
    BY <1>1, <1>3, <2>1, TalkMove DEF Handshake, Boxes, Talks
<1>8. Boxes'
  <2>1. ASSUME NEW s \in Socket, NEW m, In(m, mailbox'[s]) PROVE m.of[1] = s
    <3>1. In(m, mailbox[s]) \/ (s = Other(p, x) /\ m.of = p)
      BY <1>4, <2>1 DEF User
    <3>2. CASE In(m, mailbox[s])
      BY <3>2 DEF Handshake, Boxes
    <3>3. CASE s = Other(p, x) /\ m.of = p
      BY <1>1, <3>3, EndFacts
    <3> QED
      BY <3>1, <3>2, <3>3
  <2>2. \A s \in Socket : attached'[s] # None => attached'[s][1] = s
    BY <1>5 DEF Handshake, Boxes
  <2> QED
    BY <1>7, <2>1, <2>2 DEF Boxes
<1>9. ASSUME NEW q \in Pipe PROVE Connected(q)' <=> end'[q][Loop] # "none"
  <2>1. Loop \in Ends(q)
    BY DEF Ends
  <2>2. end'[q][Loop] # "none" <=> end[q][Loop] # "none"
    BY <1>2, <2>1
  <2>3. Connected(q)' <=> Connected(q)
    BY ShiftSince
  <2> QED
    BY <2>2, <2>3 DEF Handshake
<1> QED
  BY <1>6, <1>7, <1>8, <1>9 DEF Handshake, Talks

\* A thread's PAIR goes on having the pipe that its thread sends to.
LEMMA ShiftTidy ==
  ASSUME PairsAssumption, TypeOK, Places, Handshake, Tidy,
         NEW x, NEW p, NEW take, NEW to, Shift(x, p, take, to)
  PROVE  Tidy'
<1>1. /\ PipesOK /\ p \in Pipe /\ x \in Ends(p) /\ x \in User
      /\ Goal(end[p][x], end[p][Other(p, x)], take, to)
      /\ take = "bind" => x = Loop
      /\ take = "pipe_term_ack" => end[p][x] \notin {"active", "waiting", "delimited", "gone"}
      /\ to = "none" <=> end[p][x] = "none"
      /\ to = "active" => end[p][x] = "active"
      /\ end[p][x] = "gone" => to = "gone"
      /\ \A q \in Pipe : \A y \in Ends(q) :
           end'[q][y] = IF q = p /\ y = x THEN to ELSE end[q][y]
  BY TypedPipes, ShiftEnds
<1>2. attached \in [User -> Pipe \cup {None}] /\ Loop \notin Socket /\ Socket \subseteq User
  BY <1>1, PairsAssumption DEF PipesOK, User
<1>3. \A s \in Socket : attached'[s] =
        IF s = x /\ take = "pipe_term_ack" /\ attached[s] = p THEN None ELSE attached[s]
  BY <1>1, <1>2 DEF Shift
<1>4. to = "gone" => end[p][x] = "gone" \/ take = "pipe_term_ack"
  BY <1>1 DEF Goal
<1>5. to = "delimited" => end[p][x] \in {"active", "delimited"}
  BY <1>1 DEF Goal
<1>6. ASSUME NEW s \in Socket, attached'[s] # None
      PROVE  end'[attached'[s]][s] \notin {"none", "gone"}
  <2>1. attached'[s] = attached[s] /\ attached[s] # None
    BY <1>3, <1>6
  <2>2. attached[s] \in Pipe /\ s \in Ends(attached[s]) /\ s \in User
    BY <1>1, <1>2, <2>1, AttachedFacts
  <2>3. end[attached[s]][s] \notin {"none", "gone"}
    BY <2>1 DEF Tidy
  <2>4. CASE attached[s] = p /\ s = x
    <3>1. take # "pipe_term_ack"
      BY <1>3, <1>6, <2>4
    <3> QED
      BY <1>1, <1>4, <2>1, <2>2, <2>3, <2>4, <3>1
  <2>5. CASE ~(attached[s] = p /\ s = x)
    BY <1>1, <2>1, <2>2, <2>3, <2>5
  <2> QED
    BY <2>4, <2>5
<1>7. ASSUME NEW s \in Socket, pc'[s] = "disconnect"
      PROVE  /\ attached'[s] = <<s, sent'[s]>>
             /\ end'[attached'[s]][s] \in {"active", "waiting"}
  <2>1. pc[s] = "disconnect" /\ sent' = sent /\ ~(x = s /\ take = "nothing")
    <3>1. pc \in [Socket -> Place]
      BY DEF TypeOK, Place
    <3>2. CASE pc' = pc
      <4>1. Leaves(x, p) /\ x # Loop => pc' # pc
        <5> SUFFICES ASSUME Leaves(x, p), x # Loop PROVE pc' # pc
          OBVIOUS
        <5>1. x \in Socket /\ pc[x] = "disconnect"
          BY <1>1 DEF Leaves, User
        <5>2. pc'[x] # "disconnect"
          BY <3>1, <5>1 DEF Leaves
        <5> QED
          BY <5>1, <5>2
      <4>2. sent' = sent /\ (x # Loop /\ take = "nothing" => pc[x] \in {"poll", "ended"})
        BY <3>2, <4>1 DEF Shift
      <4> QED
        BY <1>2, <1>7, <3>2, <4>2
    <3>3. CASE pc' # pc
      <4>1. /\ pc' = [pc EXCEPT ![x] = IF x \in Thread /\ sent[x] < NumMsgs THEN "head" ELSE "ended"]
            /\ x \in Socket
        BY <1>1, <3>3 DEF Shift, Leaves, User
      <4>2. s # x
        BY <1>7, <3>1, <4>1
      <4> QED
        BY <1>7, <3>1, <4>1, <4>2 DEF Shift
    <3> QED
      BY <3>2, <3>3
  <2>2. attached[s] = <<s, sent[s]>> /\ end[attached[s]][s] \in {"active", "waiting"}
    BY <2>1 DEF Tidy
  <2>3. <<s, sent[s]>> \in Pipe
    BY <2>1, SentPipe
  <2>4. attached[s] # None /\ s \in Ends(attached[s]) /\ attached[s] \in Pipe
    BY <2>2, <2>3, PairsAssumption DEF Ends
  <2>5. CASE attached[s] = p /\ s = x
    <3>1. take # "pipe_term_ack"
      BY <1>1, <2>2, <2>5
    <3>2. take # "bind"
      BY <1>1, <1>2, <2>5
    <3>3. to \in {"active", "waiting"}
      BY <1>1, <2>1, <2>2, <2>5, <3>1, <3>2 DEF Goal
    <3> QED
      BY <1>1, <1>3, <2>1, <2>2, <2>4, <2>5, <3>1, <3>3
  <2>6. CASE ~(attached[s] = p /\ s = x)
    BY <1>1, <1>3, <2>1, <2>2, <2>4, <2>6
  <2> QED
    BY <2>5, <2>6
<1>8. ASSUME NEW q \in Pipe, Past(q)' PROVE end'[q][q[1]] \notin {"active", "delimited"}
  <2>1. q[1] \in Ends(q)
    BY DEF Ends
  <2>2. CASE Past(q)
    <3>1. end[q][q[1]] \notin {"active", "delimited"}
      BY <2>2 DEF Tidy
    <3> QED
      BY <1>1, <1>5, <2>1, <3>1
  <2>3. CASE q = p /\ pc' # pc
    <3>1. x # Loop /\ to \notin {"active", "delimited"}
      BY <2>3 DEF Shift
    <3>2. q[1] = x
      BY <1>1, <2>3, <3>1 DEF Ends
    <3> QED
      BY <1>1, <2>1, <2>3, <3>1, <3>2
  <2> QED
    BY <1>8, <2>2, <2>3, ShiftSince
<1>9. ASSUME NEW q \in Pipe, WasSent(q)' PROVE end'[q][q[1]] = "gone" \/ attached'[q[1]] = q
  <2>1. q[1] \in Ends(q) /\ q[1] \in Socket
    BY PipeFacts DEF Ends
  <2>2. end[q][q[1]] = "gone" \/ attached[q[1]] = q
    BY <1>9, ShiftSince DEF Tidy
  <2>3. CASE end[q][q[1]] = "gone"
    BY <1>1, <2>1, <2>3
  <2>4. CASE attached[q[1]] = q /\ ~(q[1] = x /\ take = "pipe_term_ack" /\ q = p)
    BY <1>3, <2>1, <2>4
  <2>5. CASE q[1] = x /\ take = "pipe_term_ack" /\ q = p
    <3>1. to = "gone"
      BY <1>1, <2>5 DEF Goal
    <3> QED
      BY <1>1, <2>1, <2>5, <3>1
  <2> QED
    BY <2>2, <2>3, <2>4, <2>5
<1> QED
  BY <1>6, <1>7, <1>8, <1>9 DEF Tidy

DataOf(p) ==
  LET q == unread[p][Loop]  e == end[p][Loop] IN
  /\ q \in {<<>>, <<p>>, <<Delimiter>>, <<p, Delimiter>>}
  /\ In(p, q) => WasSent(p)
  /\ WasSent(p) => In(p, q) \/ Got(p)
  /\ e \in {"delimited", "acked"} \/ (e = "gone" /\ p \notin refused) => q = <<>>
  /\ e \in {"req1", "req2"} => p \in refused
  /\ p \in refused => e \in {"req1", "req2", "gone"}
  /\ attached[Loop] = p <=> e \in Live /\ ~Mail(Loop, "bind", p)

\* What the main loop's PAIR reads, where an end is moved.
LEMMA ShiftData ==
  ASSUME PairsAssumption, TypeOK, Handshake, Data,
         NEW x, NEW p, NEW take, NEW to, Shift(x, p, take, to)
  PROVE  Data'
<1>1. /\ PipesOK /\ p \in Pipe /\ x \in Ends(p) /\ x \in User
      /\ Goal(end[p][x], end[p][Other(p, x)], take, to)
      /\ Agree(end[p][x], end[p][Other(p, x)])
      /\ Takes(x, take, p)
      /\ take = "bind" => x = Loop
      /\ \A q \in Pipe : \A y \in Ends(q) :
           end'[q][y] = IF q = p /\ y = x THEN to ELSE end[q][y]
  BY TypedPipes, ShiftEnds
<1>2. \A q \in Pipe : \A y \in Ends(q) :
        \/ unread'[q][y] = unread[q][y]
        \/ /\ q = p /\ y = Other(p, x) /\ Asks(end[p][x], to)
           /\ unread'[q][y] = Append(unread[q][y], Delimiter)
        \/ /\ q = p /\ y = x /\ ReadsDelimiter(x, p, take, to)
           /\ unread'[q][y] = Tail(unread[q][y])
  BY <1>1, ShiftUnread
<1>3. \A q : Mail(Loop, "bind", q)' <=>
               Mail(Loop, "bind", q) /\ ~(Loop = x /\ take = "bind" /\ q = p)
  BY <1>1, ShiftMail DEF User
<1>4. \A q \in Pipe : Loop \in Ends(q) /\ q # None
  BY PipeFacts DEF Ends
<1>5. \A q \in Pipe : WasSent(q)' <=> WasSent(q)
  BY ShiftSince
<1>6. \A q \in Pipe : Got(q)' <=> Got(q)
  BY DEF Shift, Got
<1>7. /\ attached \in [User -> Pipe \cup {None}] /\ Loop \in User
      /\ attached'[Loop] = IF x = Loop /\ take = "bind" /\ to = "active" THEN p
                           ELSE IF x = Loop /\ take = "pipe_term_ack" /\ attached[x] = p THEN None
                           ELSE attached[Loop]
  <2>1. attached \in [User -> Pipe \cup {None}] /\ Loop \in User
    BY <1>1 DEF PipesOK, User
  <2> QED
    BY <1>1, <2>1 DEF Shift
<1>8. /\ refused' = IF take = "bind" /\ to = "req1" THEN refused \cup {p} ELSE refused
      /\ take = "bind" => (to = "active" <=> attached[Loop] = None)
      /\ x = Loop /\ take = "nothing" => ReadsDelimiter(x, p, take, to)
  BY DEF Shift
<1>9. ASSUME NEW q \in Pipe, q # p PROVE DataOf(q)'
  <2>1. DataOf(q)
    BY DEF Data, DataOf
  <2>2. /\ unread'[q][Loop] = unread[q][Loop] /\ end'[q][Loop] = end[q][Loop]
        /\ Mail(Loop, "bind", q)' <=> Mail(Loop, "bind", q)
    BY <1>1, <1>2, <1>3, <1>4, <1>9
  <2>3. q \in refused' <=> q \in refused
    BY <1>8, <1>9
  <2>4. attached'[Loop] = q <=> attached[Loop] = q
    BY <1>4, <1>7, <1>8, <1>9
  <2>5. (WasSent(q)' <=> WasSent(q)) /\ (Got(q)' <=> Got(q))
    BY <1>5, <1>6
  <2> QED
    BY <2>1, <2>2, <2>3, <2>4, <2>5 DEF DataOf
<1>10. /\ take # "nothing" => Mail(x, take, p)
       /\ take = "pipe_term" => ~Mail(x, "bind", p)
  BY <1>1, TakenDue DEF Handshake, Talks
<1>11. DataOf(p)'
  <2> DEFINE U == unread[p][Loop]  V == unread'[p][Loop]  e == end[p][Loop]  f == end'[p][Loop]
  <2>1. DataOf(p) /\ Talk(p, Loop)
    BY <1>1, <1>4 DEF Data, DataOf, Handshake
  <2>2. x # Loop => Other(p, x) = Loop /\ x = p[1] /\ f = e /\ Other(p, Loop) = x
    BY <1>1, <1>4, EndFacts
  <2>3. x = Loop => f = to /\ Other(p, x) # Loop
    BY <1>1, <1>4, EndFacts
  <2>4. \/ V = U
        \/ x # Loop /\ Asks(end[p][x], to) /\ V = Append(U, Delimiter)
        \/ x = Loop /\ ReadsDelimiter(x, p, take, to) /\ V = Tail(U)
    BY <1>1, <1>2, <1>4, <2>3
  <2>5. ASSUME x # Loop, Asks(end[p][x], to)
        PROVE  U \in {<<>>, <<p>>} /\ e \in {"active", "req1"} /\ V \in {<<Delimiter>>, <<p, Delimiter>>}
    <3>1. end[p][x] \in {"active", "delimited"}
      BY <1>1, <2>5 DEF Goal, Asks
    <3>2. ~In(Delimiter, U)
      BY <2>1, <2>2, <2>5, <3>1 DEF Talk
    <3>3. U \in {<<>>, <<p>>}
      <4>1. U \in {<<>>, <<p>>, <<Delimiter>>, <<p, Delimiter>>}
        BY <2>1 DEF DataOf
      <4>2. In(Delimiter, <<Delimiter>>) /\ In(Delimiter, <<p, Delimiter>>)
        BY <1>1, Shapes
      <4> HIDE DEF U
      <4> QED
        BY <3>2, <4>1, <4>2
    <3>4. e \in {"active", "req1"}
      BY <1>1, <2>2, <2>5, <3>1 DEF Agree, Half
    <3>5. Append(U, Delimiter) \in {<<Delimiter>>, <<p, Delimiter>>}
      BY <1>1, <3>3, Shapes
    <3>6. V = Append(U, Delimiter)
      BY <1>1, <2>2, <2>5, AskUnread
    <3> QED
      BY <3>3, <3>4, <3>5, <3>6
  <2>6. ASSUME x = Loop, ReadsDelimiter(x, p, take, to)
        PROVE  U = <<Delimiter>> /\ V = <<>>
    <3>1. U # <<>> /\ Head(U) = Delimiter /\ unread' = [unread EXCEPT ![p][x] = Tail(@)]
      BY <2>6 DEF ReadsDelimiter
    <3>2. U = <<Delimiter>>
      BY <1>1, <2>1, <3>1, Shapes DEF DataOf
    <3>3. V = Tail(U)
      BY <1>1, <2>6, <3>1 DEF PipesOK
    <3> QED
      BY <1>1, <3>2, <3>3, Shapes
  <2>7. (x # Loop /\ Asks(end[p][x], to)) \/ (x = Loop /\ ReadsDelimiter(x, p, take, to)) \/ V = U
    BY <2>4
  <2> HIDE DEF U, V, e, f
  <2>8. V \in {<<>>, <<p>>, <<Delimiter>>, <<p, Delimiter>>} /\ (In(p, V) <=> In(p, U))
    <3>1. CASE x # Loop /\ Asks(end[p][x], to)
      <4>1. /\ U \in {<<>>, <<p>>} /\ V \in {<<Delimiter>>, <<p, Delimiter>>}
        BY <2>5, <3>1
      <4>2. V = Append(U, Delimiter)
        BY <1>1, <2>2, <3>1, AskUnread DEF U, V
      <4> QED
        BY <1>1, <4>1, <4>2, Shapes
    <3>2. CASE x = Loop /\ ReadsDelimiter(x, p, take, to)
      BY <1>1, <2>6, <3>2, Shapes
    <3>3. CASE V = U
      BY <2>1, <3>3 DEF DataOf, U
    <3> QED
      BY <2>7, <3>1, <3>2, <3>3
  <2>9. (In(p, V) => WasSent(p)') /\ (WasSent(p)' => In(p, V) \/ Got(p)')
    BY <1>1, <1>5, <1>6, <2>1, <2>8 DEF DataOf, U
  <2>10. x = Loop => \/ f = "waiting" /\ e = "active" /\ take = "pipe_term"
                     \/ f = "acked" /\ e = "delimited" /\ take = "pipe_term"
                     \/ f = "req2" /\ e = "req1" /\ take = "pipe_term"
                     \/ f = "gone" /\ e \in {"acked", "req1", "req2"} /\ take = "pipe_term_ack"
                     \/ f \in {"active", "req1"} /\ e = "active" /\ take = "bind"
                     \/ take = "nothing" /\ ReadsDelimiter(x, p, take, to)
    BY <1>1, <1>8, <2>3 DEF Goal, e, f
  <2>11. x = Loop /\ ReadsDelimiter(x, p, take, to) =>
           f \in {"delimited", "acked"} /\ e \in {"active", "waiting"} /\ attached[Loop] = p
    BY <2>3 DEF ReadsDelimiter, e
  <2>12. f \in {"delimited", "acked"} \/ (f = "gone" /\ p \notin refused') => V = <<>>
    <3>1. CASE x # Loop
      <4>1. refused' = refused /\ f = e
        <5>1. take # "bind"
          BY <1>1, <3>1
        <5> QED
          BY <1>8, <2>2, <3>1, <5>1
      <4>2. CASE Asks(end[p][x], to)
        BY <2>5, <3>1, <4>1, <4>2
      <4>3. CASE V = U
        BY <2>1, <4>1, <4>3 DEF DataOf, U, e
      <4> QED
        BY <2>7, <3>1, <4>2, <4>3
    <3>2. CASE x = Loop /\ take = "nothing"
      BY <2>6, <2>10, <3>2
    <3>3. CASE x = Loop /\ take # "nothing"
      <4>1. V = U /\ (take # "bind" => refused' = refused)
        BY <1>8, <2>7, <3>3 DEF ReadsDelimiter
      <4>2. e \in {"req1", "req2"} => p \in refused
        BY <2>1 DEF DataOf, e
      <4>3. e \in {"delimited", "acked"} => U = <<>>
        BY <2>1 DEF DataOf, e, U
      <4> QED
        BY <2>10, <3>3, <4>1, <4>2, <4>3
    <3> QED
      BY <3>1, <3>2, <3>3
  <2>13. /\ f \in {"req1", "req2"} => p \in refused'
         /\ p \in refused' => f \in {"req1", "req2", "gone"}
    <3>1. /\ e \in {"req1", "req2"} => p \in refused
          /\ p \in refused => e \in {"req1", "req2", "gone"}
      BY <2>1 DEF DataOf, e
    <3>2. CASE x # Loop
      <4>1. take # "bind"
        BY <1>1, <3>2
      <4> QED
        BY <1>8, <2>2, <3>1, <3>2, <4>1
    <3>3. CASE x = Loop /\ take = "bind"
      <4>1. f = to
        BY <2>3, <3>3 DEF f
      <4> QED
        BY <1>8, <2>10, <3>1, <3>3, <4>1
    <3>4. CASE x = Loop /\ take # "bind"
      BY <1>8, <2>10, <2>11, <3>1, <3>4
    <3> QED
      BY <3>2, <3>3, <3>4
  <2>14. attached'[Loop] = p <=> f \in Live /\ ~Mail(Loop, "bind", p)'
    <3>1. attached[Loop] = p <=> e \in Live /\ ~Mail(Loop, "bind", p)
      BY <2>1 DEF DataOf, e
    <3>2. CASE x # Loop
      BY <1>3, <1>7, <2>2, <3>1, <3>2
    <3>3. CASE x = Loop /\ take = "bind"
      <4>1. f = to /\ Mail(Loop, "bind", p)
        BY <1>10, <2>3, <3>3
      <4>2. attached[Loop] # p
        BY <3>1, <4>1
      <4> QED
        BY <1>3, <1>7, <2>10, <3>3, <4>1, <4>2 DEF Live
    <3>4. CASE x = Loop /\ take = "pipe_term"
      <4>1. ~Mail(Loop, "bind", p)
        BY <1>10, <3>4
      <4> QED
        BY <1>3, <1>7, <2>10, <3>1, <3>4, <4>1 DEF Live
    <3>5. CASE x = Loop /\ take = "pipe_term_ack"
      BY <1>3, <1>4, <1>7, <2>10, <1>1, <3>1, <3>5 DEF Live
    <3>6. CASE x = Loop /\ take = "nothing"
      BY <1>3, <1>7, <2>10, <2>11, <3>1, <3>6 DEF Live
    <3> QED
      BY <2>10, <3>2, <3>3, <3>4, <3>5, <3>6
  <2> QED
    BY <2>8, <2>9, <2>12, <2>13, <2>14 DEF DataOf, V, f
<1> QED
  BY <1>9, <1>11 DEF Data, DataOf

\* What the main loop's PAIR hears of, where an end is moved.
LEMMA ShiftBinds ==
  ASSUME PairsAssumption, TypeOK, Handshake, Binds,
         NEW x, NEW p, NEW take, NEW to, Shift(x, p, take, to)
  PROVE  Binds'
<1>1. PipesOK /\ p \in Pipe /\ x \in Ends(p) /\ Takes(x, take, p) /\ Loop \in User
  BY TypedPipes, ShiftEnds DEF User
<1>2. /\ \A q : Mail(Loop, "bind", q)' <=>
                  Mail(Loop, "bind", q) /\ ~(Loop = x /\ take = "bind" /\ q = p)
      /\ \A q, r : Order(mailbox[Loop], Cmd("bind", q), Cmd("bind", r)) =>
                   Order(mailbox'[Loop], Cmd("bind", q), Cmd("bind", r))
  BY <1>1, ShiftMail
<1>3. \A q \in Pipe : Connected(q)' <=> Connected(q)
  BY ShiftSince
<1>4. ASSUME NEW r \in Pipe, NEW q \in Pipe, Precedes(r, q)
      PROVE  /\ Order(mailbox'[Loop], Cmd("bind", r), Cmd("bind", q))
             /\ Mail(Loop, "bind", r)' /\ Connected(q)' => Mail(Loop, "bind", q)'
  <2>1. /\ Order(mailbox[Loop], Cmd("bind", r), Cmd("bind", q))
        /\ Mail(Loop, "bind", r) /\ Connected(q) => Mail(Loop, "bind", q)
    BY <1>4 DEF Binds
  <2>2. Loop = x /\ take = "bind" /\ q = p => ~Mail(Loop, "bind", r)
    <3> SUFFICES ASSUME Loop = x, take = "bind", q = p PROVE ~Mail(Loop, "bind", r)
      OBVIOUS
    <3>1. mailbox[Loop] # <<>> /\ Head(mailbox[Loop]) = Cmd("bind", q)
      BY <1>1 DEF Takes
    <3>2. mailbox[Loop] \in Seq(CmdType)
      BY <1>1 DEF PipesOK
    <3> QED
      BY <2>1, <3>1, <3>2, TakenOff DEF Mail
  <2> QED
    BY <1>2, <1>3, <2>1, <2>2
<1>5. \A q, r : Precedes(q, r)' <=> Precedes(q, r)
  BY DEF Precedes
<1> QED
  BY <1>4, <1>5 DEF Binds

\* What a thread's PAIR has said before, where an end is moved.
LEMMA ShiftFreed ==
  ASSUME PairsAssumption, TypeOK, Handshake, Freed,
         NEW x, NEW p, NEW take, NEW to, Shift(x, p, take, to)
  PROVE  Freed'
<1>1. /\ PipesOK /\ p \in Pipe /\ x \in Ends(p) /\ Loop \in User /\ Loop \notin Socket
      /\ x \in User /\ Socket \subseteq User
      /\ take = "bind" => x = Loop
      /\ end[p][x] = "gone" => to = "gone"
      /\ \A q \in Pipe : \A y \in Ends(q) :
           end'[q][y] = IF q = p /\ y = x THEN to ELSE end[q][y]
  BY TypedPipes, ShiftEnds, PairsAssumption DEF User
<1>2. /\ \A q : Mail(Loop, "bind", q)' => Mail(Loop, "bind", q)
      /\ \A c, q, r : Order(mailbox[Loop], Cmd(c, q), Cmd("bind", r)) /\
           (c # "bind" /\ end[p][x] # "gone" => ~(Loop = Other(p, x) /\ q = p)) =>
           Order(mailbox'[Loop], Cmd(c, q), Cmd("bind", r))
  BY <1>1, ShiftMail
<1>3. \A s \in Socket : attached'[s] \in {attached[s], None}
  <2>1. attached \in [User -> Pipe \cup {None}]
    BY <1>1 DEF PipesOK
  <2> QED
    BY <1>1, <2>1 DEF Shift
<1>4. ASSUME NEW r \in Pipe, NEW q \in Pipe, r[1] = q[1], q[2] < r[2], attached'[r[1]] = r,
             Mail(Loop, "bind", r)'
      PROVE  /\ end'[q][q[1]] = "gone"
             /\ Order(mailbox'[Loop], Cmd("pipe_term_ack", q), Cmd("bind", r))
  <2>1. r # None /\ r[1] \in Socket /\ q[1] \in Ends(q)
    BY PipeFacts DEF Ends
  <2>2. attached[r[1]] = r
    BY <1>3, <1>4, <2>1
  <2>3. /\ end[q][q[1]] = "gone"
        /\ Order(mailbox[Loop], Cmd("pipe_term_ack", q), Cmd("bind", r))
    BY <1>2, <1>4, <2>2 DEF Freed
  <2>4. end'[q][q[1]] = "gone"
    BY <1>1, <2>1, <2>3
  <2>5. Loop = Other(p, x) /\ q = p => end[p][x] = "gone"
    BY <1>1, <2>3, EndFacts
  <2> QED
    BY <1>2, <2>3, <2>4, <2>5
<1> QED
  BY <1>4 DEF Freed

\* What was received, where an end is moved.
LEMMA ShiftGot ==
  ASSUME PairsAssumption, TypeOK, Handshake, Data, GotSent, ExitIsLast, Orderly,
         NEW x, NEW p, NEW take, NEW to, Shift(x, p, take, to)
  PROVE  GotSent' /\ ExitIsLast' /\ Orderly'
<1>1. PipesOK /\ sent' = sent /\ received' = received /\ loopPc' = loopPc /\ failed' = failed
  BY TypedPipes DEF Shift
<1>2. refused \subseteq refused'
  BY DEF Shift
<1>3. GotSent'
  BY <1>1, ShiftSince DEF GotSent
<1>4. ExitIsLast'
  BY <1>1, <1>2 DEF ExitIsLast
<1>5. ASSUME NEW q \in Pipe, In(q, unread'[q][Loop]) PROVE In(q, unread[q][Loop])
  <2>1. q # Delimiter /\ Loop \in Ends(q)
    BY PipeFacts DEF Ends
  <2>2. unread[q] \in [Ends(q) -> Seq(Pipe \cup {Delimiter})]
    BY <1>1 DEF PipesOK
  <2>3. unread[q][Loop] \in Seq(Pipe \cup {Delimiter})
    BY <2>1, <2>2
  <2>4. \/ unread'[q][Loop] = unread[q][Loop]
        \/ unread'[q][Loop] = Append(unread[q][Loop], Delimiter)
        \/ unread[q][Loop] # <<>> /\ unread'[q][Loop] = Tail(unread[q][Loop])
    BY <1>1, <2>1, ShiftUnread DEF ReadsDelimiter
  <2>5. CASE unread'[q][Loop] = Append(unread[q][Loop], Delimiter)
    BY <1>5, <2>1, <2>3, <2>5, Added
  <2>6. CASE unread[q][Loop] # <<>> /\ unread'[q][Loop] = Tail(unread[q][Loop])
    BY <1>5, <2>3, <2>6, TakenOff
  <2> QED
    BY <1>5, <2>4, <2>5, <2>6
<1>6. Orderly'
  BY <1>1, <1>2, <1>5 DEF Orderly
<1> QED
  BY <1>3, <1>4, <1>6

-----------------------------------------------------------------------------
(***************************************************************************)
(* What the other kinds of steps do.                                       *)
(***************************************************************************)

Pipes == PipesOK /\ Handshake /\ Tidy /\ Data /\ Binds /\ Freed

\* When the results are checked, every ping that was not refused has been received.
LEMMA ResultsRight ==
  ASSUME PairsAssumption, TypeOK, Places, GotSent, ExitIsLast,
         CheckResults, NumMsgs > 0, refused = {}, ~failed
  PROVE  ~failed'
<1> SUFFICES ASSUME NEW t \in Thread PROVE sent[t] = NumMsgs /\ received[t] = NumMsgs
  BY DEF CheckResults
<1>1. /\ pc[t] = "ended" /\ loopPc = "closed" /\ NumMsgs \in Nat /\ t \in Socket /\ t # Shutdown
      /\ sent[t] \in Nat /\ received[t] \in Nat
  BY PairsAssumption DEF CheckResults, Places, TypeOK, Socket
<1>2. sent[t] > 0 /\ sent[t] >= NumMsgs
  BY <1>1 DEF Places
<1>3. \A n : <<t, n>> \in Pipe => n \in 1 .. NumMsgs \cup {1}
  BY <1>1 DEF Pipe
<1>4. <<t, sent[t]>> \in Pipe
  BY <1>1, <1>2 DEF TypeOK
<1>5. sent[t] \in 1 .. NumMsgs \cup {1}
  BY <1>3, <1>4
<1>6. sent[t] = NumMsgs
  BY <1>1, <1>2, <1>5
<1>7. NumMsgs \in 1 .. sent[t]
  BY <1>1, <1>6
<1>8. NumMsgs <= received[t]
  BY <1>1, <1>7 DEF ExitIsLast
<1>9. <<t, received[t]>> \in Pipe
  BY <1>1, <1>8 DEF GotSent
<1>10. received[t] \in 1 .. NumMsgs \cup {1}
  BY <1>3, <1>9
<1>11. received[t] <= NumMsgs
  BY <1>1, <1>10
<1> QED
  BY <1>1, <1>6, <1>8, <1>11

\* A quiet step.
LEMMA QuietKeeps ==
  ASSUME PairsAssumption, IInv, Quiet
  PROVE  Pipes' /\ GotSent' /\ ExitIsLast' /\ Orderly'
<1>1. /\ UNCHANGED <<end, unread, attached, mailbox, refused>> /\ received' = received
      /\ loopPc' = "closed" <=> loopPc = "closed"
  BY DEF Quiet, pipeVars
<1>2. \A p \in Pipe : /\ Connected(p)' <=> Connected(p)
                      /\ WasSent(p)' <=> WasSent(p)
                      /\ Past(p)' <=> Past(p)
  BY DEF Quiet, SameSince
<1>3. /\ \A x, c, p : Mail(x, c, p)' <=> Mail(x, c, p)
      /\ \A p : Got(p)' <=> Got(p)
      /\ \A p, x : Talk(p, x)' <=> Talk(p, x)
  BY <1>1 DEF Mail, Got, Talk
<1>4. PipesOK'
  BY <1>1, TypedPipes DEF IInv, PipesOK
<1>5. Handshake'
  BY <1>1, <1>2, <1>3 DEF IInv, Handshake, Boxes
<1>6. Tidy'
  <2>1. \A s \in Socket : pc'[s] = "disconnect" => pc[s] = "disconnect" /\ sent'[s] = sent[s]
    BY DEF Quiet
  <2> QED
    BY <1>1, <1>2, <2>1 DEF IInv, Tidy
<1>7. Data'
  BY <1>1, <1>2, <1>3 DEF IInv, Data
<1>8. Binds'
  BY <1>1, <1>2, <1>3 DEF IInv, Binds, Precedes
<1>9. Freed'
  BY <1>1, <1>3 DEF IInv, Freed
<1>10. GotSent'
  BY <1>1, <1>2 DEF IInv, GotSent
<1>11. ExitIsLast'
  <2>1. loopPc = "closed" => \A t \in Thread : sent'[t] = sent[t]
    BY DEF Quiet, IInv, Places
  <2> QED
    BY <1>1, <2>1 DEF IInv, ExitIsLast
<1>12. Orderly'
  <2>1. NumMsgs > 0 /\ refused = {} /\ ~failed => ~failed'
    BY ResultsRight DEF Quiet, IInv
  <2> QED
    BY <1>1, <2>1 DEF IInv, Orderly
<1> QED
  BY <1>4, <1>5, <1>6, <1>7, <1>8, <1>9, <1>10, <1>11, <1>12 DEF Pipes

\* A queue of one.
LEMMA OneSeq ==
  ASSUME NEW S, NEW a \in S
  PROVE  <<a>> \in Seq(S)
OBVIOUS

\* What zmq_send finds and writes.
LEMMA SendFacts ==
  ASSUME PairsAssumption, IInv, NEW s \in Socket, Send(s), NEW p, p = <<s, sent[s]>>
  PROVE  /\ p \in Pipe /\ s = p[1] /\ s # Loop /\ attached[s] = p /\ end[p][s] = "active"
         /\ unread[p][Loop] = <<>> /\ end[p][Loop] \in {"active", "req1"}
         /\ unread' = [q \in Pipe |-> unread'[q]]
         /\ \A q \in Pipe : unread'[q] \in [Ends(q) -> Seq(Pipe \cup {Delimiter})]
         /\ \A q \in Pipe : \A y \in Ends(q) :
              unread'[q][y] = IF q = p /\ y = Loop THEN <<p>> ELSE unread[q][y]
         /\ UNCHANGED <<end, attached, mailbox, refused, sent, received, loopPc, failed>>
         /\ \A q \in Pipe : /\ Connected(q)' <=> Connected(q)
                            /\ WasSent(q)' <=> WasSent(q) \/ q = p
                            /\ Past(q)' <=> Past(q)
         /\ pc[s] = "send" /\ pc' = [pc EXCEPT ![s] = "disconnect"]
<1>1. /\ TypeOK /\ Places /\ Handshake /\ Tidy /\ Data /\ PipesOK /\ s \in User /\ s # Loop
  BY TypedPipes, PairsAssumption DEF IInv, User
<1>2. /\ pc[s] = "send" /\ attached[s] # None /\ end[attached[s]][s] = "active"
      /\ unread' = [unread EXCEPT ![attached[s]][Loop] = Append(@, p)]
      /\ UNCHANGED <<end, attached, mailbox, refused, sent, received, loopPc, failed>>
      /\ pc' = [pc EXCEPT ![s] = "disconnect"]
  BY DEF Send, At, To, CanWrite, progVars, After
<1>3. p \in Pipe /\ sent[s] \in Nat /\ p[1] = s /\ p[2] = sent[s]
  BY <1>1, <1>2, SentPipe
<1>4. attached[s] \in Pipe /\ Talk(attached[s], s) /\ attached[s][1] = s
  BY <1>1, <1>2, AttachedFacts
<1>5. PICK a \in Pipe : a = attached[s]
  BY <1>4
<1>6. Other(a, s) = Loop /\ Other(a, Loop) = s /\ Loop \in Ends(a)
  BY <1>1, <1>4, <1>5, PipeFacts DEF Other, Ends
<1>7. end[a][Loop] \in {"active", "req1"}
  BY <1>2, <1>4, <1>5, <1>6 DEF Talk, Agree, Half
<1>8. Connected(a)
  BY <1>1, <1>5, <1>7 DEF Handshake
<1>9. ~Past(a)
  BY <1>1, <1>2, <1>4, <1>5 DEF Tidy
<1>10. a[2] = sent[s]
  BY <1>4, <1>5, <1>8, <1>9 DEF Connected, Past, Since
<1>11. a = p
  BY <1>3, <1>4, <1>5, <1>10, SamePipe
<1>12. ~WasSent(p)
  BY <1>2, <1>3 DEF WasSent, Since
<1>13. ~In(Delimiter, unread[p][Loop])
  <2>1. Talk(p, Loop)
    BY <1>1, <1>3, <1>6, <1>11 DEF Handshake
  <2> QED
    BY <1>2, <1>5, <1>6, <1>11, <2>1 DEF Talk
<1>14. unread[p][Loop] = <<>>
  <2>1. /\ unread[p][Loop] \in {<<>>, <<p>>, <<Delimiter>>, <<p, Delimiter>>}
        /\ ~In(p, unread[p][Loop])
    BY <1>1, <1>3, <1>12 DEF Data
  <2> QED
    BY <1>3, <1>13, <2>1, Shapes
<1>15. /\ unread' = [q \in Pipe |-> unread'[q]]
       /\ \A q \in Pipe : unread'[q] \in [Ends(q) -> Seq(Pipe \cup {Delimiter})]
       /\ \A q \in Pipe : \A y \in Ends(q) :
            unread'[q][y] = IF q = p /\ y = Loop THEN <<p>> ELSE unread[q][y]
  <2>1. PICK v \in Seq(Pipe \cup {Delimiter}) : v = <<p>>
    BY <1>3, OneSeq
  <2>2. unread' = [unread EXCEPT ![p][Loop] = Append(unread[p][Loop], p)]
    BY <1>2, <1>5, <1>11
  <2>3. unread' = [unread EXCEPT ![p][Loop] = v]
    BY <1>3, <1>14, <2>1, <2>2, Shapes
  <2>4. /\ unread = [q \in Pipe |-> unread[q]]
        /\ \A q \in Pipe : unread[q] \in [Ends(q) -> Seq(Pipe \cup {Delimiter})]
    BY <1>1 DEF PipesOK
  <2> QED
    <3>1. p \in Pipe /\ Loop \in Ends(p)
      BY <1>3, <1>6, <1>11
    <3>2. /\ unread' = [q \in Pipe |-> unread'[q]]
          /\ \A q \in Pipe : unread'[q] \in [Ends(q) -> Seq(Pipe \cup {Delimiter})]
          /\ \A q \in Pipe : \A y \in Ends(q) :
               unread'[q][y] = IF q = p /\ y = Loop THEN v ELSE unread[q][y]
      BY <2>1, <2>3, <2>4, <3>1, UnreadPut
    <3> QED
      BY <2>1, <3>2
<1>16. ASSUME NEW q \in Pipe
       PROVE  /\ Connected(q)' <=> Connected(q)
              /\ WasSent(q)' <=> WasSent(q) \/ q = p
              /\ Past(q)' <=> Past(q)
  <2>1. q[1] \in Socket /\ pc \in [Socket -> Place] /\ sent' = sent
    BY <1>1, <1>2, PipeFacts DEF TypeOK, Place
  <2>2. CASE q[1] # s
    <3>1. pc'[q[1]] = pc[q[1]] /\ q # p
      BY <1>2, <1>3, <2>1, <2>2
    <3> QED
      BY <2>1, <3>1 DEF Connected, WasSent, Past, Since
  <2>3. CASE q[1] = s
    <3>1. pc'[q[1]] = "disconnect" /\ pc[q[1]] = "send"
      BY <1>2, <2>1, <2>3
    <3>2. q = p <=> q[2] = sent[s]
      BY <1>3, <2>3, SamePipe
    <3> QED
      BY <2>1, <2>3, <3>1, <3>2 DEF Connected, WasSent, Past, Since
  <2> QED
    BY <2>2, <2>3
<1> QED
  BY <1>1, <1>2, <1>3, <1>5, <1>7, <1>11, <1>14, <1>15, <1>16

\* zmq_send.
LEMMA SendKeeps ==
  ASSUME PairsAssumption, IInv, NEW s \in Socket, Send(s)
  PROVE  Pipes' /\ GotSent' /\ ExitIsLast' /\ Orderly'
<1> DEFINE p == <<s, sent[s]>>
<1>1. /\ p \in Pipe /\ s = p[1] /\ s # Loop /\ attached[s] = p /\ end[p][s] = "active"
      /\ unread[p][Loop] = <<>> /\ end[p][Loop] \in {"active", "req1"}
      /\ unread' = [q \in Pipe |-> unread'[q]]
      /\ \A q \in Pipe : unread'[q] \in [Ends(q) -> Seq(Pipe \cup {Delimiter})]
      /\ \A q \in Pipe : \A y \in Ends(q) :
           unread'[q][y] = IF q = p /\ y = Loop THEN <<p>> ELSE unread[q][y]
      /\ UNCHANGED <<end, attached, mailbox, refused, sent, received, loopPc, failed>>
      /\ \A q \in Pipe : /\ Connected(q)' <=> Connected(q)
                         /\ WasSent(q)' <=> WasSent(q) \/ q = p
                         /\ Past(q)' <=> Past(q)
      /\ pc[s] = "send" /\ pc' = [pc EXCEPT ![s] = "disconnect"]
  BY SendFacts
<1>2. p[2] = sent[s]
  OBVIOUS
<1> HIDE DEF p
<1>3. /\ TypeOK /\ Places /\ Handshake /\ Tidy /\ Data /\ Binds /\ Freed /\ PipesOK
      /\ GotSent /\ ExitIsLast /\ Orderly
  BY TypedPipes DEF IInv
<1>4. /\ \A x, c, q : Mail(x, c, q)' <=> Mail(x, c, q)
      /\ \A q : Got(q)' <=> Got(q)
      /\ \A q \in Pipe : Loop \in Ends(q)
  BY <1>1 DEF Mail, Got, Ends
<1>5. PipesOK'
  BY <1>1, <1>3 DEF PipesOK
<1>6. Handshake'
  <2>0. ~In(Delimiter, <<p>>)
    BY <1>1, Shapes
  <2>1. \A q \in Pipe : \A y \in Ends(q) : In(Delimiter, unread'[q][y]) => In(Delimiter, unread[q][y])
    <3> SUFFICES ASSUME NEW q \in Pipe, NEW y \in Ends(q), In(Delimiter, unread'[q][y])
                 PROVE  In(Delimiter, unread[q][y])
      OBVIOUS
    <3>1. ~(q = p /\ y = Loop)
      BY <1>1, <2>0
    <3> QED
      BY <1>1, <3>1
  <2>2. ASSUME NEW q \in Pipe, NEW y \in Ends(q) PROVE Talk(q, y)'
    <3>1. Talk(q, y)
      BY <1>3 DEF Handshake
    <3> QED
      BY <1>1, <1>4, <2>1, <3>1 DEF Talk
  <2> QED
    BY <1>1, <1>3, <2>2 DEF Handshake, Boxes
<1>7. Tidy'
  <2>1. ASSUME NEW r \in Socket, pc'[r] = "disconnect"
        PROVE  attached[r] = <<r, sent[r]>> /\ end[attached[r]][r] \in {"active", "waiting"}
    <3>1. CASE r = s
      BY <1>1, <3>1 DEF p
    <3>2. CASE r # s
      <4>1. pc[r] = "disconnect"
        BY <1>1, <1>3, <2>1, <3>2 DEF TypeOK
      <4> QED
        BY <1>3, <4>1 DEF Tidy
    <3> QED
      BY <3>1, <3>2
  <2> QED
    BY <1>1, <1>3, <2>1 DEF Tidy
<1>8. Data'
  <2>1. ASSUME NEW q \in Pipe PROVE DataOf(q)'
    <3>1. DataOf(q)
      BY <1>3 DEF Data, DataOf
    <3>2. CASE q = p
      <4>1. unread'[q][Loop] = <<q>> /\ In(q, <<q>>) /\ WasSent(q)'
        BY <1>1, <1>4, <3>2, Shapes
      <4> QED
        BY <1>1, <1>4, <3>1, <3>2, <4>1 DEF DataOf
    <3>3. CASE q # p
      BY <1>1, <1>4, <3>1, <3>3 DEF DataOf
    <3> QED
      BY <3>2, <3>3
  <2> QED
    BY <2>1 DEF Data, DataOf
<1>9. Binds'
  BY <1>1, <1>3, <1>4 DEF Binds, Precedes
<1>10. Freed'
  BY <1>1, <1>3, <1>4 DEF Freed
<1>11. GotSent'
  BY <1>1, <1>3 DEF GotSent
<1>12. ExitIsLast'
  BY <1>1, <1>3 DEF ExitIsLast
<1>13. Orderly'
  <2>1. ASSUME p # Exit PROVE received[s] < sent[s]
    <3>1. s \in Thread /\ received[s] \in Nat /\ sent[s] \in Nat /\ sent[s] > 0
      BY <1>1, <1>2, <1>3, <2>1, PipeFacts DEF TypeOK, Places
    <3>2. CASE received[s] > 0
      <4>1. <<s, received[s]>> \in Pipe /\ WasSent(<<s, received[s]>>)
        BY <1>3, <3>1, <3>2 DEF GotSent
      <4>2. received[s] < sent[s] \/ (received[s] = sent[s] /\ pc[s] \in {"disconnect", "head", "ended"})
        BY <4>1 DEF WasSent, Since
      <4> QED
        BY <1>1, <4>2
    <3> QED
      BY <3>1, <3>2
  <2>2. ASSUME NumMsgs > 0, refused = {}, NEW q \in Pipe, q # Exit, In(q, unread'[q][Loop])
        PROVE  received[q[1]] < q[2]
    <3>1. CASE q = p
      BY <1>1, <1>2, <2>1, <2>2, <3>1
    <3>2. CASE q # p
      BY <1>1, <1>3, <1>4, <2>2, <3>2 DEF Orderly
    <3> QED
      BY <3>1, <3>2
  <2> QED
    BY <1>1, <1>3, <2>2 DEF Orderly
<1> QED
  BY <1>5, <1>6, <1>7, <1>8, <1>9, <1>10, <1>11, <1>12, <1>13 DEF Pipes

\* A message that is received takes nothing away that the pipes depend on.
LEMMA ReceivedKeeps ==
  ASSUME PairsAssumption, IInv, NEW m \in Pipe, Received(m), Got(m)',
         \A q \in Pipe : Got(q) => Got(q)'
  PROVE  /\ Pipes'
         /\ \A q \in Pipe : In(q, unread'[q][Loop]) => In(q, unread[q][Loop]) /\ q # m
<1>1. /\ TypeOK /\ Places /\ Handshake /\ Tidy /\ Data /\ Binds /\ Freed /\ PipesOK
  BY TypedPipes DEF IInv
<1>2. /\ attached[Loop] = m /\ WasSent(m) /\ In(m, unread[m][Loop])
      /\ ~Mail(Loop, "bind", m) /\ end[m][Loop] \in Live
      /\ unread[m][Loop] \in {<<m>>, <<m, Delimiter>>}
      /\ unread' = [unread EXCEPT ![m][Loop] = Tail(@)]
      /\ UNCHANGED <<sent, pc, end, attached, mailbox, refused>>
  BY <1>1, ReceivedFacts
<1>3. \A q \in Pipe : Loop \in Ends(q)
  BY DEF Ends
<1>4. /\ unread = [q \in Pipe |-> unread[q]]
      /\ \A q \in Pipe : unread[q] \in [Ends(q) -> Seq(Pipe \cup {Delimiter})]
  BY <1>1 DEF PipesOK
<1>5. PICK v \in Seq(Pipe \cup {Delimiter}) : v = Tail(unread[m][Loop]) /\ v \in {<<>>, <<Delimiter>>}
  <2>1. Tail(unread[m][Loop]) \in {<<>>, <<Delimiter>>}
    BY <1>2, Shapes
  <2>2. <<Delimiter>> \in Seq(Pipe \cup {Delimiter}) /\ <<>> \in Seq(Pipe \cup {Delimiter})
    BY OneSeq
  <2> QED
    BY <2>1, <2>2
<1>6. unread' = [unread EXCEPT ![m][Loop] = v]
  BY <1>2, <1>5
<1>7. /\ unread' = [q \in Pipe |-> unread'[q]]
      /\ \A q \in Pipe : unread'[q] \in [Ends(q) -> Seq(Pipe \cup {Delimiter})]
      /\ \A q \in Pipe : \A y \in Ends(q) :
           unread'[q][y] = IF q = m /\ y = Loop THEN v ELSE unread[q][y]
  BY <1>3, <1>4, <1>5, <1>6, UnreadPut
<1>8. ~In(m, v) /\ (In(Delimiter, v) => In(Delimiter, unread[m][Loop]))
  <2>1. ~In(m, <<>>) /\ ~In(m, <<Delimiter>>)
    BY Shapes
  <2>2. unread[m][Loop] # <<>> /\ unread[m][Loop] \in Seq(Pipe \cup {Delimiter})
    <3>1. In(m, unread[m][Loop]) /\ ~In(m, <<>>)
      BY <1>2, Shapes
    <3> QED
      BY <1>3, <1>4, <3>1
  <2> QED
    BY <1>5, <2>1, <2>2, TakenOff
<1>9. /\ \A x, c, q : Mail(x, c, q)' <=> Mail(x, c, q)
      /\ \A q \in Pipe : /\ Connected(q)' <=> Connected(q)
                         /\ WasSent(q)' <=> WasSent(q)
                         /\ Past(q)' <=> Past(q)
  BY <1>2 DEF Mail, Connected, WasSent, Past, Since
<1>10. PipesOK'
  BY <1>1, <1>2, <1>7 DEF PipesOK
<1>11. Handshake'
  <2>1. ASSUME NEW q \in Pipe, NEW y \in Ends(q) PROVE Talk(q, y)'
    <3>1. Talk(q, y) /\ (In(Delimiter, unread'[q][y]) => In(Delimiter, unread[q][y]))
      BY <1>1, <1>7, <1>8 DEF Handshake
    <3> QED
      BY <1>2, <1>9, <3>1 DEF Talk
  <2> QED
    BY <1>1, <1>2, <1>9, <2>1 DEF Handshake, Boxes
<1>12. Tidy'
  BY <1>1, <1>2, <1>9 DEF Tidy
<1>13. Data'
  <2>1. ASSUME NEW q \in Pipe PROVE DataOf(q)'
    <3>1. DataOf(q)
      BY <1>1 DEF Data, DataOf
    <3>2. CASE q = m
      <4>1. unread'[q][Loop] = v /\ ~In(q, v) /\ v \in {<<>>, <<Delimiter>>} /\ Got(q)'
        BY <1>3, <1>5, <1>7, <1>8, <3>2
      <4>2. unread[q][Loop] # <<>>
        BY <1>2, <3>2, Shapes
      <4> QED
        BY <1>2, <1>9, <3>1, <4>1, <4>2 DEF DataOf
    <3>3. CASE q # m
      <4>1. unread'[q][Loop] = unread[q][Loop]
        BY <1>3, <1>7, <3>3
      <4>2. Got(q) => Got(q)'
        OBVIOUS
      <4> QED
        BY <1>2, <1>9, <3>1, <4>1, <4>2 DEF DataOf
    <3> QED
      BY <3>2, <3>3
  <2> QED
    BY <2>1 DEF Data, DataOf
<1>14. Binds'
  BY <1>1, <1>2, <1>9 DEF Binds, Precedes
<1>15. Freed'
  BY <1>1, <1>2, <1>9 DEF Freed
<1>16. \A q \in Pipe : In(q, unread'[q][Loop]) => In(q, unread[q][Loop]) /\ q # m
  BY <1>3, <1>7, <1>8
<1> QED
  BY <1>10, <1>11, <1>12, <1>13, <1>14, <1>15, <1>16 DEF Pipes

-----------------------------------------------------------------------------
(***************************************************************************)
(* What zmq_connect does.                                                  *)
(***************************************************************************)

\* The pipe that is made is new.
LEMMA ConnectNew ==
  ASSUME PairsAssumption, IInv, NEW s \in Socket, Connect(s), NEW p, p = <<s, sent[s]>>
  PROVE  /\ p \in Pipe /\ p[1] = s /\ p[2] = sent[s] /\ s # Loop /\ s \in User /\ Loop \in User
         /\ s \in Ends(p) /\ Loop \in Ends(p) /\ Other(p, s) = Loop /\ Other(p, Loop) = s
         /\ \A y \in Ends(p) : y = s \/ y = Loop
         /\ pc[s] = "connect" /\ pc'[s] \in {"poll", "send"}
         /\ \A r \in Socket : r # s => pc'[r] = pc[r]
         /\ UNCHANGED <<sent, received, loopPc, failed, refused>>
         /\ ~Connected(p) /\ end[p][Loop] = "none" /\ end[p][s] = "none"
         /\ unread[p][Loop] = <<>> /\ ~In(Delimiter, unread[p][s])
         /\ \A y \in User : \A c \in {"bind", "pipe_term", "pipe_term_ack"} : ~Mail(y, c, p)
         /\ \A q \in Pipe : /\ Connected(q)' <=> Connected(q) \/ q = p
                            /\ WasSent(q)' <=> WasSent(q)
                            /\ Past(q)' <=> Past(q)
<1>1. /\ TypeOK /\ Places /\ Handshake /\ Data /\ pc \in [Socket -> Place]
  BY DEF IInv, TypeOK, Place
<1>2. /\ pc[s] = "connect" /\ UNCHANGED <<sent, received, loopPc, failed, refused>>
      /\ \E where \in {"poll", "send"} : pc' = [pc EXCEPT ![s] = where]
  BY DEF Connect, At, To, After, progVars
<1>3. pc'[s] \in {"poll", "send"} /\ \A r \in Socket : r # s => pc'[r] = pc[r]
  BY <1>1, <1>2
<1>4. p \in Pipe /\ p[1] = s /\ p[2] = sent[s]
  BY <1>1, <1>2, SentPipe
<1>5. /\ s # Loop /\ s \in User /\ Loop \in User /\ s \in Ends(p) /\ Loop \in Ends(p)
      /\ Other(p, s) = Loop /\ Other(p, Loop) = s /\ \A y \in Ends(p) : y = s \/ y = Loop
      /\ Loop \notin Socket
  BY <1>4, PipeFacts, EndFacts, PairsAssumption DEF Ends
<1>6. ~Connected(p) /\ ~WasSent(p)
  BY <1>2, <1>4, PipeFacts DEF Connected, WasSent, Since
<1>7. Talk(p, Loop) /\ Talk(p, s) /\ end[p][Loop] = "none"
  BY <1>1, <1>4, <1>5, <1>6 DEF Handshake
<1>8. end[p][s] = "none"
  BY <1>5, <1>7 DEF Talk, Agree, Half
<1>9. /\ ~In(Delimiter, unread[p][Loop]) /\ ~In(Delimiter, unread[p][s])
      /\ \A c \in {"bind", "pipe_term", "pipe_term_ack"} : ~Mail(Loop, c, p) /\ ~Mail(s, c, p)
  BY <1>5, <1>7, <1>8 DEF Talk, TermDue, AckDue
<1>10. unread[p][Loop] = <<>>
  <2>1. /\ unread[p][Loop] \in {<<>>, <<p>>, <<Delimiter>>, <<p, Delimiter>>}
        /\ ~In(p, unread[p][Loop])
    BY <1>1, <1>4, <1>6 DEF Data
  <2> QED
    BY <1>4, <1>9, <2>1, Shapes
<1>11. ASSUME NEW y \in User, NEW c \in {"bind", "pipe_term", "pipe_term_ack"} PROVE ~Mail(y, c, p)
  <2>1. CASE y = Loop
    BY <1>9, <2>1
  <2>2. CASE y \in Socket
    <3>1. Mail(y, c, p) => p[1] = y
      BY <1>1, <2>2, CmdFacts DEF Handshake, Boxes, Mail
    <3> QED
      BY <1>4, <1>9, <3>1
  <2> QED
    BY <2>1, <2>2 DEF User
<1>12. ASSUME NEW q \in Pipe
       PROVE  /\ Connected(q)' <=> Connected(q) \/ q = p
              /\ WasSent(q)' <=> WasSent(q)
              /\ Past(q)' <=> Past(q)
  <2>1. q[1] \in Socket /\ sent' = sent
    BY <1>2, PipeFacts
  <2>2. CASE q[1] # s
    <3>1. pc'[q[1]] = pc[q[1]] /\ q # p
      BY <1>3, <1>4, <2>1, <2>2
    <3> QED
      BY <2>1, <3>1 DEF Connected, WasSent, Past, Since
  <2>3. CASE q[1] = s
    <3>1. pc'[q[1]] \in {"poll", "send"} /\ pc[q[1]] = "connect"
      BY <1>2, <1>3, <2>3
    <3>2. q = p <=> q[2] = sent[s]
      BY <1>4, <2>3, SamePipe
    <3> QED
      BY <2>1, <2>3, <3>1, <3>2 DEF Connected, WasSent, Past, Since
  <2> QED
    BY <2>2, <2>3
<1> QED
  BY <1>2, <1>3, <1>4, <1>5, <1>6, <1>7, <1>8, <1>9, <1>10, <1>11, <1>12

\* Both its ends are there, and what the loop can read of it.
LEMMA ConnectEnds ==
  ASSUME PairsAssumption, IInv, NEW s \in Socket, Connect(s), NEW p, p = <<s, sent[s]>>
  PROVE  LET room == attached[s] = None IN
         /\ end' = [q \in Pipe |-> end'[q]] /\ \A q \in Pipe : end'[q] \in [Ends(q) -> EndState]
         /\ \A q \in Pipe : \A y \in Ends(q) :
              end'[q][y] = IF q # p THEN end[q][y]
                           ELSE IF y = Loop \/ room THEN "active" ELSE "req1"
         /\ unread' = [q \in Pipe |-> unread'[q]]
         /\ \A q \in Pipe : unread'[q] \in [Ends(q) -> Seq(Pipe \cup {Delimiter})]
         /\ \A q \in Pipe : \A y \in Ends(q) :
              unread'[q][y] = IF q = p /\ y = Loop /\ ~room THEN <<Delimiter>> ELSE unread[q][y]
         /\ attached' \in [User -> Pipe \cup {None}]
         /\ \A y \in User : attached'[y] = IF y = s /\ room THEN p ELSE attached[y]
<1> DEFINE room == attached[s] = None
<1>1. /\ p \in Pipe /\ s # Loop /\ s \in User /\ s \in Ends(p) /\ Loop \in Ends(p)
      /\ \A y \in Ends(p) : y = s \/ y = Loop
  BY ConnectNew
<1>2. PipesOK
  BY TypedPipes DEF IInv
<1>3. PICK v : v = IF room THEN "active" ELSE "req1"
  OBVIOUS
<1>4. /\ end' = [end EXCEPT ![p][s] = v, ![p][Loop] = "active"]
      /\ unread' = IF room THEN unread ELSE [unread EXCEPT ![p][Loop] = <<Delimiter>>]
      /\ attached' = [attached EXCEPT ![s] = IF room THEN p ELSE attached[s]]
  BY <1>3 DEF Connect
<1>5. v \in EndState /\ "active" \in EndState
  BY <1>3 DEF EndState
<1> HIDE DEF room
<1>6. end = [q \in Pipe |-> end[q]] /\ \A q \in Pipe : end[q] \in [Ends(q) -> EndState]
  BY <1>2 DEF PipesOK
<1>7. PICK w \in EndState : w = "active"
  BY <1>5
<1>8. p \in Pipe /\ s \in Ends(p) /\ Loop \in Ends(p)
  BY <1>1
<1>9. /\ end' = [q \in Pipe |-> end'[q]] /\ \A q \in Pipe : end'[q] \in [Ends(q) -> EndState]
      /\ \A q \in Pipe : \A y \in Ends(q) :
           end'[q][y] = IF q = p /\ y = Loop THEN w ELSE IF q = p /\ y = s THEN v ELSE end[q][y]
  <2>1. DOMAIN end = Pipe
    BY <1>6
  <2>2. PICK h : h = [[end[p] EXCEPT ![s] = v] EXCEPT ![Loop] = w]
    OBVIOUS
  <2>3. end' = [q \in Pipe |-> IF q = p THEN h ELSE end[q]]
    BY <1>4, <1>7, <2>1, <2>2
  <2>4. /\ h \in [Ends(p) -> EndState]
        /\ \A y \in Ends(p) : h[y] = IF y = Loop THEN w ELSE IF y = s THEN v ELSE end[p][y]
    BY <1>5, <1>6, <1>7, <1>8, <2>2
  <2> QED
    BY <1>6, <1>8, <2>3, <2>4
<1>10. \A q \in Pipe : \A y \in Ends(q) :
         end'[q][y] = IF q # p THEN end[q][y] ELSE IF y = Loop \/ room THEN "active" ELSE "req1"
  BY <1>1, <1>3, <1>7, <1>9
<1>11. /\ unread = [q \in Pipe |-> unread[q]]
       /\ \A q \in Pipe : unread[q] \in [Ends(q) -> Seq(Pipe \cup {Delimiter})]
  BY <1>2 DEF PipesOK
<1>12. /\ unread' = [q \in Pipe |-> unread'[q]]
       /\ \A q \in Pipe : unread'[q] \in [Ends(q) -> Seq(Pipe \cup {Delimiter})]
       /\ \A q \in Pipe : \A y \in Ends(q) :
            unread'[q][y] = IF q = p /\ y = Loop /\ ~room THEN <<Delimiter>> ELSE unread[q][y]
  <2>1. CASE room
    <3>1. unread' = unread
      BY <1>4, <2>1
    <3> QED
      BY <1>11, <2>1, <3>1
  <2>2. CASE ~room
    <3>1. PICK d \in Seq(Pipe \cup {Delimiter}) : d = <<Delimiter>>
      BY OneSeq
    <3>2. unread' = [unread EXCEPT ![p][Loop] = d]
      BY <1>4, <2>2, <3>1
    <3>3. p \in Pipe /\ Loop \in Ends(p)
      BY <1>1
    <3>4. /\ unread' = [q \in Pipe |-> unread'[q]]
          /\ \A q \in Pipe : unread'[q] \in [Ends(q) -> Seq(Pipe \cup {Delimiter})]
          /\ \A q \in Pipe : \A y \in Ends(q) :
               unread'[q][y] = IF q = p /\ y = Loop THEN d ELSE unread[q][y]
      BY <1>11, <3>1, <3>2, <3>3, UnreadPut
    <3> QED
      BY <2>2, <3>1, <3>4
  <2> QED
    BY <2>1, <2>2
<1>13. /\ attached' \in [User -> Pipe \cup {None}]
       /\ \A y \in User : attached'[y] = IF y = s /\ room THEN p ELSE attached[y]
  BY <1>1, <1>2, <1>4 DEF PipesOK
<1> QED
  BY <1>9, <1>10, <1>12, <1>13 DEF room

\* The main loop's PAIR is told of it, and, where the thread's has no room, of its end.
LEMMA ConnectMail ==
  ASSUME PairsAssumption, IInv, NEW s \in Socket, Connect(s), NEW p, p = <<s, sent[s]>>
  PROVE  LET room == attached[s] = None IN
         /\ mailbox' \in [User -> Seq(CmdType)]
         /\ \A y \in User : y # Loop => mailbox'[y] = mailbox[y]
         /\ \A y \in User : \A c, q :
              Mail(y, c, q)' <=> \/ Mail(y, c, q)
                                 \/ y = Loop /\ q = p /\ (c = "bind" \/ (~room /\ c = "pipe_term"))
         /\ \A y \in User : Distinct(mailbox'[y])
         /\ \A c, d, q, r : Order(mailbox[Loop], Cmd(c, q), Cmd(d, r)) /\ q # p =>
                            Order(mailbox'[Loop], Cmd(c, q), Cmd(d, r))
         /\ Order(mailbox'[Loop], Cmd("bind", p), Cmd("pipe_term", p))
<1> DEFINE room == attached[s] = None  b == Cmd("bind", p)  t == Cmd("pipe_term", p)
           old == mailbox[Loop]  mid == Append(old, b)  new == mailbox'[Loop]
<1>1. /\ p \in Pipe /\ Loop \in User
      /\ \A y \in User : \A c \in {"bind", "pipe_term", "pipe_term_ack"} : ~Mail(y, c, p)
  BY ConnectNew
<1>2. mailbox \in [User -> Seq(CmdType)] /\ \A y \in User : Distinct(mailbox[y])
  BY TypedPipes DEF IInv, PipesOK, Handshake, Boxes
<1>3. old \in Seq(CmdType) /\ Distinct(old) /\ ~In(b, old) /\ ~In(t, old)
  BY <1>1, <1>2 DEF Mail
<1>4. /\ b \in CmdType /\ t \in CmdType /\ b # t
      /\ \A c, d, q, r : Cmd(c, q) = Cmd(d, r) <=> c = d /\ q = r
  BY <1>1, CmdFacts
<1>5. mailbox' = [mailbox EXCEPT ![Loop] =
        @ \o <<b>> \o (IF room THEN <<>> ELSE Reply("active", "req1", p))]
  BY DEF Connect, Cmd
<1>6. Reply("active", "req1", p) = <<t>>
  BY Replies DEF Asks
<1>7. \A y \in User : y # Loop => mailbox'[y] = mailbox[y]
  BY <1>2, <1>5
<1> HIDE DEF b, t, room
<1>8. new = IF room THEN mid ELSE Append(mid, t)
  <2>1. new = (old \o <<b>>) \o (IF room THEN <<>> ELSE <<t>>)
    BY <1>1, <1>2, <1>5, <1>6
  <2>2. old \o <<b>> = mid /\ mid \in Seq(CmdType)
    BY <1>3, <1>4, Added
  <2>3. mid \o <<>> = mid /\ mid \o <<t>> = Append(mid, t)
    BY <1>4, <2>2, Added
  <2> HIDE DEF old, mid, new
  <2> QED
    BY <2>1, <2>2, <2>3
<1> HIDE DEF old, new
<1>9. /\ mid \in Seq(CmdType) /\ \A a : In(a, mid) <=> In(a, old) \/ a = b
      /\ Distinct(mid)
      /\ \A a, d : Order(old, a, d) /\ (a = b => ~In(d, old) /\ d # b) => Order(mid, a, d)
  BY <1>3, <1>4, Added
<1>10. Order(mid, b, t) /\ ~In(t, mid)
  BY <1>3, <1>4, <1>9 DEF Order, In
<1> HIDE DEF mid
<1>11. /\ new \in Seq(CmdType) /\ \A a : In(a, new) <=> In(a, old) \/ a = b \/ (~room /\ a = t)
       /\ Distinct(new) /\ Order(new, b, t)
       /\ \A a, d : Order(old, a, d) /\ a # b /\ a # t => Order(new, a, d)
  <2>1. CASE room
    BY <1>8, <1>9, <1>10, <2>1
  <2>2. CASE ~room
    <3>1. new = Append(mid, t)
      BY <1>8, <2>2
    <3>2. /\ Append(mid, t) \in Seq(CmdType) /\ Distinct(Append(mid, t))
          /\ \A a : In(a, Append(mid, t)) <=> In(a, mid) \/ a = t
          /\ \A a, d : Order(mid, a, d) /\ a # t => Order(Append(mid, t), a, d)
      BY <1>4, <1>9, <1>10, Added
    <3> QED
      BY <1>4, <1>9, <1>10, <2>2, <3>1, <3>2
  <2> QED
    BY <2>1, <2>2
<1>12. mailbox' \in [User -> Seq(CmdType)]
  <2>1. mailbox' = [y \in User |-> mailbox'[y]]
    BY <1>2, <1>5
  <2>2. \A y \in User : mailbox'[y] \in Seq(CmdType)
    BY <1>2, <1>7, <1>11 DEF new
  <2> QED
    BY <2>1, <2>2
<1>13. ASSUME NEW y \in User, NEW c, NEW q
       PROVE  Mail(y, c, q)' <=> \/ Mail(y, c, q)
                                 \/ y = Loop /\ q = p /\ (c = "bind" \/ (~room /\ c = "pipe_term"))
  <2>1. CASE y # Loop
    BY <1>7, <2>1 DEF Mail
  <2>2. CASE y = Loop
    <3>1. In(Cmd(c, q), new) <=> In(Cmd(c, q), old) \/ Cmd(c, q) = b \/ (~room /\ Cmd(c, q) = t)
      BY <1>11
    <3>2. /\ Cmd(c, q) = b <=> c = "bind" /\ q = p
          /\ Cmd(c, q) = t <=> c = "pipe_term" /\ q = p
      BY <1>4 DEF b, t
    <3>3. (Mail(y, c, q)' <=> In(Cmd(c, q), new)) /\ (Mail(y, c, q) <=> In(Cmd(c, q), old))
      BY <2>2 DEF Mail, new, old
    <3> QED
      BY <2>2, <3>1, <3>2, <3>3
  <2> QED
    BY <2>1, <2>2
<1>14. \A y \in User : Distinct(mailbox'[y])
  BY <1>2, <1>7, <1>11 DEF new
<1>15. ASSUME NEW c, NEW d, NEW q, NEW r, Order(mailbox[Loop], Cmd(c, q), Cmd(d, r)), q # p
       PROVE  Order(mailbox'[Loop], Cmd(c, q), Cmd(d, r))
  <2>1. Cmd(c, q) # b /\ Cmd(c, q) # t
    BY <1>4, <1>15 DEF b, t
  <2> QED
    BY <1>11, <1>15, <2>1 DEF new, old
<1>16. Order(mailbox'[Loop], Cmd("bind", p), Cmd("pipe_term", p))
  BY <1>11 DEF new, b, t
<1> QED
  BY <1>7, <1>12, <1>13, <1>14, <1>15, <1>16 DEF room

\* The two ends of the new pipe and the commands between them are in agreement.
LEMMA ConnectHandshake ==
  ASSUME PairsAssumption, IInv, NEW s \in Socket, Connect(s)
  PROVE  Handshake'
<1> DEFINE room == attached[s] = None
<1>0. PICK p : p = <<s, sent[s]>>
  OBVIOUS
<1>1. /\ p \in Pipe /\ p[1] = s /\ s # Loop /\ s \in User /\ Loop \in User
      /\ Other(p, s) = Loop /\ Other(p, Loop) = s /\ \A y \in Ends(p) : y = s \/ y = Loop
      /\ s \in Ends(p) /\ Loop \in Ends(p) /\ ~In(Delimiter, unread[p][s])
      /\ unread[p][Loop] = <<>>
      /\ \A y \in User : \A c \in {"bind", "pipe_term", "pipe_term_ack"} : ~Mail(y, c, p)
      /\ \A q \in Pipe : Connected(q)' <=> Connected(q) \/ q = p
  BY <1>0, ConnectNew
<1>2. /\ \A q \in Pipe : \A y \in Ends(q) :
           end'[q][y] = IF q # p THEN end[q][y]
                        ELSE IF y = Loop \/ room THEN "active" ELSE "req1"
      /\ \A q \in Pipe : \A y \in Ends(q) :
           unread'[q][y] = IF q = p /\ y = Loop /\ ~room THEN <<Delimiter>> ELSE unread[q][y]
      /\ \A y \in User : attached'[y] = IF y = s /\ room THEN p ELSE attached[y]
  BY <1>0, ConnectEnds
<1>3. /\ \A y \in User : y # Loop => mailbox'[y] = mailbox[y]
      /\ \A y \in User : \A c, q :
           Mail(y, c, q)' <=> \/ Mail(y, c, q)
                              \/ y = Loop /\ q = p /\ (c = "bind" \/ (~room /\ c = "pipe_term"))
      /\ \A y \in User : Distinct(mailbox'[y])
      /\ \A c, d, q, r : Order(mailbox[Loop], Cmd(c, q), Cmd(d, r)) /\ q # p =>
                         Order(mailbox'[Loop], Cmd(c, q), Cmd(d, r))
      /\ Order(mailbox'[Loop], Cmd("bind", p), Cmd("pipe_term", p))
  BY <1>0, ConnectMail
<1> HIDE DEF room
<1>4. Handshake /\ Loop \notin Socket /\ Socket \subseteq User
  BY PairsAssumption DEF IInv, User
<1>5. Boxes'
  <2>1. ASSUME NEW r \in Socket
        PROVE  /\ \A m : In(m, mailbox'[r]) => m.of[1] = r
               /\ attached'[r] # None => attached'[r][1] = r
    <3>1. r \in User /\ r # Loop
      BY <1>4
    <3>2. mailbox'[r] = mailbox[r] /\ attached'[r] = IF r = s /\ room THEN p ELSE attached[r]
      BY <1>2, <1>3, <3>1
    <3> QED
      BY <1>1, <1>4, <3>2 DEF Handshake, Boxes
  <2> QED
    BY <1>3, <2>1 DEF Boxes
<1>6. ASSUME NEW q \in Pipe, q # p, NEW y \in Ends(q) PROVE Talk(q, y)'
  <2>1. y \in User /\ Other(q, y) \in Ends(q) /\ Talk(q, y)
    BY <1>4, EndFacts DEF Handshake
  <2>2. end'[q][y] = end[q][y] /\ end'[q][Other(q, y)] = end[q][Other(q, y)]
    BY <1>2, <1>6, <2>1
  <2>3. \A c : Mail(y, c, q)' <=> Mail(y, c, q)
    BY <1>3, <1>6, <2>1
  <2>4. \A c, d : Order(mailbox[y], Cmd(c, q), Cmd(d, q)) =>
                  Order(mailbox'[y], Cmd(c, q), Cmd(d, q))
    BY <1>3, <1>6, <2>1
  <2>5. unread'[q][y] = unread[q][y]
    BY <1>2, <1>6
  <2> QED
    BY <2>1, <2>2, <2>3, <2>4, <2>5 DEF Talk
<1>7. /\ end'[p][Loop] = "active" /\ end'[p][s] = IF room THEN "active" ELSE "req1"
      /\ unread'[p][Loop] = IF room THEN <<>> ELSE <<Delimiter>>
      /\ unread'[p][s] = unread[p][s]
  BY <1>1, <1>2
<1>8. \A y, a, b : ~In(a, mailbox'[y]) \/ ~In(b, mailbox'[y]) => Order(mailbox'[y], a, b)
  BY DEF In, Order
<1>9. Talk(p, Loop)'
  <2>1. /\ ~Mail(Loop, "pipe_term_ack", p)' /\ (Mail(Loop, "pipe_term", p)' <=> ~room)
    BY <1>1, <1>3
  <2>2. Order(mailbox'[Loop], Cmd("pipe_term", p), Cmd("pipe_term_ack", p))
    BY <1>8, <2>1 DEF Mail
  <2>3. In(Delimiter, unread'[p][Loop]) => ~room
    <3>1. ~In(Delimiter, <<>>)
      BY DEF In
    <3> QED
      BY <1>7, <3>1
  <2> QED
    BY <1>1, <1>3, <1>7, <2>1, <2>2, <2>3 DEF Talk, Agree, Half, TermDue, AckDue
<1>10. Talk(p, s)'
  <2>1. \A c \in {"bind", "pipe_term", "pipe_term_ack"} : ~Mail(s, c, p)'
    BY <1>1, <1>3
  <2>2. /\ Order(mailbox'[s], Cmd("pipe_term", p), Cmd("pipe_term_ack", p))
        /\ Order(mailbox'[s], Cmd("bind", p), Cmd("pipe_term", p))
    BY <1>8, <2>1 DEF Mail
  <2> QED
    BY <1>1, <1>7, <2>1, <2>2 DEF Talk, Agree, Half, TermDue, AckDue
<1>11. ASSUME NEW q \in Pipe PROVE Connected(q)' <=> end'[q][Loop] # "none"
  <2>1. Loop \in Ends(q)
    BY DEF Ends
  <2>2. Connected(q) <=> end[q][Loop] # "none"
    BY <1>4 DEF Handshake
  <2> QED
    BY <1>1, <1>2, <1>7, <2>1, <2>2
<1> QED
  BY <1>1, <1>5, <1>6, <1>9, <1>10, <1>11 DEF Handshake

\* A thread's PAIR has the new pipe where it had none.
LEMMA ConnectTidy ==
  ASSUME PairsAssumption, IInv, NEW s \in Socket, Connect(s)
  PROVE  Tidy'
<1> DEFINE room == attached[s] = None
<1>0. PICK p : p = <<s, sent[s]>>
  OBVIOUS
<1>1. /\ p \in Pipe /\ p[1] = s /\ s # Loop /\ s \in User
      /\ s \in Ends(p) /\ ~Connected(p) /\ end[p][s] = "none"
      /\ pc'[s] \in {"poll", "send"} /\ sent' = sent
      /\ \A r \in Socket : r # s => pc'[r] = pc[r]
      /\ \A q \in Pipe : (WasSent(q)' <=> WasSent(q)) /\ (Past(q)' <=> Past(q))
  BY <1>0, ConnectNew
<1>2. /\ \A q \in Pipe : \A y \in Ends(q) :
           end'[q][y] = IF q # p THEN end[q][y]
                        ELSE IF y = Loop \/ room THEN "active" ELSE "req1"
      /\ \A y \in User : attached'[y] = IF y = s /\ room THEN p ELSE attached[y]
  BY <1>0, ConnectEnds
<1>3. /\ Handshake /\ Tidy /\ PipesOK /\ Socket \subseteq User
  BY TypedPipes DEF IInv, User
<1>4. \A q \in Pipe : q[1] \in Socket /\ q[1] \in User /\ q[1] \in Ends(q) /\ q # None
  BY PipeFacts DEF Ends
<1>5. \A q \in Pipe : WasSent(q) \/ Past(q) => q # p
  BY <1>1 DEF WasSent, Past, Connected, Since
<1>6. ASSUME NEW r \in Socket, attached[r] # None
      PROVE  /\ attached'[r] = attached[r]
             /\ end'[attached[r]][r] = end[attached[r]][r]
  <2>1. attached[r] \in Pipe /\ r \in Ends(attached[r]) /\ attached[r][1] = r
    BY <1>3, <1>6, AttachedFacts
  <2>2. end[attached[r]][r] # "none"
    BY <1>3, <1>6 DEF Tidy
  <2>3. attached[r] # p
    BY <1>1, <2>1, <2>2
  <2> QED
    BY <1>2, <1>3, <1>6, <2>1, <2>3
<1>7. ASSUME NEW r \in Socket, attached'[r] # None
      PROVE  end'[attached'[r]][r] \notin {"none", "gone"}
  <2>1. CASE attached[r] # None
    BY <1>3, <1>6, <2>1 DEF Tidy
  <2>2. CASE attached[r] = None
    <3>1. r = s /\ room /\ attached'[r] = p
      BY <1>2, <1>3, <1>7, <2>2
    <3>2. end'[p][s] = "active"
      BY <1>1, <1>2, <3>1
    <3> QED
      BY <3>1, <3>2
  <2> QED
    BY <2>1, <2>2
<1>8. ASSUME NEW r \in Socket, pc'[r] = "disconnect"
      PROVE  /\ attached'[r] = <<r, sent'[r]>>
             /\ end'[attached'[r]][r] \in {"active", "waiting"}
  <2>1. pc[r] = "disconnect"
    BY <1>1, <1>8
  <2>2. attached[r] = <<r, sent[r]>> /\ end[attached[r]][r] \in {"active", "waiting"}
    BY <1>3, <2>1 DEF Tidy
  <2>3. attached[r] # None
    BY <2>1, <2>2, SentPipe, <1>4 DEF IInv
  <2> QED
    BY <1>1, <1>6, <2>2, <2>3
<1>9. ASSUME NEW q \in Pipe
      PROVE  /\ Past(q)' => end'[q][q[1]] \notin {"active", "delimited"}
             /\ WasSent(q)' => end'[q][q[1]] = "gone" \/ attached'[q[1]] = q
  <2>1. CASE q = p
    BY <1>1, <1>5, <2>1
  <2>2. CASE q # p
    <3>1. end'[q][q[1]] = end[q][q[1]]
      BY <1>2, <1>4, <2>2
    <3>2. attached[q[1]] = q => attached'[q[1]] = q
      BY <1>4, <1>6
    <3> QED
      BY <1>1, <1>3, <3>1, <3>2 DEF Tidy
  <2> QED
    BY <2>1, <2>2
<1> QED
  BY <1>7, <1>8, <1>9 DEF Tidy

\* Nothing was sent to the new pipe.
LEMMA ConnectData ==
  ASSUME PairsAssumption, IInv, NEW s \in Socket, Connect(s)
  PROVE  /\ Data'
         /\ \A q \in Pipe : In(q, unread'[q][Loop]) => In(q, unread[q][Loop])
<1> DEFINE room == attached[s] = None
<1>0. PICK p : p = <<s, sent[s]>>
  OBVIOUS
<1>1. /\ p \in Pipe /\ s # Loop /\ Loop \in User /\ Loop \in Ends(p)
      /\ ~Connected(p) /\ end[p][Loop] = "none" /\ unread[p][Loop] = <<>>
      /\ UNCHANGED <<received, loopPc, refused>>
      /\ \A q \in Pipe : WasSent(q)' <=> WasSent(q)
  BY <1>0, ConnectNew
<1>2. /\ \A q \in Pipe : \A y \in Ends(q) :
           end'[q][y] = IF q # p THEN end[q][y]
                        ELSE IF y = Loop \/ room THEN "active" ELSE "req1"
      /\ \A q \in Pipe : \A y \in Ends(q) :
           unread'[q][y] = IF q = p /\ y = Loop /\ ~room THEN <<Delimiter>> ELSE unread[q][y]
      /\ \A y \in User : attached'[y] = IF y = s /\ room THEN p ELSE attached[y]
  BY <1>0, ConnectEnds
<1>3. \A q : Mail(Loop, "bind", q)' <=> Mail(Loop, "bind", q) \/ q = p
  BY <1>0, <1>1, ConnectMail
<1> HIDE DEF room
<1>4. \A q \in Pipe : DataOf(q)
  BY DEF IInv, Data, DataOf
<1>5. \A q \in Pipe : Loop \in Ends(q)
  BY DEF Ends
<1>6. attached'[Loop] = attached[Loop] /\ (\A q : Got(q)' <=> Got(q))
  BY <1>1, <1>2 DEF Got
<1>7. unread'[p][Loop] \in {<<>>, <<Delimiter>>} /\ ~In(p, unread'[p][Loop])
  <2>1. unread'[p][Loop] \in {<<>>, <<Delimiter>>}
    BY <1>1, <1>2
  <2>2. ~In(p, <<>>) /\ ~In(p, <<Delimiter>>)
    BY <1>1, Shapes
  <2> QED
    BY <2>1, <2>2
<1>8. ASSUME NEW q \in Pipe, q # p PROVE DataOf(q)' /\ unread'[q][Loop] = unread[q][Loop]
  <2>1. end'[q][Loop] = end[q][Loop] /\ unread'[q][Loop] = unread[q][Loop]
    BY <1>2, <1>5, <1>8
  <2>2. Mail(Loop, "bind", q)' <=> Mail(Loop, "bind", q)
    BY <1>3, <1>8
  <2> QED
    BY <1>1, <1>4, <1>6, <2>1, <2>2 DEF DataOf
<1>9. DataOf(p)'
  <2>1. ~WasSent(p)' /\ end'[p][Loop] = "active"
    BY <1>1, <1>2 DEF WasSent, Connected, Since
  <2>2. p \notin refused' /\ attached'[Loop] # p
    BY <1>1, <1>4, <1>6 DEF DataOf, Live
  <2>3. Mail(Loop, "bind", p)'
    BY <1>3
  <2> QED
    BY <1>7, <2>1, <2>2, <2>3 DEF DataOf
<1>10. Data'
  BY <1>8, <1>9 DEF Data, DataOf
<1>11. \A q \in Pipe : In(q, unread'[q][Loop]) => In(q, unread[q][Loop])
  BY <1>7, <1>8
<1> QED
  BY <1>10, <1>11

\* Nothing that comes after the new pipe is connected, and all that was before it is past.
LEMMA ConnectBinds ==
  ASSUME PairsAssumption, IInv, NEW s \in Socket, Connect(s)
  PROVE  Binds' /\ Freed'
<1> DEFINE room == attached[s] = None
<1>0. PICK p : p = <<s, sent[s]>>
  OBVIOUS
<1>1. /\ p \in Pipe /\ p[1] = s /\ p[2] = sent[s] /\ s # Loop /\ s \in User /\ Loop \in User
      /\ s \in Ends(p) /\ pc[s] = "connect" /\ end[p][s] = "none"
      /\ ~Mail(Loop, "bind", p)
      /\ \A q \in Pipe : Connected(q)' <=> Connected(q) \/ q = p
  BY <1>0, ConnectNew
<1>2. /\ \A q \in Pipe : \A y \in Ends(q) :
           end'[q][y] = IF q # p THEN end[q][y]
                        ELSE IF y = Loop \/ room THEN "active" ELSE "req1"
      /\ \A y \in User : attached'[y] = IF y = s /\ room THEN p ELSE attached[y]
  BY <1>0, ConnectEnds
<1>3. /\ \A q : Mail(Loop, "bind", q)' <=> Mail(Loop, "bind", q) \/ q = p
      /\ \A c, d, q, r : Order(mailbox[Loop], Cmd(c, q), Cmd(d, r)) /\ q # p =>
                         Order(mailbox'[Loop], Cmd(c, q), Cmd(d, r))
  BY <1>0, <1>1, ConnectMail
<1>4. /\ TypeOK /\ Places /\ Handshake /\ Tidy /\ Binds /\ Freed /\ PipesOK
  BY TypedPipes DEF IInv
<1>5. ASSUME NEW q \in Pipe, Precedes(p, q) PROVE ~Connected(q) /\ ~Mail(Loop, "bind", q) /\ q # p
  <2>1. ~Connected(q)
    <3>1. CASE p[1] = q[1] /\ p[2] < q[2]
      <4>1. sent[s] \in Nat /\ q[2] \in Nat
        BY <1>4, PipeFacts DEF TypeOK
      <4> QED
        BY <1>1, <3>1, <4>1 DEF Connected, Since
    <3>2. CASE p # Exit /\ q = Exit
      <4>1. s \in Thread /\ q[1] = Shutdown /\ q[2] = 1
        BY <1>1, <3>2, PipeFacts DEF Exit
      <4>2. pc[Shutdown] = "idle" /\ sent[Shutdown] = 0
        BY <1>1, <1>4, <4>1 DEF Places
      <4> QED
        BY <4>1, <4>2 DEF Connected, Since
    <3> QED
      BY <1>5, <3>1, <3>2 DEF Precedes
  <2>2. Talk(q, Loop) /\ (Connected(q) <=> end[q][Loop] # "none")
    BY <1>4 DEF Handshake, Ends
  <2>3. ~Mail(Loop, "bind", q)
    BY <2>1, <2>2 DEF Talk
  <2>4. q # p
    BY <1>5, PipeFacts DEF Precedes
  <2> QED
    BY <2>1, <2>3, <2>4
<1>6. \A a, b : ~In(b, mailbox[Loop]) => Order(mailbox[Loop], a, b)
  BY DEF In, Order
<1>7. \A a, b : ~In(b, mailbox'[Loop]) => Order(mailbox'[Loop], a, b)
  BY DEF In, Order
<1>8. ASSUME NEW r \in Pipe, NEW q \in Pipe, Precedes(r, q)
      PROVE  /\ Order(mailbox'[Loop], Cmd("bind", r), Cmd("bind", q))
             /\ Mail(Loop, "bind", r)' /\ Connected(q)' => Mail(Loop, "bind", q)'
  <2>1. CASE r = p
    BY <1>1, <1>3, <1>5, <1>7, <1>8, <2>1 DEF Mail
  <2>2. CASE r # p
    BY <1>1, <1>3, <1>4, <1>8, <2>2 DEF Binds
  <2> QED
    BY <2>1, <2>2
<1>9. ASSUME NEW r \in Pipe, NEW q \in Pipe, r[1] = q[1], q[2] < r[2], attached'[r[1]] = r,
             Mail(Loop, "bind", r)'
      PROVE  /\ end'[q][q[1]] = "gone"
             /\ Order(mailbox'[Loop], Cmd("pipe_term_ack", q), Cmd("bind", r))
  <2>1. /\ r[1] \in Socket /\ r[1] \in User /\ q[1] \in Ends(q) /\ r # None /\ q # None
        /\ r[2] \in Nat /\ q[2] \in Nat
    BY PipeFacts DEF Ends
  <2>2. end[q][q[1]] = "gone" /\ Order(mailbox[Loop], Cmd("pipe_term_ack", q), Cmd("bind", r))
    <3>1. CASE r = p
      <4>1. room
        <5> SUFFICES ASSUME ~room PROVE FALSE
          OBVIOUS
        <5>1. attached[s] = p
          BY <1>1, <1>2, <1>9, <3>1
        <5>2. end[attached[s]][s] # "none"
          BY <1>4, <2>1, <3>1, <5>1 DEF Tidy
        <5> QED
          BY <1>1, <5>1, <5>2
      <4>2. WasSent(q) /\ q[1] = s
        BY <1>1, <1>9, <3>1 DEF WasSent, Since
      <4>3. end[q][q[1]] = "gone"
        BY <1>4, <2>1, <4>1, <4>2 DEF Tidy
      <4> QED
        BY <1>1, <1>6, <3>1, <4>3 DEF Mail
    <3>2. CASE r # p
      <4>1. attached[r[1]] = r /\ Mail(Loop, "bind", r)
        BY <1>2, <1>3, <1>9, <2>1, <3>2
      <4> QED
        BY <1>4, <1>9, <4>1 DEF Freed
    <3> QED
      BY <3>1, <3>2
  <2>3. q # p
    BY <1>1, <2>2
  <2> QED
    BY <1>2, <1>3, <2>1, <2>2, <2>3
<1>10. Binds'
  BY <1>8 DEF Binds, Precedes
<1>11. Freed'
  BY <1>9 DEF Freed
<1> QED
  BY <1>10, <1>11

\* zmq_connect.
LEMMA ConnectKeeps ==
  ASSUME PairsAssumption, IInv, NEW s \in Socket, Connect(s)
  PROVE  Pipes' /\ GotSent' /\ ExitIsLast' /\ Orderly'
<1>1. /\ UNCHANGED <<sent, received, loopPc, failed, refused>>
      /\ \A q \in Pipe : WasSent(q)' <=> WasSent(q)
  BY ConnectNew
<1>2. /\ end' = [q \in Pipe |-> end'[q]] /\ \A q \in Pipe : end'[q] \in [Ends(q) -> EndState]
      /\ unread' = [q \in Pipe |-> unread'[q]]
      /\ \A q \in Pipe : unread'[q] \in [Ends(q) -> Seq(Pipe \cup {Delimiter})]
      /\ attached' \in [User -> Pipe \cup {None}]
  BY ConnectEnds
<1>3. mailbox' \in [User -> Seq(CmdType)]
  BY ConnectMail
<1>4. PipesOK /\ GotSent /\ ExitIsLast /\ Orderly
  BY TypedPipes DEF IInv
<1>5. PipesOK'
  BY <1>1, <1>2, <1>3, <1>4 DEF PipesOK
<1>6. /\ Handshake' /\ Tidy' /\ Data' /\ Binds' /\ Freed'
      /\ \A q \in Pipe : In(q, unread'[q][Loop]) => In(q, unread[q][Loop])
  BY ConnectHandshake, ConnectTidy, ConnectData, ConnectBinds
<1>7. GotSent'
  BY <1>1, <1>4 DEF GotSent
<1>8. ExitIsLast'
  BY <1>1, <1>4 DEF ExitIsLast
<1>9. Orderly'
  BY <1>1, <1>4, <1>6 DEF Orderly
<1> QED
  BY <1>5, <1>6, <1>7, <1>8, <1>9 DEF Pipes

-----------------------------------------------------------------------------
(***************************************************************************)
(* What the main loop receives.                                            *)
(***************************************************************************)

\* When the main loop's PAIR has a pipe, it is done with all that were connected before.
LEMMA Settled ==
  ASSUME PairsAssumption, IInv, NEW m \in Pipe, attached[Loop] = m, ~Mail(Loop, "bind", m),
         WasSent(m), NEW q \in Pipe, Precedes(q, m), WasSent(q)
  PROVE  q \in refused \/ Got(q)
<1>1. /\ PipesOK /\ Handshake /\ Data /\ Binds /\ Loop \in Ends(q)
  BY TypedPipes DEF IInv, Ends
<1>2. Connected(m) /\ Connected(q)
  BY DEF WasSent, Connected, Since
<1>3. ~Mail(Loop, "bind", q)
  BY <1>1, <1>2 DEF Binds
<1>4. q # m
  BY PipeFacts DEF Precedes
<1>5. end[q][Loop] \notin Live /\ end[q][Loop] # "none" /\ end[q][Loop] \in EndState
  <2>1. attached[Loop] = q <=> end[q][Loop] \in Live /\ ~Mail(Loop, "bind", q)
    BY <1>1 DEF Data
  <2>2. end[q][Loop] # "none" /\ end[q][Loop] \in EndState
    BY <1>1, <1>2 DEF Handshake, PipesOK
  <2> QED
    BY <1>3, <1>4, <2>1, <2>2
<1>6. end[q][Loop] \in {"req1", "req2", "gone"}
  BY <1>5 DEF Live, EndState
<1>7. CASE end[q][Loop] = "gone" /\ q \notin refused
  <2>1. unread[q][Loop] = <<>> /\ (In(q, unread[q][Loop]) \/ Got(q))
    BY <1>1, <1>7 DEF Data
  <2>2. ~In(q, <<>>)
    BY Shapes
  <2> QED
    BY <2>1, <2>2
<1>8. CASE end[q][Loop] \in {"req1", "req2"}
  BY <1>1, <1>8 DEF Data
<1> QED
  BY <1>6, <1>7, <1>8

\* A ping.
LEMMA ReceivePingKeeps ==
  ASSUME PairsAssumption, IInv, NEW t \in Thread, NEW n \in 1 .. NumMsgs \cup {1}, ReceivePing(t, n)
  PROVE  Pipes' /\ GotSent' /\ ExitIsLast' /\ Orderly'
<1>1. PICK m \in Pipe : /\ m = <<t, n>> /\ m[1] = t /\ m[2] = n /\ n \in Nat /\ n > 0 /\ m # Exit
                        /\ t \in Socket
  BY PingPipe
<1>2. /\ TypeOK /\ Places /\ Handshake /\ Data /\ GotSent /\ ExitIsLast /\ Orderly
      /\ received \in [Socket -> Nat] /\ sent \in [Socket -> Nat]
  BY DEF IInv, TypeOK
<1>3. /\ Received(m) /\ loopPc' = loopPc /\ failed' = (failed \/ n # received[t] + 1)
      /\ received' = [received EXCEPT ![t] = IF n > received[t] THEN n ELSE received[t]]
  BY <1>1 DEF ReceivePing
<1>4. /\ attached[Loop] = m /\ WasSent(m) /\ In(m, unread[m][Loop]) /\ ~Mail(Loop, "bind", m)
      /\ UNCHANGED <<sent, pc, refused>>
  BY <1>2, <1>3, ReceivedFacts
<1>5. /\ received'[t] = IF n > received[t] THEN n ELSE received[t]
      /\ \A s \in Socket : s # t => received'[s] = received[s]
      /\ \A s \in Socket : received'[s] >= received[s]
  BY <1>1, <1>2, <1>3
<1>6. Got(m)' /\ \A q \in Pipe : Got(q) => Got(q)'
  <2>1. Got(m)'
    BY <1>1, <1>2, <1>5 DEF Got
  <2>2. ASSUME NEW q \in Pipe, Got(q) PROVE Got(q)'
    <3>1. q[1] \in Socket /\ q[2] \in Nat
      BY PipeFacts
    <3>2. received[q[1]] \in Nat /\ received'[q[1]] \in Nat /\ received'[q[1]] >= received[q[1]]
      BY <1>1, <1>2, <1>3, <1>5, <3>1
    <3> QED
      BY <1>3, <2>2, <3>1, <3>2 DEF Got
  <2> QED
    BY <2>1, <2>2
<1>7. Pipes' /\ \A q \in Pipe : In(q, unread'[q][Loop]) => In(q, unread[q][Loop]) /\ q # m
  BY <1>3, <1>6, ReceivedKeeps
<1>8. \A q : WasSent(q)' <=> WasSent(q)
  BY <1>4 DEF WasSent, Since
<1>9. GotSent'
  BY <1>1, <1>2, <1>4, <1>5, <1>8 DEF GotSent, Socket
<1>10. ExitIsLast'
  <2>1. ASSUME NEW r \in Thread, NEW k \in 1 .. sent[r], k <= received[r] PROVE k <= received'[r]
    <3>1. r \in Socket /\ received[r] \in Nat /\ received'[r] \in Nat /\ received'[r] >= received[r]
      BY <1>1, <1>2, <1>3, <1>5 DEF Socket
    <3> QED
      BY <2>1, <3>1
  <2> QED
    BY <1>2, <1>3, <1>4, <2>1 DEF ExitIsLast
<1>11. ASSUME NumMsgs > 0, refused = {} PROVE n = received[t] + 1
  <2>1. received[t] < n /\ received[t] \in Nat
    BY <1>1, <1>2, <1>4, <1>11 DEF Orderly
  <2>2. CASE n = 1
    BY <2>1, <2>2
  <2>3. CASE n > 1
    <3>1. n - 1 \in 1 .. NumMsgs \cup {1}
      BY <2>3, PairsAssumption
    <3>2. PICK q \in Pipe : q = <<t, n - 1>> /\ q[1] = t /\ q[2] = n - 1 /\ q # Exit
      BY <3>1, PingPipe
    <3>3. Precedes(q, m)
      BY <1>1, <3>2 DEF Precedes
    <3>4. n <= sent[t] /\ sent[t] \in Nat
      BY <1>1, <1>2, <1>4 DEF WasSent, Since
    <3>5. WasSent(q)
      BY <1>1, <3>2, <3>4 DEF WasSent, Since
    <3>6. Got(q)
      BY <1>4, <1>11, <3>3, <3>5, Settled
    <3>7. n - 1 <= received[t]
      BY <3>2, <3>6 DEF Got
    <3> QED
      BY <1>1, <2>1, <3>7
  <2> QED
    BY <1>1, <2>2, <2>3
<1>12. ASSUME NumMsgs > 0, refused = {}, NEW q \in Pipe, q # Exit, In(q, unread'[q][Loop])
       PROVE  received'[q[1]] < q[2]
  <2>1. In(q, unread[q][Loop]) /\ q # m
    BY <1>7, <1>12
  <2>2. received[q[1]] < q[2] /\ q[1] \in Socket /\ q[2] \in Nat
    BY <1>2, <1>12, <2>1, PipeFacts DEF Orderly
  <2>3. CASE q[1] = t
    <3>1. q[2] # n
      BY <1>1, <2>1, <2>3, SamePipe
    <3>2. received'[t] = n /\ n = received[t] + 1 /\ received[t] \in Nat
      BY <1>1, <1>2, <1>5, <1>11, <1>12
    <3> QED
      BY <1>1, <2>2, <2>3, <3>1, <3>2
  <2>4. CASE q[1] # t
    BY <1>5, <2>2, <2>4
  <2> QED
    BY <2>3, <2>4
<1>13. Orderly'
  BY <1>2, <1>3, <1>4, <1>11, <1>12 DEF Orderly
<1> QED
  BY <1>7, <1>9, <1>10, <1>13

\* The exit command.
LEMMA ReceiveExitKeeps ==
  ASSUME PairsAssumption, IInv, ReceiveExit
  PROVE  Pipes' /\ GotSent' /\ ExitIsLast' /\ Orderly'
<1>1. /\ TypeOK /\ Places /\ Handshake /\ Data /\ GotSent /\ Orderly
  BY DEF IInv
<1>2. /\ attached[Loop] = Exit /\ ~Mail(Loop, "bind", Exit) /\ WasSent(Exit)
      /\ \A t \in Thread : pc[t] = "ended"
  BY <1>1, ExitFacts
<1>3. Exit \in Pipe
  BY DEF Exit, Pipe
<1>4. Received(Exit) /\ loopPc' = "closed" /\ received' = received /\ failed' = failed
  BY DEF ReceiveExit
<1>5. UNCHANGED <<sent, pc, refused>>
  BY <1>1, <1>3, <1>4, ReceivedFacts
<1>6. Got(Exit)' /\ \A q \in Pipe : Got(q) => Got(q)'
  BY <1>4 DEF Got
<1>7. Pipes' /\ \A q \in Pipe : In(q, unread'[q][Loop]) => In(q, unread[q][Loop]) /\ q # Exit
  BY <1>3, <1>4, <1>6, ReceivedKeeps
<1>8. GotSent'
  BY <1>1, <1>4, <1>5 DEF GotSent, WasSent, Since
<1>9. ExitIsLast'
  <2>1. ASSUME NEW t \in Thread, NEW n \in 1 .. sent[t] PROVE <<t, n>> \in refused \/ n <= received[t]
    <3>1. t \in Socket /\ sent[t] \in Nat /\ n \in Nat /\ n > 0 /\ n <= sent[t]
      BY <1>1 DEF TypeOK, Socket
    <3>2. <<t, sent[t]>> \in Pipe
      BY <1>1, <3>1 DEF TypeOK
    <3>3. sent[t] \in 1 .. NumMsgs \cup {1}
      BY <3>2, PairsAssumption DEF Pipe
    <3>4. n \in 1 .. NumMsgs \cup {1}
      BY <3>1, <3>3, PairsAssumption
    <3>5. PICK q \in Pipe : q = <<t, n>> /\ q[1] = t /\ q[2] = n /\ q # Exit
      BY <3>4, PingPipe
    <3>6. WasSent(q)
      BY <1>2, <3>1, <3>5 DEF WasSent, Since
    <3>7. q \in refused \/ Got(q)
      BY <1>2, <1>3, <3>5, <3>6, Settled DEF Precedes
    <3> QED
      BY <3>5, <3>7 DEF Got
  <2> QED
    BY <1>4, <1>5, <2>1 DEF ExitIsLast
<1>10. Orderly'
  BY <1>1, <1>4, <1>5, <1>7 DEF Orderly
<1> QED
  BY <1>7, <1>8, <1>9, <1>10

-----------------------------------------------------------------------------
(***************************************************************************)
(* The invariant holds.                                                    *)
(***************************************************************************)

\* At the start no pipe is connected and no command is on its way.
LEMMA StartIInv ==
  ASSUME PairsAssumption, Init
  PROVE  IInv
<1>1. /\ pc \in [Socket -> Place] /\ \A t \in Thread : pc[t] = "head"
      /\ pc[Shutdown] = "idle" /\ Shutdown \in Socket /\ Thread \subseteq Socket
      /\ sent = [s \in Socket |-> 0] /\ received = [s \in Socket |-> 0] /\ loopPc = "start"
      /\ mainPc = "join" /\ failed = FALSE /\ refused = {} /\ Loop \in User /\ Socket \subseteq User
      /\ attached = [x \in User |-> None] /\ mailbox = [x \in User |-> <<>>]
      /\ end = [p \in Pipe |-> [x \in Ends(p) |-> "none"]]
      /\ unread = [p \in Pipe |-> [x \in Ends(p) |-> <<>>]]
  BY PairsAssumption DEF Init, Socket, User, Place
<1>2. /\ \A m : ~In(m, <<>>) /\ Distinct(<<>>) /\ \A a, b : Order(<<>>, a, b)
  BY DEF In, Distinct, Order
<1>3. \A p \in Pipe : /\ p[1] \in Socket /\ p[1] \in User /\ p[1] \in Ends(p) /\ Loop \in Ends(p)
                      /\ p # None /\ p[2] \in Nat /\ p[2] >= 1
  BY PipeFacts DEF Ends
<1>4. \A p \in Pipe : ~Connected(p) /\ ~WasSent(p) /\ ~Past(p)
  BY <1>1, <1>3, PairsAssumption DEF Connected, WasSent, Past, Since, Socket
<1>5. \A p \in Pipe : \A x \in Ends(p) :
        end[p][x] = "none" /\ unread[p][x] = <<>> /\ x \in User /\ Other(p, x) \in Ends(p)
  BY <1>1, EndFacts
<1>6. \A x \in User : mailbox[x] = <<>> /\ attached[x] = None /\ \A c, p : ~Mail(x, c, p)
  BY <1>1, <1>2 DEF Mail
<1>7. TypeOK
  <2>1. ProgOK
    <3>1. flags \in Flags /\ ready \in [Socket -> BOOLEAN] /\ holder = None
      BY DEF Init
    <3>2. \A s \in Socket : sent[s] = 0
      BY <1>1
    <3>3. sent \in [Socket -> Nat] /\ received \in [Socket -> Nat] /\ failed \in BOOLEAN
      BY <1>1
    <3> QED
      BY <1>1, <3>1, <3>2, <3>3 DEF ProgOK
  <2>2. /\ end = [p \in Pipe |-> end[p]] /\ unread = [p \in Pipe |-> unread[p]]
        /\ \A p \in Pipe : /\ end[p] \in [Ends(p) -> EndState]
                           /\ unread[p] \in [Ends(p) -> Seq(Pipe \cup {Delimiter})]
    BY <1>1 DEF EndState
  <2>3. /\ attached \in [User -> Pipe \cup {None}] /\ mailbox \in [User -> Seq(CmdType)]
        /\ refused \subseteq Pipe
    BY <1>1
  <2> QED
    BY <2>1, <2>2, <2>3, TypedParts DEF PipesOK
<1>8. Places
  BY <1>1, PairsAssumption DEF Places
<1>9. Handshake
  <2>1. Boxes
    BY <1>1, <1>2, <1>6 DEF Boxes
  <2>2. ASSUME NEW p \in Pipe, NEW x \in Ends(p) PROVE Talk(p, x)
    <3>1. /\ end[p][x] = "none" /\ end[p][Other(p, x)] = "none" /\ unread[p][x] = <<>>
          /\ mailbox[x] = <<>> /\ \A c : ~Mail(x, c, p)
      BY <1>5, <1>6
    <3> QED
      BY <1>2, <3>1 DEF Talk, Agree, Half, TermDue, AckDue
  <2> QED
    BY <1>3, <1>4, <1>5, <2>1, <2>2 DEF Handshake
<1>10. Tidy
  BY <1>1, <1>4, <1>6, PairsAssumption DEF Tidy, Socket
<1>11. Data
  <2>1. ASSUME NEW p \in Pipe PROVE DataOf(p)
    BY <1>1, <1>2, <1>3, <1>4, <1>5, <1>6, <2>1 DEF DataOf, Live
  <2> QED
    BY <2>1 DEF Data, DataOf
<1>12. Binds
  BY <1>1, <1>2, <1>6 DEF Binds
<1>13. Freed
  BY <1>1, <1>6 DEF Freed
<1>14. GotSent /\ ExitIsLast
  BY <1>1, <1>6 DEF GotSent, ExitIsLast
<1>15. Orderly
  BY <1>1, <1>2, <1>3, <1>5 DEF Orderly
<1> QED
  BY <1>7, <1>8, <1>9, <1>10, <1>11, <1>12, <1>13, <1>14, <1>15 DEF IInv

\* Every step keeps it.
LEMMA StepIInv ==
  ASSUME PairsAssumption, IInv, [Next]_vars
  PROVE  IInv'
<1>1. /\ TypeOK /\ Places /\ Handshake /\ Tidy /\ Data /\ Binds /\ Freed
      /\ GotSent /\ ExitIsLast /\ Orderly
  BY DEF IInv
<1>2. CASE UNCHANGED vars
  <2>1. /\ UNCHANGED <<flags, mainPc, loopPc, pc, ready, holder, sent, received, failed>>
        /\ UNCHANGED <<end, unread, attached, mailbox, refused>>
    BY <1>2 DEF vars, progVars, callVars, pipeVars
  <2>2. TypeOK'
    BY <1>1, <2>1 DEF TypeOK
  <2>3. Places'
    BY <1>1, <2>1 DEF Places
  <2>4. /\ \A p : (Connected(p)' <=> Connected(p)) /\ (WasSent(p)' <=> WasSent(p))
        /\ \A p : (Past(p)' <=> Past(p)) /\ (Got(p)' <=> Got(p))
        /\ \A x, c, p : Mail(x, c, p)' <=> Mail(x, c, p)
        /\ \A p, x : Talk(p, x)' <=> Talk(p, x)
    BY <2>1 DEF Connected, WasSent, Past, Since, Got, Mail, Talk
  <2>5. Handshake' /\ Tidy' /\ Freed'
    BY <1>1, <2>1, <2>4 DEF Handshake, Boxes, Tidy, Freed
  <2>6. Data' /\ Binds'
    BY <1>1, <2>1, <2>4 DEF Data, Binds, Precedes
  <2>7. GotSent' /\ ExitIsLast' /\ Orderly'
    BY <1>1, <2>1, <2>4 DEF GotSent, ExitIsLast, Orderly
  <2> QED
    BY <2>2, <2>3, <2>5, <2>6, <2>7 DEF IInv
<1>3. CASE Next
  <2>1. ProgOK' /\ Places'
    BY <1>1, <1>3, ProgStep
  <2>2. ASSUME NEW p, NEW x, NEW take, NEW to, Shift(x, p, take, to)
        PROVE  Pipes' /\ GotSent' /\ ExitIsLast' /\ Orderly'
    <3>1. PipesOK' /\ Handshake'
      BY <1>1, <2>2, ShiftHandshake
    <3>2. Tidy'
      BY <1>1, <2>2, ShiftTidy
    <3>3. Data'
      BY <1>1, <2>2, ShiftData
    <3>4. Binds'
      BY <1>1, <2>2, ShiftBinds
    <3>5. Freed'
      BY <1>1, <2>2, ShiftFreed
    <3>6. GotSent' /\ ExitIsLast' /\ Orderly'
      BY <1>1, <2>2, ShiftGot
    <3> QED
      BY <3>1, <3>2, <3>3, <3>4, <3>5, <3>6 DEF Pipes
  <2>3. Pipes' /\ GotSent' /\ ExitIsLast' /\ Orderly'
    BY <1>1, <1>3, <2>2, Kinds, QuietKeeps, ConnectKeeps, SendKeeps, ReceiveExitKeeps,
       ReceivePingKeeps
  <2>4. TypeOK'
    <3>1. ProgOK' /\ PipesOK'
      BY <2>1, <2>3 DEF Pipes
    <3> QED
      BY <3>1 DEF TypeOK, ProgOK, PipesOK, CmdType, Place
  <2> QED
    BY <2>1, <2>3, <2>4 DEF IInv, Pipes
<1> QED
  BY <1>2, <1>3

\* The inductive invariant holds in every state of every behaviour.
THEOREM PairsInvariant == Spec => []IInv
<1>1. Init => IInv
  BY PairsAssumption, StartIInv
<1>2. IInv /\ [Next]_vars => IInv'
  BY PairsAssumption, StepIInv
<1> QED
  BY <1>1, <1>2, PTL DEF Spec

-----------------------------------------------------------------------------
(***************************************************************************)
(* What follows from it.                                                   *)
(***************************************************************************)

\* The variables of the program and of its pipes stay in the sets that TypeOK gives
\* them (threads/pairs.cpp and common.h).
THEOREM PairsTypeCorrect == Spec => []TypeOK
BY PairsInvariant, PTL DEF IInv

\* For any number of threads and messages, and with or without -mutex, -poll and -nowait:
\* the program reports a failure only when the main loop's PAIR has refused a connection
\* (threads/common.h:132-142 and 154-166).
THEOREM PairsFailsOnlyRefused == Spec => []FailsOnlyRefused
<1>1. IInv => FailsOnlyRefused
  BY DEF IInv, Orderly, FailsOnlyRefused
<1> QED
  BY <1>1, PairsInvariant, PTL

\* When the exit command is received, so was every ping whose connection was not refused
\* (threads/pairs.cpp:140-158).
THEOREM PairsExitIsLast == Spec => []ExitIsLast
BY PairsInvariant, PTL DEF IInv

\* zmq_disconnect finds the connection that zmq_connect made (threads/pairs.cpp:40-56).
THEOREM PairsDisconnectFinds == Spec => []DisconnectFinds
<1>1. IInv => DisconnectFinds
  <2> SUFFICES ASSUME IInv, NEW s \in Socket, pc[s] = "disconnect"
               PROVE  end[<<s, sent[s]>>][s] \notin {"none", "gone"}
    BY DEF DisconnectFinds
  <2>1. attached[s] = <<s, sent[s]>> /\ end[attached[s]][s] \in {"active", "waiting"}
    BY DEF IInv, Tidy
  <2> QED
    BY <2>1
<1> QED
  BY <1>1, PairsInvariant, PTL

\* A pipe is refused where one is attached, in the step that takes its bind command.
LEMMA Refusal ==
  ASSUME PairsAssumption, IInv, [Next]_vars, NEW p \in refused' \ refused
  PROVE  /\ p \in Pipe /\ attached[Loop] # None /\ mailbox[Loop] # <<>>
         /\ Head(mailbox[Loop]) = Cmd("bind", p)
<1>1. /\ TypeOK /\ Places /\ Handshake /\ Tidy /\ Data /\ PipesOK
  BY TypedPipes DEF IInv
<1>2. Next /\ refused' # refused
  BY DEF vars, pipeVars
<1>3. PICK q \in Pipe : \E x \in Ends(q) : \E take, to : Shift(x, q, take, to)
  BY <1>1, <1>2, Kinds DEF Quiet, Connect, Send, ReceiveExit, ReceivePing, Received, pipeVars
<1>4. PICK x, take, to : x \in Ends(q) /\ Shift(x, q, take, to)
  BY <1>3
<1>5. /\ take = "bind" /\ to = "req1" /\ refused' = refused \cup {q}
      /\ to = "active" <=> attached[Loop] = None
  BY <1>2, <1>4 DEF Shift
<1>6. x = Loop /\ Takes(x, take, q)
  BY <1>1, <1>4, <1>5, ShiftEnds
<1> QED
  BY <1>5, <1>6 DEF Takes

\* The main loop's PAIR refuses no connection because of an earlier one of the same thread,
\* unless the thread's PAIR has refused it as well (threads/pairs.cpp:40 and 53): what the
\* thread's PAIR says when it frees itself comes before the bind of the next connection.
THEOREM PairsRefusedByOthers == Spec => RefusedByOthers
<1> DEFINE Fair == \A p \in refused' \ refused : attached[Loop][1] = p[1] => attached[p[1]] # p
<1>1. IInv /\ [Next]_vars => Fair
  <2> SUFFICES ASSUME IInv, [Next]_vars, NEW p \in refused' \ refused,
                      attached[Loop][1] = p[1], attached[p[1]] = p
               PROVE  FALSE
    OBVIOUS
  <2>1. /\ TypeOK /\ Handshake /\ Data /\ Binds /\ Freed /\ PipesOK /\ Loop \in User
    BY TypedPipes DEF IInv, User
  <2>2. /\ p \in Pipe /\ attached[Loop] # None /\ mailbox[Loop] # <<>>
        /\ Head(mailbox[Loop]) = Cmd("bind", p)
    BY PairsAssumption, Refusal
  <2>3. mailbox[Loop] \in Seq(CmdType) /\ attached[Loop] \in Pipe
    BY <2>1, <2>2 DEF PipesOK
  <2>4. PICK q \in Pipe : q = attached[Loop] /\ q[1] = p[1]
    BY <2>3
  <2>5. Mail(Loop, "bind", p) /\ \A a : Order(mailbox[Loop], a, Cmd("bind", p)) => ~In(a, mailbox[Loop])
    BY <2>2, <2>3, TakenOff DEF Mail
  <2>6. end[q][Loop] \in Live /\ ~Mail(Loop, "bind", q) /\ q # p
    BY <2>1, <2>4, <2>5 DEF Data
  <2>7. Loop \in Ends(q) /\ Other(q, Loop) = q[1] /\ Talk(q, Loop)
    BY <2>1, PipeFacts DEF Ends, Other, Handshake
  <2>8. Connected(q)
    BY <2>1, <2>6 DEF Handshake, Live
  <2>9. ~(p[2] < q[2])
    BY <2>1, <2>2, <2>4, <2>5, <2>6, <2>8 DEF Binds, Precedes
  <2>10. q[2] < p[2]
    <3>1. p[2] \in Nat /\ q[2] \in Nat /\ p[2] # q[2]
      BY <2>2, <2>4, <2>6, PipeFacts, SamePipe, PairsAssumption
    <3> QED
      BY <2>9, <3>1
  <2>11. end[q][q[1]] = "gone" /\ Order(mailbox[Loop], Cmd("pipe_term_ack", q), Cmd("bind", p))
    BY <2>1, <2>2, <2>4, <2>5, <2>10 DEF Freed
  <2>12. Mail(Loop, "pipe_term_ack", q)
    BY <2>6, <2>7, <2>11 DEF Talk, AckDue, Live
  <2> QED
    BY <2>5, <2>11, <2>12 DEF Mail
<1>2. Spec => [][Fair]_vars
  BY <1>1, PairsInvariant, PTL DEF Spec
<1> QED
  BY <1>2 DEF RefusedByOthers

\* A thread that cannot write stays where it sends.
LEMMA StaysSending ==
  ASSUME PairsAssumption, TypeOK, Places, Next, NEW s \in Socket, Stuck(s)
  PROVE  pc'[s] = "send"
<1>1. pc[s] = "send" /\ ~CanWrite(s) /\ pc \in [Socket -> Place]
  BY DEF Stuck, TypeOK, Place
<1>2. ASSUME pc' = pc PROVE pc'[s] = "send"
  BY <1>1, <1>2
<1>3. ASSUME NEW r \in Socket, r # s, NEW where, To(r, where) PROVE pc'[s] = "send"
  BY <1>1, <1>3 DEF To
<1>4. ASSUME NEW r \in Socket, NextPing(r) \/ Lock(r) \/ Connect(r) \/ Poll(r) \/ Disconnect(r)
      PROVE  pc'[s] = "send"
  <2>1. pc[r] # "send" /\ \E where : To(r, where)
    BY <1>4 DEF NextPing, Lock, Connect, Poll, Disconnect, At
  <2> QED
    BY <1>1, <1>3, <2>1
<1>5. ASSUME NEW r \in Socket, Send(r) PROVE pc'[s] = "send"
  BY <1>1, <1>3, <1>5 DEF Send
<1>6. ASSUME NEW r \in Socket, SendFails(r) PROVE pc'[s] = "send"
  BY <1>1, <1>6 DEF SendFails, To
<1>7. CASE JoinThreads
  <2>1. pc[Shutdown] = "idle" /\ pc' = [pc EXCEPT ![Shutdown] = "lock"]
    BY <1>7 DEF JoinThreads, Places, To
  <2> QED
    BY <1>1, <2>1
<1>8. ASSUME NEW r \in Socket, Drained(r) PROVE pc' = pc
  BY <1>8 DEF Drained
<1>9. ASSUME NEW x, ReadDelimiter(x) PROVE pc' = pc
  BY <1>9 DEF ReadDelimiter, callVars
<1>10. ASSUME NEW x, NEW p, ProcessPipeTerm(x, p) \/ ProcessPipeTermAck(x, p) \/ Reap(x, p)
       PROVE  pc' = pc
  BY <1>10 DEF ProcessPipeTerm, ProcessPipeTermAck, Reap, callVars
<1>11. ASSUME NEW p, ProcessBind(p) PROVE pc' = pc
  BY <1>11 DEF ProcessBind, callVars
<1>12. ASSUME Bind \/ ReceiveExit \/ CheckResults PROVE pc' = pc
  BY <1>12 DEF Bind, ReceiveExit, Received, CheckResults, callVars
<1>13. ASSUME NEW t, NEW n, ReceivePing(t, n) PROVE pc' = pc
  BY <1>13 DEF ReceivePing, Received, callVars
<1> QED
  BY <1>2, <1>4, <1>5, <1>6, <1>7, <1>8, <1>9, <1>10, <1>11, <1>12, <1>13
     DEF Next, ThreadStep, LoopStep

\* Where a thread stays in zmq_send no pipe comes that it can write to.
LEMMA NoPipeComes ==
  ASSUME PairsAssumption, IInv, Next, NEW s \in Socket, pc[s] = "send", CanWrite(s)'
  PROVE  CanWrite(s)
<1>1. /\ TypeOK /\ Places /\ Handshake /\ Tidy /\ PipesOK /\ s \in User /\ Loop \notin Socket
  BY TypedPipes, PairsAssumption DEF IInv, User
<1>2. attached'[s] # None /\ end'[attached'[s]][s] = "active"
  BY DEF CanWrite
<1>3. ASSUME end' = end, attached' = attached PROVE CanWrite(s)
  BY <1>2, <1>3 DEF CanWrite
<1>4. ASSUME NEW r \in Socket, Connect(r) PROVE CanWrite(s)
  <2>1. PICK p \in Pipe : p = <<r, sent[r]>> /\ p[1] = r /\ pc[r] = "connect"
    BY <1>4, ConnectNew
  <2>2. r # s
    BY <2>1
  <2>3. attached'[s] = attached[s]
    BY <1>1, <1>4, <2>1, <2>2, ConnectEnds
  <2>4. attached[s] \in Pipe /\ s \in Ends(attached[s]) /\ attached[s][1] = s
    BY <1>1, <1>2, <2>3, AttachedFacts
  <2>5. end'[attached[s]][s] = end[attached[s]][s]
    BY <1>4, <2>1, <2>2, <2>4, ConnectEnds
  <2> QED
    BY <1>2, <2>3, <2>5 DEF CanWrite
<1>5. ASSUME NEW p, NEW x, NEW take, NEW to, Shift(x, p, take, to) PROVE CanWrite(s)
  <2>1. /\ x \in User /\ (take = "bind" => x = Loop) /\ (to = "active" => end[p][x] = "active")
        /\ \A q \in Pipe : \A y \in Ends(q) :
             end'[q][y] = IF q = p /\ y = x THEN to ELSE end[q][y]
    BY <1>1, <1>5, ShiftEnds
  <2>2. attached'[s] = attached[s]
    <3>1. attached' = [attached EXCEPT ![x] =
            IF take = "bind" /\ to = "active" THEN p
            ELSE IF take = "pipe_term_ack" /\ attached[x] = p THEN None ELSE attached[x]]
      BY <1>5 DEF Shift
    <3>2. attached'[s] \in {attached[s], None}
      BY <1>1, <2>1, <3>1 DEF PipesOK
    <3> QED
      BY <1>2, <3>2
  <2>3. attached[s] \in Pipe /\ s \in Ends(attached[s])
    BY <1>1, <1>2, <2>2, AttachedFacts
  <2>4. end[attached[s]][s] = "active"
    BY <1>2, <2>1, <2>2, <2>3
  <2> QED
    BY <1>2, <2>2, <2>4 DEF CanWrite
<1>6. ASSUME Quiet PROVE end' = end /\ attached' = attached
  BY <1>6 DEF Quiet, pipeVars
<1>7. ASSUME NEW r \in Socket, Send(r) PROVE end' = end /\ attached' = attached
  BY <1>7 DEF Send
<1>8. ASSUME NEW m, Received(m) PROVE end' = end /\ attached' = attached
  BY <1>8 DEF Received
<1>9. ReceiveExit => \E m : Received(m)
  BY DEF ReceiveExit
<1>10. ASSUME NEW t, NEW n, ReceivePing(t, n) PROVE end' = end /\ attached' = attached
  BY <1>8, <1>10 DEF ReceivePing
<1> QED
  BY <1>1, <1>3, <1>4, <1>5, <1>6, <1>7, <1>8, <1>9, <1>10, Kinds

\* A thread that has no pipe to write to when it sends never gets one, whatever the others
\* do (threads/pairs.cpp:48).
THEOREM PairsStuckForEver == Spec => StuckForEver
<1> DEFINE Stays == \A s \in Socket : Stuck(s) => Stuck(s)'
<1>1. IInv /\ [Next]_vars => Stays
  <2> SUFFICES ASSUME IInv, [Next]_vars, NEW s \in Socket, Stuck(s) PROVE Stuck(s)'
    OBVIOUS
  <2>1. CASE UNCHANGED vars
    BY <2>1 DEF Stuck, CanWrite, vars, callVars, pipeVars
  <2>2. CASE Next
    <3>1. pc'[s] = "send"
      BY <2>2, PairsAssumption, StaysSending DEF IInv
    <3>2. ~CanWrite(s)'
      BY <2>2, PairsAssumption, NoPipeComes DEF Stuck
    <3> QED
      BY <3>1, <3>2 DEF Stuck
  <2> QED
    BY <2>1, <2>2
<1>2. Spec => [][Stays]_vars
  BY <1>1, PairsInvariant, PTL DEF Spec
<1> QED
  BY <1>2 DEF StuckForEver

===========================================================================
