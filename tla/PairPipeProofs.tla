-------------------------- MODULE PairPipeProofs --------------------------
(***************************************************************************)
(* Proofs about the pipes of Pairs, for any number of threads and          *)
(* messages: the inductive invariant, and what a step does to the two ends *)
(* of a pipe and to the commands between them.                             *)
(***************************************************************************)
EXTENDS Pairs, SequenceTheorems, TLAPS

-----------------------------------------------------------------------------
(***************************************************************************)
(* Messages in a queue.                                                    *)
(***************************************************************************)

In(m, q) == \E i \in 1 .. Len(q) : q[i] = m
Distinct(q) == \A i, j \in 1 .. Len(q) : q[i] = q[j] => i = j

\* Wherever both are in the queue, a comes before b.
Order(q, a, b) == \A i, j \in 1 .. Len(q) : q[i] = a /\ q[j] = b => i < j

\* What is added at the end of a queue.
LEMMA Added ==
  ASSUME NEW S, NEW q \in Seq(S), NEW m \in S
  PROVE  /\ Append(q, m) \in Seq(S) /\ q \o <<m>> = Append(q, m) /\ q \o <<>> = q
         /\ \A a : In(a, Append(q, m)) <=> In(a, q) \/ a = m
         /\ Distinct(q) /\ ~In(m, q) => Distinct(Append(q, m))
         /\ \A a, b : Order(q, a, b) /\ (a = m => ~In(b, q) /\ b # m) => Order(Append(q, m), a, b)
<1> DEFINE r == Append(q, m)  n == Len(q)
<1>1. /\ r \in Seq(S) /\ Len(r) = n + 1 /\ r[n + 1] = m /\ n \in Nat
      /\ \A i \in 1 .. n : r[i] = q[i]
  OBVIOUS
<1>2. q \o <<m>> = r /\ q \o <<>> = q
  OBVIOUS
<1>3. 1 .. Len(r) = (1 .. n) \cup {n + 1}
  BY <1>1
<1> HIDE DEF r, n
<1>4. \A a : In(a, r) <=> In(a, q) \/ a = m
  BY <1>1, <1>3 DEF In, n
<1>5. Distinct(q) /\ ~In(m, q) => Distinct(r)
  BY <1>1, <1>3 DEF In, Distinct, n
<1>6. \A a, b : Order(q, a, b) /\ (a = m => ~In(b, q) /\ b # m) => Order(r, a, b)
  BY <1>1, <1>3 DEF In, Order, n
<1> QED
  BY <1>1, <1>2, <1>4, <1>5, <1>6 DEF r

\* What is taken from the head of a queue.
LEMMA TakenOff ==
  ASSUME NEW S, NEW q \in Seq(S), q # <<>>
  PROVE  /\ Tail(q) \in Seq(S) /\ Head(q) \in S /\ In(Head(q), q)
         /\ \A a : In(a, Tail(q)) => In(a, q)
         /\ \A a : In(a, q) => a = Head(q) \/ In(a, Tail(q))
         /\ Distinct(q) => Distinct(Tail(q)) /\ ~In(Head(q), Tail(q))
         /\ \A a, b : Order(q, a, b) => Order(Tail(q), a, b)
         /\ \A a, b : Order(q, a, b) /\ b = Head(q) => ~In(a, q)
<1> DEFINE r == Tail(q)  n == Len(q)
<1>1. /\ r \in Seq(S) /\ n \in Nat /\ n > 0 /\ Len(r) = n - 1 /\ Head(q) = q[1] /\ q[1] \in S
      /\ \A i \in 1 .. Len(r) : r[i] = q[i + 1] /\ i + 1 \in 1 .. n
  BY HeadTailProperties, EmptySeq
<1>2. \A i \in 1 .. n : i = 1 \/ (i - 1 \in 1 .. Len(r) /\ r[i - 1] = q[i])
  BY <1>1
<1>3. 1 \in 1 .. n
  BY <1>1
<1> HIDE DEF r, n
<1>4. In(q[1], q)
  BY <1>3 DEF In, n
<1>5. \A a : In(a, r) => In(a, q)
  BY <1>1 DEF In, n
<1>6. \A a : In(a, q) => a = q[1] \/ In(a, r)
  BY <1>2 DEF In, n
<1>7. ASSUME Distinct(q) PROVE Distinct(r) /\ ~In(q[1], r)
  <2>1. ASSUME NEW i \in 1 .. Len(r), NEW j \in 1 .. Len(r), r[i] = r[j] PROVE i = j
    <3>1. i + 1 = j + 1
      BY <1>1, <1>7, <2>1 DEF Distinct, n
    <3> QED
      BY <3>1, <1>1
  <2>2. ASSUME NEW i \in 1 .. Len(r), r[i] = q[1] PROVE FALSE
    <3>1. i + 1 = 1
      BY <1>1, <1>3, <1>7, <2>2 DEF Distinct, n
    <3> QED
      BY <3>1, <1>1
  <2> QED
    BY <2>1, <2>2 DEF Distinct, In
<1>8. ASSUME NEW a, NEW b, Order(q, a, b) PROVE Order(r, a, b)
  <2>1. ASSUME NEW i \in 1 .. Len(r), NEW j \in 1 .. Len(r), r[i] = a, r[j] = b PROVE i < j
    <3>1. i + 1 < j + 1
      BY <1>1, <1>8, <2>1 DEF Order, n
    <3> QED
      BY <3>1, <1>1
  <2> QED
    BY <2>1 DEF Order
<1>9. ASSUME NEW a, Order(q, a, q[1]), In(a, q) PROVE FALSE
  <2>1. PICK i \in 1 .. n : q[i] = a
    BY <1>9 DEF In, n
  <2>2. i < 1
    BY <1>3, <1>9, <2>1 DEF Order, n
  <2> QED
    BY <2>2, <1>1
<1> QED
  BY <1>1, <1>4, <1>5, <1>6, <1>7, <1>8, <1>9 DEF r

-----------------------------------------------------------------------------
(***************************************************************************)
(* The inductive invariant.                                                *)
(***************************************************************************)

\* Where the program is, as far as the pipes depend on it.
Places ==
  /\ \A t \in Thread :
       /\ pc[t] # "idle"
       /\ pc[t] = "head" => sent[t] = 0 \/ sent[t] < NumMsgs
       /\ pc[t] # "head" => sent[t] > 0
       /\ pc[t] = "ended" => sent[t] >= NumMsgs
  /\ pc[Shutdown] # "head"
  /\ sent[Shutdown] = IF pc[Shutdown] = "idle" THEN 0 ELSE 1
  /\ mainPc = "join" => pc[Shutdown] = "idle"
  /\ pc[Shutdown] # "idle" => \A t \in Thread : pc[t] = "ended"
  /\ loopPc = "closed" => pc[Shutdown] # "idle"

\* The thread of p has come to one of these places with it.
Since(p, places) == p[2] < sent[p[1]] \/ (p[2] = sent[p[1]] /\ pc[p[1]] \in places)
Connected(p) == Since(p, {"poll", "send", "disconnect", "head", "ended"})
WasSent(p) == Since(p, {"disconnect", "head", "ended"})
Past(p) == Since(p, {"head", "ended"})

Cmd(c, p) == [cmd |-> c, of |-> p]
Mail(x, c, p) == In(Cmd(c, p), mailbox[x])

\* The states of two ends between which commands are on their way, and of any two.
Half(a, b) ==
  \/ b = "req1" /\ a \in {"active", "delimited", "waiting", "acked"}
  \/ b \in {"acked", "req2"} /\ a = "gone"
  \/ b = "req2" /\ a = "req1"
Agree(a, b) == Half(a, b) \/ Half(b, a) \/ (a = b /\ a \in {"none", "active", "req1", "req2", "gone"})

\* The other end has asked, or has answered, and this one does not know.
TermDue(mine, theirs) ==
  \/ theirs = "req1" /\ mine \in {"active", "delimited", "req1"}
  \/ theirs = "req2" /\ mine = "req1"
AckDue(mine, theirs) == theirs \in {"req2", "acked", "gone"} /\ mine # "gone"

\* The commands for x's end of p are those that the states of its ends call for.
Talk(p, x) ==
  LET mine == end[p][x]  theirs == end[p][Other(p, x)] IN
  /\ Agree(mine, theirs)
  /\ Mail(x, "pipe_term", p) <=> TermDue(mine, theirs)
  /\ Mail(x, "pipe_term_ack", p) <=> AckDue(mine, theirs)
  /\ Mail(x, "bind", p) => x = Loop /\ mine = "active"
  /\ Order(mailbox[x], Cmd("pipe_term", p), Cmd("pipe_term_ack", p))
  /\ Order(mailbox[x], Cmd("bind", p), Cmd("pipe_term", p))
  /\ In(Delimiter, unread[p][x]) => theirs \in {"req1", "req2", "gone"}

Boxes ==
  /\ \A x \in User : Distinct(mailbox[x])
  /\ \A s \in Socket :
       /\ \A m : In(m, mailbox[s]) => m.of[1] = s
       /\ attached[s] # None => attached[s][1] = s

Handshake ==
  /\ Boxes
  /\ \A p \in Pipe : \A x \in Ends(p) : Talk(p, x)
  /\ \A p \in Pipe : Connected(p) <=> end[p][Loop] # "none"

\* A thread's PAIR has the pipe that its thread sends to, and no other until that is gone.
Tidy ==
  /\ \A s \in Socket :
       /\ attached[s] # None => end[attached[s]][s] \notin {"none", "gone"}
       /\ pc[s] = "disconnect" =>
            attached[s] = <<s, sent[s]>> /\ end[attached[s]][s] \in {"active", "waiting"}
  /\ \A p \in Pipe :
       /\ Past(p) => end[p][p[1]] \notin {"active", "delimited"}
       /\ WasSent(p) => end[p][p[1]] = "gone" \/ attached[p[1]] = p

Got(p) == IF p = Exit THEN loopPc = "closed" ELSE p[2] <= received[p[1]]

Live == {"active", "waiting", "delimited", "acked"}

\* What is sent to p is read before the main loop's PAIR is done with p, unless it refused p.
Data ==
  \A p \in Pipe :
    LET q == unread[p][Loop]  e == end[p][Loop] IN
    /\ q \in {<<>>, <<p>>, <<Delimiter>>, <<p, Delimiter>>}
    /\ In(p, q) => WasSent(p)
    /\ WasSent(p) => In(p, q) \/ Got(p)
    /\ e \in {"delimited", "acked"} \/ (e = "gone" /\ p \notin refused) => q = <<>>
    /\ e \in {"req1", "req2"} => p \in refused
    /\ p \in refused => e \in {"req1", "req2", "gone"}
    /\ attached[Loop] = p <=> e \in Live /\ ~Mail(Loop, "bind", p)

\* p is connected before q.
Precedes(p, q) == (p[1] = q[1] /\ p[2] < q[2]) \/ (p # Exit /\ q = Exit)

\* The main loop's PAIR hears of them in the order of their connections.
Binds ==
  \A p, q \in Pipe :
    Precedes(p, q) =>
      /\ Order(mailbox[Loop], Cmd("bind", p), Cmd("bind", q))
      /\ Mail(Loop, "bind", p) /\ Connected(q) => Mail(Loop, "bind", q)

\* A thread's PAIR that had room for p has told the main loop's so before p.
Freed ==
  \A p, q \in Pipe :
    p[1] = q[1] /\ q[2] < p[2] /\ attached[p[1]] = p /\ Mail(Loop, "bind", p) =>
      end[q][q[1]] = "gone" /\ Order(mailbox[Loop], Cmd("pipe_term_ack", q), Cmd("bind", p))

\* What is received was sent.
GotSent ==
  \A t \in Thread : received[t] > 0 =>
    <<t, received[t]>> \in Pipe /\ WasSent(<<t, received[t]>>)

\* While none is refused they are received in order.
Orderly ==
  NumMsgs > 0 /\ refused = {} =>
    ~failed /\ \A p \in Pipe : p # Exit /\ In(p, unread[p][Loop]) => received[p[1]] < p[2]

IInv ==
  /\ TypeOK /\ Places /\ Handshake /\ Tidy /\ Data /\ Binds /\ Freed
  /\ GotSent /\ ExitIsLast /\ Orderly

-----------------------------------------------------------------------------
(***************************************************************************)
(* Pipes and their ends.                                                   *)
(***************************************************************************)

\* A pipe is a thread and a number.
LEMMA PipeFacts ==
  ASSUME NEW p \in Pipe
  PROVE  /\ p[1] \in Socket /\ p[1] \in User /\ p[1] # Loop /\ Loop \in User
         /\ p[2] \in Nat /\ p[2] >= 1 /\ p = <<p[1], p[2]>>
         /\ p[1] = Shutdown <=> p = Exit
         /\ p # Exit => p[1] \in Thread /\ p[2] \in 1 .. NumMsgs \cup {1}
         /\ p # None /\ p # Delimiter
<1>1. PICK a \in Socket, n \in Nat : /\ p = <<a, n>> /\ n >= 1 /\ (a = Shutdown <=> p = Exit)
                                     /\ p # Exit => a \in Thread /\ n \in 1 .. NumMsgs \cup {1}
  BY PairsAssumption DEF Pipe, Exit, Socket
<1>2. p[1] = a /\ p[2] = n
  BY <1>1
<1>3. p # Delimiter
  <2>1. Len(p) = 2 /\ Len(<<>>) = 0
    BY <1>1
  <2> QED
    BY <2>1 DEF Delimiter
<1> QED
  BY <1>1, <1>2, <1>3, PairsAssumption DEF User

\* There are no two pipes of a thread with the same number.
LEMMA SamePipe ==
  ASSUME NEW p \in Pipe, NEW q \in Pipe, p[1] = q[1], p[2] = q[2]
  PROVE  p = q
BY PipeFacts

\* The ends of a pipe.
LEMMA EndFacts ==
  ASSUME NEW p \in Pipe, NEW x \in Ends(p)
  PROVE  /\ x \in User /\ Other(p, x) \in Ends(p) /\ Other(p, x) # x
         /\ Other(p, Other(p, x)) = x
         /\ \A y \in Ends(p) : y = x \/ y = Other(p, x)
         /\ Loop \in Ends(p) /\ p[1] \in Ends(p) /\ Other(p, Loop) = p[1] /\ Other(p, p[1]) = Loop
         /\ x \in Socket => x = p[1]
         /\ x = Loop => x \notin Socket
<1>1. p[1] \in Socket /\ p[1] # Loop /\ p[1] \in User /\ Loop \in User /\ Loop \notin Socket
  BY PipeFacts, PairsAssumption
<1>2. x \in {p[1], Loop}
  BY DEF Ends
<1> QED
  BY <1>1, <1>2 DEF Ends, Other

\* Changing one end's value leaves the others'.
LEMMA EndPut ==
  ASSUME NEW f, NEW S, f = [r \in Pipe |-> f[r]], \A r \in Pipe : f[r] \in [Ends(r) -> S],
         NEW p \in Pipe, NEW x \in Ends(p), NEW v \in S, NEW g, g = [f EXCEPT ![p][x] = v]
  PROVE  /\ g = [r \in Pipe |-> g[r]] /\ \A r \in Pipe : g[r] \in [Ends(r) -> S]
         /\ \A r \in Pipe : \A y \in Ends(r) : g[r][y] = IF r = p /\ y = x THEN v ELSE f[r][y]
<1>0. DOMAIN f = Pipe
  OBVIOUS
<1>1. /\ g = [r \in Pipe |-> g[r]]
      /\ \A r \in Pipe : g[r] = IF r = p THEN [f[p] EXCEPT ![x] = v] ELSE f[r]
  BY <1>0
<1>2. [f[p] EXCEPT ![x] = v] \in [Ends(p) -> S]
  OBVIOUS
<1>3. \A y \in Ends(p) : [f[p] EXCEPT ![x] = v][y] = IF y = x THEN v ELSE f[p][y]
  OBVIOUS
<1> QED
  BY <1>1, <1>2, <1>3

-----------------------------------------------------------------------------
(***************************************************************************)
(* What a step makes of one end of a pipe.                                 *)
(***************************************************************************)

\* What an end goes to, with the command that is taken for it.
Goal(mine, theirs, take, to) ==
  \/ take = "nothing" /\ to = mine
  \/ take = "nothing" /\ mine = "active" /\ theirs = "req1" /\ to = "delimited"
  \/ take = "nothing" /\ mine \in {"active", "delimited"} /\ to = "req1"
  \/ take = "nothing" /\ mine = "waiting" /\ to = "acked"
  \/ take = "bind" /\ mine = "active" /\ to \in {"active", "req1"}
  \/ take = "pipe_term" /\ mine = "active" /\ to = "waiting"
  \/ take = "pipe_term" /\ mine = "delimited" /\ to = "acked"
  \/ take = "pipe_term" /\ mine = "req1" /\ to = "req2"
  \/ take = "pipe_term_ack" /\ mine \in {"acked", "req2"} /\ to = "gone"
  \/ take = "pipe_term_ack" /\ mine = "req1" /\ theirs = "acked" /\ to = "gone"

Asks(mine, to) == mine # to /\ to = "req1"
Answers(mine, to) == mine # to /\ (to \in {"req2", "acked"} \/ mine = "req1")

\* The states of the two ends go on agreeing, and what is due is what was, less
\* the command that was taken, and what the other end is told.
LEMMA Due ==
  ASSUME NEW mine, NEW theirs, NEW take, NEW to, Agree(mine, theirs), Goal(mine, theirs, take, to),
         take = "pipe_term" => TermDue(mine, theirs), take = "pipe_term_ack" => AckDue(mine, theirs)
  PROVE  /\ Agree(to, theirs) /\ Agree(theirs, to)
         /\ TermDue(to, theirs) <=> TermDue(mine, theirs) /\ take # "pipe_term"
         /\ AckDue(to, theirs) <=> AckDue(mine, theirs) /\ take # "pipe_term_ack"
         /\ TermDue(theirs, to) <=> TermDue(theirs, mine) \/ Asks(mine, to)
         /\ AckDue(theirs, to) <=> AckDue(theirs, mine) \/ Answers(mine, to)
         /\ Asks(mine, to) => ~TermDue(theirs, mine) /\ ~AckDue(theirs, mine) /\ theirs # "gone"
         /\ Answers(mine, to) => ~AckDue(theirs, mine) /\ ~Asks(mine, to)
         /\ to \in EndState /\ (to = "none" <=> mine = "none") /\ (to = "active" => mine = "active")
         /\ mine \in {"req1", "req2", "gone"} => to \in {"req1", "req2", "gone"}
         /\ mine = "gone" => to = "gone"
<1> USE DEF Agree, Half, TermDue, AckDue, Asks, Answers, EndState
<1>1. CASE take = "nothing" /\ to = mine
  BY <1>1
<1>2. CASE take = "nothing" /\ mine = "active" /\ theirs = "req1" /\ to = "delimited"
  BY <1>2
<1>3. CASE take = "nothing" /\ mine \in {"active", "delimited"} /\ to = "req1"
  BY <1>3
<1>4. CASE take = "nothing" /\ mine = "waiting" /\ to = "acked"
  BY <1>4
<1>5. CASE take = "bind" /\ mine = "active" /\ to \in {"active", "req1"}
  BY <1>5
<1>6. CASE take = "pipe_term" /\ mine = "active" /\ to = "waiting"
  BY <1>6
<1>7. CASE take = "pipe_term" /\ mine = "delimited" /\ to = "acked"
  BY <1>7
<1>8. CASE take = "pipe_term" /\ mine = "req1" /\ to = "req2"
  BY <1>8
<1>9. CASE take = "pipe_term_ack" /\ mine \in {"acked", "req2"} /\ to = "gone"
  BY <1>9
<1>10. CASE take = "pipe_term_ack" /\ mine = "req1" /\ theirs = "acked" /\ to = "gone"
  BY <1>10
<1> QED
  BY <1>1, <1>2, <1>3, <1>4, <1>5, <1>6, <1>7, <1>8, <1>9, <1>10 DEF Goal

Takes(x, take, p) == take # "nothing" => mailbox[x] # <<>> /\ Head(mailbox[x]) = Cmd(take, p)
Left(x, take) == IF take = "nothing" THEN mailbox ELSE Taken(x)

\* x's end of p goes to a state, having taken a command or not.
Move(x, p, take, to) ==
  /\ Takes(x, take, p)
  /\ Goal(end[p][x], end[p][Other(p, x)], take, to)
  /\ Goes(x, p, to, Left(x, take))

CmdType == [cmd : {"bind", "pipe_term", "pipe_term_ack"}, of : Pipe]

PipesOK ==
  /\ end = [p \in Pipe |-> end[p]] /\ unread = [p \in Pipe |-> unread[p]]
  /\ \A p \in Pipe : /\ end[p] \in [Ends(p) -> EndState]
                     /\ unread[p] \in [Ends(p) -> Seq(Pipe \cup {Delimiter})]
  /\ attached \in [User -> Pipe \cup {None}]
  /\ mailbox \in [User -> Seq(CmdType)]
  /\ refused \subseteq Pipe

\* Commands are told apart by what they say and of which pipe.
LEMMA CmdFacts ==
  ASSUME NEW c, NEW p
  PROVE  /\ Cmd(c, p).cmd = c /\ Cmd(c, p).of = p
         /\ \A d, q : Cmd(c, p) = Cmd(d, q) <=> c = d /\ p = q
         /\ c \in {"bind", "pipe_term", "pipe_term_ack"} /\ p \in Pipe => Cmd(c, p) \in CmdType
BY DEF Cmd, CmdType

\* What the other end is told.
LEMMA Replies ==
  ASSUME NEW from, NEW to, NEW p
  PROVE  Reply(from, to, p) = IF Asks(from, to) THEN <<Cmd("pipe_term", p)>>
                              ELSE IF Answers(from, to) THEN <<Cmd("pipe_term_ack", p)>> ELSE <<>>
BY DEF Reply, Asks, Answers, Cmd


\* A move changes one end.
LEMMA MoveEnds ==
  ASSUME PipesOK, NEW p \in Pipe, NEW x \in Ends(p), NEW take, NEW to, Move(x, p, take, to),
         to \in EndState
  PROVE  /\ end' = [q \in Pipe |-> end'[q]] /\ \A q \in Pipe : end'[q] \in [Ends(q) -> EndState]
         /\ \A q \in Pipe : \A y \in Ends(q) :
              end'[q][y] = IF q = p /\ y = x THEN to ELSE end[q][y]
<1>1. end' = [end EXCEPT ![p][x] = to]
  BY DEF Move, Goes
<1>2. end = [q \in Pipe |-> end[q]] /\ \A q \in Pipe : end[q] \in [Ends(q) -> EndState]
  BY DEF PipesOK
<1> QED
  BY <1>1, <1>2, EndPut

\* Messages say something to x's end of p.
Says(mine, to, c) ==
  (c = "pipe_term" /\ Asks(mine, to)) \/ (c = "pipe_term_ack" /\ Answers(mine, to))

\* A move takes one command from a mailbox and adds at most one to another.
LEMMA MoveMail ==
  ASSUME PipesOK, \A y \in User : Distinct(mailbox[y]),
         NEW p \in Pipe, NEW x \in Ends(p), NEW take, NEW to, Move(x, p, take, to),
         ~(Asks(end[p][x], to) /\ Answers(end[p][x], to)),
         NEW y \in User
  PROVE  /\ mailbox' \in [User -> Seq(CmdType)]
         /\ \A c, q : Mail(y, c, q)' <=>
              \/ Mail(y, c, q) /\ ~(y = x /\ c = take /\ q = p)
              \/ y = Other(p, x) /\ q = p /\ Says(end[p][x], to, c)
         /\ \A m : In(m, mailbox'[y]) => In(m, mailbox[y]) \/ (y = Other(p, x) /\ m.of = p)
         /\ (\A c : y = Other(p, x) /\ Says(end[p][x], to, c) => ~Mail(y, c, p)) =>
              Distinct(mailbox'[y])
         /\ \A c, d, q, r : Order(mailbox[y], Cmd(c, q), Cmd(d, r)) /\
              (y = Other(p, x) /\ q = p /\ Says(end[p][x], to, c) =>
                 ~Mail(y, d, r) /\ ~(c = d /\ q = r)) =>
              Order(mailbox'[y], Cmd(c, q), Cmd(d, r))
<1> DEFINE o == Other(p, x)  m == Left(x, take)  mine == end[p][x]
<1>1. x \in User /\ o \in User /\ o # x
  BY EndFacts
<1>2. mailbox \in [User -> Seq(CmdType)]
  BY DEF PipesOK
<1>3. mailbox' = [m EXCEPT ![o] = @ \o Reply(mine, to, p)]
  BY DEF Move, Goes
<1>4. Takes(x, take, p)
  BY DEF Move
<1>5. /\ Cmd("pipe_term", p) \in CmdType /\ Cmd("pipe_term_ack", p) \in CmdType
      /\ \A c, q : Cmd(c, q).of = q
      /\ \A c, d, q, r : Cmd(c, q) = Cmd(d, r) <=> c = d /\ q = r
  BY CmdFacts
<1>6. take # "nothing" => mailbox[x] # <<>> /\ Head(mailbox[x]) = Cmd(take, p)
  BY <1>4 DEF Takes
<1>7. m \in [User -> Seq(CmdType)] /\ \A z \in User : z # x => m[z] = mailbox[z]
  BY <1>1, <1>2, <1>6, TakenOff DEF Left, Taken
<1>8. m[x] = IF take = "nothing" THEN mailbox[x] ELSE Tail(mailbox[x])
  BY <1>1, <1>2 DEF Left, Taken
<1> HIDE DEF m, o, mine
<1>9. Reply(mine, to, p) = IF Asks(mine, to) THEN <<Cmd("pipe_term", p)>>
                           ELSE IF Answers(mine, to) THEN <<Cmd("pipe_term_ack", p)>> ELSE <<>>
  BY Replies
<1>10. ~(Asks(mine, to) /\ Answers(mine, to))
  BY DEF mine
<1>11. /\ mailbox'[o] = IF Asks(mine, to) THEN Append(mailbox[o], Cmd("pipe_term", p))
                        ELSE IF Answers(mine, to) THEN Append(mailbox[o], Cmd("pipe_term_ack", p))
                        ELSE mailbox[o]
       /\ mailbox'[o] \in Seq(CmdType)
  <2>1. mailbox'[o] = mailbox[o] \o Reply(mine, to, p)
    BY <1>1, <1>3, <1>7
  <2>2. mailbox[o] \in Seq(CmdType)
    BY <1>1, <1>2
  <2>3. /\ \A n \in CmdType : mailbox[o] \o <<n>> = Append(mailbox[o], n)
        /\ \A n \in CmdType : Append(mailbox[o], n) \in Seq(CmdType)
        /\ mailbox[o] \o <<>> = mailbox[o]
    BY <2>2, <1>5, Added
  <2>4. CASE Asks(mine, to)
    <3>1. mailbox'[o] = mailbox[o] \o <<Cmd("pipe_term", p)>>
      BY <1>9, <2>1, <2>4
    <3>2. mailbox'[o] = Append(mailbox[o], Cmd("pipe_term", p))
      BY <1>5, <2>3, <3>1
    <3> QED
      BY <1>5, <2>3, <2>4, <3>2
  <2>5. CASE Answers(mine, to) /\ ~Asks(mine, to)
    <3>1. mailbox'[o] = mailbox[o] \o <<Cmd("pipe_term_ack", p)>>
      BY <1>9, <2>1, <2>5
    <3>2. mailbox'[o] = Append(mailbox[o], Cmd("pipe_term_ack", p))
      BY <1>5, <2>3, <3>1
    <3> QED
      BY <1>5, <2>3, <2>5, <3>2
  <2>6. CASE ~Answers(mine, to) /\ ~Asks(mine, to)
    BY <1>9, <2>1, <2>2, <2>3, <2>6
  <2> QED
    BY <2>4, <2>5, <2>6
<1>12. \A z \in User : z # o => mailbox'[z] = m[z]
  BY <1>3, <1>7
<1>13. mailbox' \in [User -> Seq(CmdType)]
  <2>1. mailbox' = [z \in User |-> mailbox'[z]]
    BY <1>3, <1>7
  <2>2. \A z \in User : mailbox'[z] \in Seq(CmdType)
    BY <1>7, <1>11, <1>12
  <2> QED
    BY <2>1, <2>2
<1>14. CASE y = o
  <2>1. mailbox[y] \in Seq(CmdType) /\ Distinct(mailbox[y]) /\ y # x
    BY <1>1, <1>2, <1>14
  <2>2. CASE Asks(mine, to)
    <3>1. mailbox'[y] = Append(mailbox[y], Cmd("pipe_term", p))
      BY <1>11, <1>14, <2>2
    <3>2. \A c : Says(mine, to, c) <=> c = "pipe_term"
      BY <2>2, <1>10 DEF Says
    <3> QED
      BY <1>5, <1>13, <1>14, <2>1, <3>1, <3>2, Added DEF Mail, o, mine
  <2>3. CASE Answers(mine, to)
    <3>1. mailbox'[y] = Append(mailbox[y], Cmd("pipe_term_ack", p))
      BY <1>10, <1>11, <1>14, <2>3
    <3>2. \A c : Says(mine, to, c) <=> c = "pipe_term_ack"
      BY <2>3, <1>10 DEF Says
    <3> QED
      BY <1>5, <1>13, <1>14, <2>1, <3>1, <3>2, Added DEF Mail, o, mine
  <2>4. CASE ~Asks(mine, to) /\ ~Answers(mine, to)
    <3>1. mailbox'[y] = mailbox[y]
      BY <1>11, <1>14, <2>4
    <3>2. \A c : ~Says(mine, to, c)
      BY <2>4 DEF Says
    <3> QED
      BY <1>13, <1>14, <2>1, <3>1, <3>2 DEF Mail, o, mine
  <2> QED
    BY <2>2, <2>3, <2>4
<1>15. CASE y = x /\ take # "nothing"
  <2>1. /\ mailbox[y] \in Seq(CmdType) /\ Distinct(mailbox[y]) /\ mailbox[y] # <<>>
        /\ Head(mailbox[y]) = Cmd(take, p) /\ y # o
    BY <1>1, <1>2, <1>6, <1>15
  <2>2. mailbox'[y] = Tail(mailbox[y])
    BY <1>1, <1>8, <1>12, <1>15
  <2> QED
    BY <1>5, <1>13, <1>15, <2>1, <2>2, TakenOff DEF Mail, o
<1>16. CASE y # o /\ ~(y = x /\ take # "nothing")
  <2>1. mailbox'[y] = mailbox[y]
    BY <1>7, <1>8, <1>12, <1>16
  <2>2. \A c, q : Mail(y, c, q) => c # "nothing"
    <3> SUFFICES ASSUME NEW q, Mail(y, "nothing", q) PROVE FALSE
      OBVIOUS
    <3>1. PICK i \in 1 .. Len(mailbox[y]) : mailbox[y][i] = Cmd("nothing", q)
      BY DEF Mail, In
    <3>2. Cmd("nothing", q) \in CmdType
      BY <1>2, <3>1
    <3> QED
      BY <3>2 DEF Cmd, CmdType
  <2> QED
    BY <1>13, <1>16, <2>1, <2>2 DEF Mail, o
<1> QED
  BY <1>14, <1>15, <1>16

Talks == \A p \in Pipe : \A x \in Ends(p) : Talk(p, x)

\* A command that is taken is due.
LEMMA TakenDue ==
  ASSUME PipesOK, Talks, NEW p \in Pipe, NEW x \in Ends(p), NEW take, Takes(x, take, p)
  PROVE  /\ take # "nothing" => Mail(x, take, p)
         /\ take = "pipe_term" => /\ TermDue(end[p][x], end[p][Other(p, x)])
                                  /\ ~Mail(x, "bind", p)
         /\ take = "pipe_term_ack" => /\ AckDue(end[p][x], end[p][Other(p, x)])
                                      /\ ~TermDue(end[p][x], end[p][Other(p, x)])
         /\ take = "bind" => /\ x = Loop /\ end[p][x] = "active"
<1>1. x \in User /\ mailbox[x] \in Seq(CmdType) /\ Talk(p, x)
  BY EndFacts DEF PipesOK, Talks
<1>2. CASE take = "nothing"
  BY <1>2
<1>3. CASE take # "nothing"
  <2>1. mailbox[x] # <<>> /\ Head(mailbox[x]) = Cmd(take, p)
    BY <1>3 DEF Takes
  <2>2. /\ Mail(x, take, p)
        /\ \A a : Order(mailbox[x], a, Cmd(take, p)) => ~In(a, mailbox[x])
    BY <1>1, <2>1, TakenOff DEF Mail
  <2>3. take = "pipe_term" => ~Mail(x, "bind", p)
    BY <1>1, <2>2 DEF Talk, Mail
  <2>4. take = "pipe_term_ack" => ~Mail(x, "pipe_term", p)
    BY <1>1, <2>2 DEF Talk, Mail
  <2> QED
    BY <1>1, <2>2, <2>3, <2>4 DEF Talk
<1> QED
  BY <1>2, <1>3

\* A move keeps the two ends and the commands between them in agreement.
LEMMA TalkMove ==
  ASSUME PipesOK, Talks, \A y \in User : Distinct(mailbox[y]),
         NEW p \in Pipe, NEW x \in Ends(p), NEW take, NEW to, Move(x, p, take, to),
         take = "nothing" /\ x = Loop => to = end[p][x] \/ ~Mail(Loop, "bind", p),
         \A q \in Pipe : \A y \in Ends(q) : In(Delimiter, unread'[q][y]) =>
            In(Delimiter, unread[q][y]) \/ (q = p /\ y = Other(p, x) /\ Asks(end[p][x], to))
  PROVE  Talks' /\ \A y \in User : Distinct(mailbox'[y])
<1> DEFINE o == Other(p, x)  mine == end[p][x]  theirs == end[p][o]
<1>1. /\ x \in User /\ o \in User /\ o # x /\ o \in Ends(p) /\ Other(p, o) = x
      /\ \A y \in Ends(p) : y = x \/ y = o
  BY EndFacts
<1>2. Takes(x, take, p) /\ Goal(mine, theirs, take, to)
  BY DEF Move
<1>3. Talk(p, x) /\ Talk(p, o)
  BY <1>1 DEF Talks
<1>4. /\ take = "pipe_term" => TermDue(mine, theirs) /\ ~Mail(x, "bind", p)
      /\ take = "pipe_term_ack" => AckDue(mine, theirs)
      /\ take = "bind" => x = Loop /\ mine = "active"
  BY <1>2, TakenDue
<1>5. Agree(mine, theirs)
  BY <1>3 DEF Talk
<1>6. /\ Agree(to, theirs) /\ Agree(theirs, to)
      /\ TermDue(to, theirs) <=> TermDue(mine, theirs) /\ take # "pipe_term"
      /\ AckDue(to, theirs) <=> AckDue(mine, theirs) /\ take # "pipe_term_ack"
      /\ TermDue(theirs, to) <=> TermDue(theirs, mine) \/ Asks(mine, to)
      /\ AckDue(theirs, to) <=> AckDue(theirs, mine) \/ Answers(mine, to)
      /\ Asks(mine, to) => ~TermDue(theirs, mine) /\ ~AckDue(theirs, mine) /\ theirs # "gone"
      /\ Answers(mine, to) => ~AckDue(theirs, mine) /\ ~Asks(mine, to)
      /\ to \in EndState /\ (to = "none" <=> mine = "none") /\ (to = "active" => mine = "active")
      /\ mine \in {"req1", "req2", "gone"} => to \in {"req1", "req2", "gone"}
  BY <1>2, <1>4, <1>5, Due
<1>7. /\ \A q \in Pipe : \A y \in Ends(q) : end'[q][y] = IF q = p /\ y = x THEN to ELSE end[q][y]
  BY <1>6, MoveEnds
<1>8. end'[p][x] = to /\ end'[p][o] = theirs
  BY <1>1, <1>7
<1>9. \A y \in User :
         /\ \A c, q : Mail(y, c, q)' <=>
              \/ Mail(y, c, q) /\ ~(y = x /\ c = take /\ q = p)
              \/ y = o /\ q = p /\ Says(mine, to, c)
         /\ (\A c : y = o /\ Says(mine, to, c) => ~Mail(y, c, p)) => Distinct(mailbox'[y])
         /\ \A c, d, q, r : Order(mailbox[y], Cmd(c, q), Cmd(d, r)) /\
              (y = o /\ q = p /\ Says(mine, to, c) => ~Mail(y, d, r) /\ ~(c = d /\ q = r)) =>
              Order(mailbox'[y], Cmd(c, q), Cmd(d, r))
  BY <1>6, MoveMail
<1> HIDE DEF o, mine, theirs
<1>10. \A c : Says(mine, to, c) => ~Mail(o, c, p)
  BY <1>1, <1>3, <1>6 DEF Says, Talk, mine, theirs
<1>11. \A y \in User : Distinct(mailbox'[y])
  BY <1>9, <1>10
<1>12. ~Says(mine, to, "bind")
  BY DEF Says
<1>13. ASSUME NEW q \in Pipe, q # p, NEW y \in Ends(q) PROVE Talk(q, y)'
  <2>1. y \in User /\ Other(q, y) \in Ends(q) /\ Talk(q, y)
    BY EndFacts DEF Talks
  <2>2. end'[q][y] = end[q][y] /\ end'[q][Other(q, y)] = end[q][Other(q, y)]
    BY <1>7, <1>13, <2>1
  <2>3. \A c : Mail(y, c, q)' <=> Mail(y, c, q)
    BY <1>9, <1>13, <2>1
  <2>4. \A c, d : Order(mailbox[y], Cmd(c, q), Cmd(d, q)) =>
                  Order(mailbox'[y], Cmd(c, q), Cmd(d, q))
    BY <1>9, <1>13, <2>1
  <2>5. In(Delimiter, unread'[q][y]) => In(Delimiter, unread[q][y])
    BY <1>13
  <2> QED
    BY <2>1, <2>2, <2>3, <2>4, <2>5 DEF Talk
<1>14. Talk(p, x)'
  <2>1. Agree(to, theirs)
    BY <1>6
  <2>2. Mail(x, "pipe_term", p)' <=> TermDue(to, theirs)
    BY <1>1, <1>3, <1>6, <1>9 DEF Talk, mine, theirs, o
  <2>3. Mail(x, "pipe_term_ack", p)' <=> AckDue(to, theirs)
    BY <1>1, <1>3, <1>6, <1>9 DEF Talk, mine, theirs, o
  <2>4. Mail(x, "bind", p)' => x = Loop /\ to = "active"
    <3> SUFFICES ASSUME Mail(x, "bind", p)' PROVE x = Loop /\ to = "active"
      OBVIOUS
    <3>1. Mail(x, "bind", p) /\ take # "bind"
      BY <1>1, <1>9
    <3>2. x = Loop /\ mine = "active" /\ take # "pipe_term"
      BY <1>3, <1>4, <3>1 DEF Talk, mine
    <3>3. take = "nothing" => to = mine
      BY <3>1, <3>2 DEF mine
    <3> QED
      BY <1>2, <3>1, <3>2, <3>3 DEF Goal
  <2>5. /\ Order(mailbox'[x], Cmd("pipe_term", p), Cmd("pipe_term_ack", p))
        /\ Order(mailbox'[x], Cmd("bind", p), Cmd("pipe_term", p))
    BY <1>1, <1>3, <1>9 DEF Talk
  <2>6. In(Delimiter, unread'[p][x]) => theirs \in {"req1", "req2", "gone"}
    BY <1>1, <1>3 DEF Talk, theirs, o
  <2> QED
    BY <1>8, <2>1, <2>2, <2>3, <2>4, <2>5, <2>6 DEF Talk, o
<1>15. Talk(p, o)'
  <2>1. Agree(theirs, to)
    BY <1>6
  <2>2. Mail(o, "pipe_term", p)' <=> TermDue(theirs, to)
    BY <1>1, <1>3, <1>6, <1>9 DEF Talk, mine, theirs, Says
  <2>3. Mail(o, "pipe_term_ack", p)' <=> AckDue(theirs, to)
    BY <1>1, <1>3, <1>6, <1>9 DEF Talk, mine, theirs, Says
  <2>4. Mail(o, "bind", p)' => o = Loop /\ theirs = "active"
    BY <1>1, <1>3, <1>9, <1>12 DEF Talk, theirs
  <2>5. Order(mailbox'[o], Cmd("pipe_term", p), Cmd("pipe_term_ack", p))
    <3>1. Says(mine, to, "pipe_term") => ~Mail(o, "pipe_term_ack", p)
      BY <1>1, <1>3, <1>6 DEF Talk, mine, theirs, Says
    <3> QED
      BY <1>1, <1>3, <1>9, <3>1 DEF Talk
  <2>6. Order(mailbox'[o], Cmd("bind", p), Cmd("pipe_term", p))
    BY <1>1, <1>3, <1>9, <1>12 DEF Talk
  <2>7. In(Delimiter, unread'[p][o]) => to \in {"req1", "req2", "gone"}
    BY <1>1, <1>3, <1>6 DEF Talk, mine, o, Asks
  <2> QED
    BY <1>1, <1>8, <2>1, <2>2, <2>3, <2>4, <2>5, <2>6, <2>7 DEF Talk
<1> QED
  BY <1>1, <1>11, <1>13, <1>14, <1>15 DEF Talks

-----------------------------------------------------------------------------
(***************************************************************************)
(* The steps that move an end of a pipe.                                   *)
(***************************************************************************)

\* x reads the delimiter that is at the head of its end of p.
ReadsDelimiter(x, p, take, to) ==
  /\ take = "nothing" /\ attached[x] = p /\ end[p][x] \in {"active", "waiting"}
  /\ to = IF end[p][x] = "active" THEN "delimited" ELSE "acked"
  /\ unread[p][x] # <<>> /\ Head(unread[p][x]) = Delimiter
  /\ unread' = [unread EXCEPT ![p][x] = Tail(@)]

\* The thread x leaves zmq_disconnect, in which it has terminated p.
Leaves(x, p) ==
  /\ pc[x] = "disconnect" /\ p = <<x, sent[x]>>
  /\ pc' = [pc EXCEPT ![x] = IF x \in Thread /\ sent[x] < NumMsgs THEN "head" ELSE "ended"]

\* A move, with all that goes with it.
Shift(x, p, take, to) ==
  /\ p \in Pipe /\ x \in Ends(p) /\ Move(x, p, take, to)
  /\ attached' = [attached EXCEPT ![x] =
       IF take = "bind" /\ to = "active" THEN p
       ELSE IF take = "pipe_term_ack" /\ attached[x] = p THEN None ELSE attached[x]]
  /\ refused' = IF take = "bind" /\ to = "req1" THEN refused \cup {p} ELSE refused
  /\ take = "bind" => (to = "active" <=> attached[Loop] = None)
  /\ \/ Asks(end[p][x], to) /\ unread' = [unread EXCEPT ![p][Other(p, x)] = Append(@, Delimiter)]
     \/ ~Asks(end[p][x], to) /\ unread' = unread
     \/ ReadsDelimiter(x, p, take, to)
  /\ x = Loop /\ take = "nothing" => ReadsDelimiter(x, p, take, to)
  /\ sent' = sent /\ received' = received /\ loopPc' = loopPc /\ failed' = failed
  /\ \/ pc' = pc /\ (x # Loop /\ take = "nothing" => pc[x] \in {"poll", "ended"})
     \/ x # Loop /\ take = "nothing" /\ Leaves(x, p) /\ to \notin {"active", "delimited"}

\* An end that gets the state that it has stays as it is.
LEMMA EndKept ==
  ASSUME PipesOK, NEW p \in Pipe, NEW x \in Ends(p)
  PROVE  end = [end EXCEPT ![p][x] = end[p][x]]
<1>1. end[p] = [end[p] EXCEPT ![x] = end[p][x]]
  <2>1. end[p] \in [Ends(p) -> EndState]
    BY DEF PipesOK
  <2> QED
    BY <2>1
<1>2. end = [r \in Pipe |-> end[r]]
  BY DEF PipesOK
<1> QED
  BY <1>1, <1>2

\* Mailboxes to one of which nothing is added stay as they are.
LEMMA MailKept ==
  ASSUME NEW y \in User, NEW m \in [User -> Seq(CmdType)]
  PROVE  m = [m EXCEPT ![y] = @ \o <<>>]
<1>1. m[y] \o <<>> = m[y]
  OBVIOUS
<1> QED
  BY <1>1

\* The mailboxes when x has taken a command.
LEMMA TakenFacts ==
  ASSUME PipesOK, NEW x \in User, mailbox[x] # <<>>
  PROVE  Taken(x) \in [User -> Seq(CmdType)]
<1>1. mailbox \in [User -> Seq(CmdType)]
  BY DEF PipesOK
<1>2. Tail(mailbox[x]) \in Seq(CmdType)
  BY <1>1, TakenOff
<1> QED
  BY <1>1, <1>2 DEF Taken

\* What a command is for belongs to whom it is sent to.
LEMMA ReceiveFacts ==
  ASSUME PairsAssumption, PipesOK, Handshake, NEW x \in User, NEW c, NEW p, Receive(x, c, p),
         c # "nothing"
  PROVE  /\ p \in Pipe /\ x \in Ends(p) /\ Takes(x, c, p) /\ Left(x, c) = Taken(x)
         /\ Talk(p, x) /\ Mail(x, c, p)
<1>1. mailbox[x] \in Seq(CmdType) /\ mailbox[x] # <<>> /\ Head(mailbox[x]) = Cmd(c, p)
  BY DEF Receive, Cmd, PipesOK
<1>2. Cmd(c, p) \in CmdType /\ In(Cmd(c, p), mailbox[x])
  BY <1>1, TakenOff
<1>3. p \in Pipe
  BY <1>2 DEF CmdType, Cmd
<1>4. x \in Socket => p[1] = x
  BY <1>2, CmdFacts DEF Handshake, Boxes
<1>5. x \in Ends(p)
  BY <1>4 DEF Ends, User
<1> QED
  BY <1>1, <1>2, <1>3, <1>5 DEF Takes, Left, Handshake, Mail

\* What a PAIR has is its own.
LEMMA AttachedFacts ==
  ASSUME PairsAssumption, PipesOK, Handshake, NEW x \in User, attached[x] # None
  PROVE  /\ attached[x] \in Pipe /\ x \in Ends(attached[x]) /\ Talk(attached[x], x)
         /\ x \in Socket => attached[x][1] = x
<1>1. attached[x] \in Pipe
  BY DEF PipesOK
<1>2. x \in Socket => attached[x][1] = x
  BY DEF Handshake, Boxes
<1>3. x \in Ends(attached[x])
  BY <1>2 DEF Ends, User
<1> QED
  BY <1>1, <1>2, <1>3 DEF Handshake

\* The delimiter is read.
LEMMA ReadDelimiterShifts ==
  ASSUME PairsAssumption, PipesOK, Handshake, NEW x \in User, ReadDelimiter(x)
  PROVE  \E to : Shift(x, attached[x], "nothing", to)
<1>1. attached[x] # None
  BY DEF ReadDelimiter, Readable
<1>2. PICK p \in Pipe : p = attached[x]
  BY <1>1, AttachedFacts
<1>3. PICK to : to = IF end[p][x] = "active" THEN "delimited" ELSE "acked"
  OBVIOUS
<1>4. x \in Ends(p) /\ Talk(p, x)
  BY <1>1, <1>2, AttachedFacts
<1>5. /\ end[p][x] \in {"active", "waiting"} /\ unread[p][x] # <<>>
      /\ Head(unread[p][x]) = Delimiter /\ (x # Loop => pc[x] = "poll")
  BY <1>2 DEF ReadDelimiter, Readable
<1>6. Goes(x, p, to, mailbox) /\ unread' = [unread EXCEPT ![p][x] = Tail(@)]
  BY <1>2, <1>3 DEF ReadDelimiter
<1>7. In(Delimiter, unread[p][x])
  <2>1. unread[p] \in [Ends(p) -> Seq(Pipe \cup {Delimiter})]
    BY DEF PipesOK
  <2>2. unread[p][x] \in Seq(Pipe \cup {Delimiter})
    BY <2>1, <1>4
  <2> QED
    BY <1>5, <2>2, TakenOff
<1>8. end[p][x] = "active" => end[p][Other(p, x)] = "req1"
  BY <1>4, <1>7 DEF Talk, Agree, Half
<1>9. Goal(end[p][x], end[p][Other(p, x)], "nothing", to)
  BY <1>3, <1>5, <1>8 DEF Goal
<1>10. Move(x, p, "nothing", to)
  BY <1>6, <1>9 DEF Move, Takes, Left
<1>11. ReadsDelimiter(x, p, "nothing", to)
  BY <1>2, <1>3, <1>5, <1>6 DEF ReadsDelimiter
<1>12. /\ refused' = refused /\ attached' = attached
       /\ sent' = sent /\ received' = received /\ loopPc' = loopPc /\ failed' = failed /\ pc' = pc
  BY DEF ReadDelimiter, progVars, callVars
<1>13. attached = [attached EXCEPT ![x] = attached[x]]
  BY DEF PipesOK
<1>14. Shift(x, p, "nothing", to)
  BY <1>4, <1>5, <1>10, <1>11, <1>12, <1>13 DEF Shift
<1> QED
  BY <1>2, <1>14

\* A connection reaches the main loop's PAIR.
LEMMA ProcessBindShifts ==
  ASSUME PairsAssumption, PipesOK, Handshake, NEW p \in Pipe, ProcessBind(p)
  PROVE  \E to \in {"active", "req1"} : Shift(Loop, p, "bind", to)
<1>1. Loop \in User /\ Receive(Loop, "bind", p)
  BY DEF ProcessBind, User
<1>2. /\ Loop \in Ends(p) /\ Takes(Loop, "bind", p) /\ Left(Loop, "bind") = Taken(Loop)
      /\ end[p][Loop] = "active"
  BY <1>1, ReceiveFacts DEF Talk
<1>4. /\ sent' = sent /\ received' = received /\ loopPc' = loopPc /\ failed' = failed /\ pc' = pc
  BY DEF ProcessBind, progVars, callVars
<1>5. CASE attached[Loop] = None
  <2>1. /\ attached' = [attached EXCEPT ![Loop] = p] /\ mailbox' = Taken(Loop)
        /\ end' = end /\ unread' = unread /\ refused' = refused
    BY <1>5 DEF ProcessBind
  <2>2. end = [end EXCEPT ![p][Loop] = end[p][Loop]]
    BY <1>2, EndKept
  <2>3. Taken(Loop) \in [User -> Seq(CmdType)] /\ Other(p, Loop) \in User
    BY <1>1, <1>2, TakenFacts, EndFacts DEF Takes
  <2>4. Taken(Loop) = [Taken(Loop) EXCEPT ![Other(p, Loop)] = @ \o <<>>]
    BY <2>3, MailKept
  <2>5. Reply("active", "active", p) = <<>>
    BY DEF Reply
  <2>6. Goes(Loop, p, "active", Taken(Loop))
    BY <1>2, <2>1, <2>2, <2>4, <2>5 DEF Goes
  <2>7. ~Asks("active", "active") /\ Goal("active", end[p][Other(p, Loop)], "bind", "active")
    BY DEF Asks, Goal
  <2>8. Move(Loop, p, "bind", "active")
    BY <1>2, <2>6, <2>7 DEF Move
  <2>9. Shift(Loop, p, "bind", "active")
    BY <1>2, <1>4, <1>5, <2>1, <2>7, <2>8 DEF Shift
  <2> QED
    BY <2>9
<1>6. CASE attached[Loop] # None
  <2>1. /\ Terminate(Loop, p, FALSE, Taken(Loop)) /\ refused' = refused \cup {p}
        /\ attached' = attached
    BY <1>6 DEF ProcessBind
  <2>2. /\ Goes(Loop, p, "req1", Taken(Loop))
        /\ unread' = [unread EXCEPT ![p][Other(p, Loop)] = Append(@, Delimiter)]
    BY <1>2, <2>1 DEF Terminate, Terminated
  <2>3. Asks("active", "req1") /\ Goal("active", end[p][Other(p, Loop)], "bind", "req1")
    BY DEF Asks, Goal
  <2>4. attached' = [attached EXCEPT ![Loop] = attached[Loop]]
    BY <2>1 DEF PipesOK
  <2>5. Move(Loop, p, "bind", "req1")
    BY <1>2, <2>2, <2>3 DEF Move
  <2>6. Shift(Loop, p, "bind", "req1")
    BY <1>2, <1>4, <1>6, <2>1, <2>2, <2>3, <2>4, <2>5 DEF Shift
  <2> QED
    BY <2>6
<1> QED
  BY <1>5, <1>6

\* The other end has asked.
LEMMA ProcessPipeTermShifts ==
  ASSUME PairsAssumption, PipesOK, Handshake, NEW x \in User, NEW p \in Pipe, ProcessPipeTerm(x, p)
  PROVE  \E to : Shift(x, p, "pipe_term", to)
<1>1. Receive(x, "pipe_term", p)
  BY DEF ProcessPipeTerm
<1>2. /\ x \in Ends(p) /\ Takes(x, "pipe_term", p) /\ Left(x, "pipe_term") = Taken(x)
      /\ end[p][x] \in {"active", "delimited", "req1"}
  BY <1>1, ReceiveFacts DEF Talk, TermDue
<1>3. PICK to : to = CASE end[p][x] = "active" -> "waiting"
                       [] end[p][x] = "delimited" -> "acked"
                       [] OTHER -> "req2"
  OBVIOUS
<1>4. Goes(x, p, to, Taken(x))
  BY <1>3 DEF ProcessPipeTerm
<1>5. Goal(end[p][x], end[p][Other(p, x)], "pipe_term", to) /\ ~Asks(end[p][x], to)
  BY <1>2, <1>3 DEF Goal, Asks
<1>6. Move(x, p, "pipe_term", to)
  BY <1>2, <1>4, <1>5 DEF Move
<1>7. /\ refused' = refused /\ attached' = attached /\ unread' = unread
      /\ sent' = sent /\ received' = received /\ loopPc' = loopPc /\ failed' = failed /\ pc' = pc
  BY DEF ProcessPipeTerm, progVars, callVars
<1>8. attached = [attached EXCEPT ![x] = attached[x]]
  BY DEF PipesOK
<1>9. Shift(x, p, "pipe_term", to)
  BY <1>2, <1>5, <1>6, <1>7, <1>8 DEF Shift
<1> QED
  BY <1>9

\* The other end has answered.
LEMMA ProcessPipeTermAckShifts ==
  ASSUME PairsAssumption, PipesOK, Handshake, NEW x \in User, NEW p \in Pipe,
         ProcessPipeTermAck(x, p)
  PROVE  Shift(x, p, "pipe_term_ack", "gone")
<1>1. Receive(x, "pipe_term_ack", p)
  BY DEF ProcessPipeTermAck
<1>2. /\ x \in Ends(p) /\ Takes(x, "pipe_term_ack", p) /\ Left(x, "pipe_term_ack") = Taken(x)
      /\ Talk(p, x)
  BY <1>1, ReceiveFacts
<1>3. /\ AckDue(end[p][x], end[p][Other(p, x)])
      /\ ~TermDue(end[p][x], end[p][Other(p, x)])
  BY <1>2, TakenDue DEF Talks, Handshake
<1>4. Goal(end[p][x], end[p][Other(p, x)], "pipe_term_ack", "gone")
  BY <1>2, <1>3 DEF Goal, Talk, Agree, Half, AckDue, TermDue
<1>5. Move(x, p, "pipe_term_ack", "gone") /\ ~Asks(end[p][x], "gone")
  BY <1>2, <1>4 DEF Move, ProcessPipeTermAck, Asks
<1>6. /\ refused' = refused /\ unread' = unread
      /\ sent' = sent /\ received' = received /\ loopPc' = loopPc /\ failed' = failed /\ pc' = pc
  BY DEF ProcessPipeTermAck, progVars, callVars
<1>7. attached' = [attached EXCEPT ![x] = IF attached[x] = p THEN None ELSE attached[x]]
  BY DEF ProcessPipeTermAck
<1> QED
  BY <1>2, <1>5, <1>6, <1>7 DEF Shift

\* A thread, or the reaper, terminates one of the thread's pipes.
LEMMA TerminateShifts ==
  ASSUME PairsAssumption, PipesOK, NEW p \in Pipe, NEW x \in Socket, x = p[1], NEW delay,
         Terminate(x, p, delay, mailbox),
         end[p][x] \in {"active", "delimited", "waiting"},
         attached' = attached, refused' = refused,
         sent' = sent, received' = received, loopPc' = loopPc, failed' = failed,
         (pc' = pc /\ pc[x] = "ended") \/ Leaves(x, p)
  PROVE  \E to : Shift(x, p, "nothing", to)
<1>1. PICK to : to = Terminated(end[p][x], delay)
  OBVIOUS
<1>2. x \in Ends(p) /\ x # Loop
  BY PipeFacts DEF Ends
<1>3. Goal(end[p][x], end[p][Other(p, x)], "nothing", to)
  BY <1>1 DEF Goal, Terminated
<1>4. Goes(x, p, to, mailbox)
  BY <1>1 DEF Terminate
<1>5. Move(x, p, "nothing", to)
  BY <1>3, <1>4 DEF Move, Takes, Left
<1>6. \/ Asks(end[p][x], to) /\ unread' = [unread EXCEPT ![p][Other(p, x)] = Append(@, Delimiter)]
      \/ ~Asks(end[p][x], to) /\ unread' = unread
  BY <1>1 DEF Terminate, Asks
<1>7. attached = [attached EXCEPT ![x] = attached[x]]
  BY DEF PipesOK
<1>8. to \notin {"active", "delimited"}
  BY <1>1 DEF Terminated
<1> QED
  BY <1>2, <1>5, <1>6, <1>7, <1>8 DEF Shift

\* What the type invariant says of the pipes.
LEMMA TypedPipes == TypeOK => PipesOK
BY DEF TypeOK, PipesOK, CmdType

\* The connection that a thread is at, from zmq_connect on.
LEMMA SentPipe ==
  ASSUME PairsAssumption, TypeOK, Places, NEW s \in Socket, pc[s] \notin {"idle", "head"}
  PROVE  <<s, sent[s]>> \in Pipe /\ sent[s] \in Nat
BY DEF TypeOK, Places, Socket

\* zmq_disconnect.
LEMMA DisconnectShifts ==
  ASSUME PairsAssumption, TypeOK, Places, Tidy, NEW s \in Socket, Disconnect(s)
  PROVE  \E to : Shift(s, <<s, sent[s]>>, "nothing", to)
<1>1. pc[s] = "disconnect"
  BY DEF Disconnect, At
<1>2. attached[s] = <<s, sent[s]>> /\ end[attached[s]][s] \in {"active", "waiting"}
  BY <1>1 DEF Tidy
<1>3. PICK p : p = <<s, sent[s]>>
  OBVIOUS
<1>4. PipesOK /\ p \in Pipe
  BY <1>1, <1>3, SentPipe, TypedPipes
<1>5. p[1] = s /\ end[p][s] \in {"active", "waiting"}
  BY <1>2, <1>3
<1>6. /\ Terminate(s, p, TRUE, mailbox) /\ attached' = attached /\ refused' = refused
      /\ sent' = sent /\ received' = received /\ loopPc' = loopPc /\ failed' = failed
  BY <1>3 DEF Disconnect
<1>7. Leaves(s, p)
  BY <1>1, <1>3 DEF Leaves, Disconnect, To
<1> QED
  BY <1>3, <1>4, <1>5, <1>6, <1>7, TerminateShifts

\* The reaper.
LEMMA ReapShifts ==
  ASSUME PairsAssumption, PipesOK, NEW s \in Socket, NEW p \in Pipe, Reap(s, p)
  PROVE  \E to : Shift(s, p, "nothing", to)
<1>1. /\ p[1] = s /\ Terminate(s, p, FALSE, mailbox) /\ attached' = attached /\ refused' = refused
      /\ pc[s] = "ended" /\ Terminated(end[p][s], FALSE) # end[p][s]
      /\ sent' = sent /\ received' = received /\ loopPc' = loopPc /\ failed' = failed /\ pc' = pc
  BY DEF Reap, At, progVars, callVars
<1>2. end[p][s] \in {"active", "delimited", "waiting"}
  BY <1>1 DEF Terminated
<1> QED
  BY <1>1, <1>2, TerminateShifts

-----------------------------------------------------------------------------
(***************************************************************************)
(* The kinds of steps.                                                     *)
(***************************************************************************)

Place == {"idle", "head", "lock", "connect", "poll", "send", "disconnect", "ended"}

SameSince ==
  \A p \in Pipe : /\ Connected(p)' <=> Connected(p)
                  /\ WasSent(p)' <=> WasSent(p)
                  /\ Past(p)' <=> Past(p)

\* A step that does nothing to the pipes, and brings no thread to or from a connection.
Quiet ==
  /\ UNCHANGED pipeVars /\ received' = received /\ SameSince
  /\ \A s \in Socket : pc'[s] = "disconnect" => pc[s] = "disconnect" /\ sent'[s] = sent[s]
  /\ \A t \in Thread : sent'[t] = sent[t] \/ pc[t] = "head"
  /\ loopPc' = "closed" <=> loopPc = "closed"
  /\ failed' = failed \/ CheckResults

\* Where each thread stays on its side of zmq_connect, zmq_send and zmq_disconnect.
LEMMA StaysSince ==
  ASSUME TypeOK, sent' = sent, pc' \in [Socket -> Place],
         \A s \in Socket : pc'[s] = pc[s] \/
           (pc[s] \in {"lock", "connect"} /\ pc'[s] \in {"lock", "connect"}) \/
           (pc[s] \in {"poll", "send"} /\ pc'[s] \in {"poll", "send"})
  PROVE  SameSince
<1> SUFFICES ASSUME NEW p \in Pipe
             PROVE  /\ Connected(p)' <=> Connected(p)
                    /\ WasSent(p)' <=> WasSent(p)
                    /\ Past(p)' <=> Past(p)
  BY DEF SameSince
<1>1. p[1] \in Socket
  BY PairsAssumption, PipeFacts
<1>2. sent'[p[1]] = sent[p[1]]
  OBVIOUS
<1> QED
  BY <1>1, <1>2 DEF Connected, WasSent, Past, Since

\* A new ping begins where the last one is past.
LEMMA PingSince ==
  ASSUME PairsAssumption, TypeOK, NEW t \in Socket, pc[t] \in {"head", "idle"},
         pc[t] = "idle" => sent[t] = 0,
         sent' = [sent EXCEPT ![t] = sent[t] + 1], pc' = [pc EXCEPT ![t] = "lock"]
  PROVE  SameSince
<1> SUFFICES ASSUME NEW p \in Pipe
             PROVE  /\ Connected(p)' <=> Connected(p)
                    /\ WasSent(p)' <=> WasSent(p)
                    /\ Past(p)' <=> Past(p)
  BY DEF SameSince
<1>1. p[1] \in Socket /\ p[2] \in Nat /\ p[2] >= 1
  BY PipeFacts
<1>2. sent \in [Socket -> Nat] /\ pc \in [Socket -> Place]
  BY DEF TypeOK, Place
<1>3. CASE p[1] # t
  <2>1. sent'[p[1]] = sent[p[1]] /\ pc'[p[1]] = pc[p[1]]
    BY <1>1, <1>2, <1>3
  <2> QED
    BY <2>1 DEF Connected, WasSent, Past, Since
<1>4. CASE p[1] = t
  <2>1. sent'[p[1]] = sent[p[1]] + 1 /\ pc'[p[1]] = "lock" /\ sent[p[1]] \in Nat
    BY <1>1, <1>2, <1>4
  <2>2. PICK n \in Nat : n = sent[p[1]]
    BY <2>1
  <2>3. PICK k \in Nat : k = p[2] /\ k >= 1
    BY <1>1
  <2>4. k < n + 1 <=> k < n \/ k = n
    BY <2>2, <2>3
  <2> QED
    BY <1>4, <2>1, <2>2, <2>3, <2>4 DEF Connected, WasSent, Past, Since
<1> QED
  BY <1>3, <1>4

\* A thread at its loop's head is before the main loop's end.
LEMMA HeadOpen ==
  ASSUME Places, NEW t \in Thread, pc[t] = "head"
  PROVE  loopPc # "closed"
BY DEF Places

\* The steps that are not one of the pipes'.
LEMMA QuietSteps ==
  ASSUME PairsAssumption, TypeOK, Places, Next
  PROVE  \/ Quiet
         \/ \E s \in Socket : \/ Connect(s) \/ Send(s) \/ Disconnect(s) \/ ReadDelimiter(s)
                              \/ \E p \in Pipe : \/ ProcessPipeTerm(s, p)
                                                 \/ ProcessPipeTermAck(s, p) \/ Reap(s, p)
         \/ ReadDelimiter(Loop) \/ ReceiveExit
         \/ \E t \in Thread, n \in 1 .. NumMsgs \cup {1} : ReceivePing(t, n)
         \/ \E p \in Pipe : \/ ProcessBind(p) \/ ProcessPipeTerm(Loop, p)
                            \/ ProcessPipeTermAck(Loop, p)
<1>1. /\ pc \in [Socket -> Place] /\ sent \in [Socket -> Nat] /\ Thread \subseteq Socket
      /\ Shutdown \in Socket
  BY DEF TypeOK, Socket, Place
<1>2. ASSUME NEW t \in Socket, NextPing(t) PROVE Quiet
  <2>1. pc[t] = "head" /\ t \in Thread
    BY <1>2 DEF NextPing, At, Places, Socket
  <2>2. loopPc # "closed"
    BY <2>1, HeadOpen
  <2>3. /\ sent' = [sent EXCEPT ![t] = sent[t] + 1] /\ pc' = [pc EXCEPT ![t] = "lock"]
        /\ UNCHANGED pipeVars /\ received' = received /\ loopPc' = loopPc /\ failed' = failed
    BY <1>2, <2>2 DEF NextPing, To
  <2>4. SameSince
    BY <2>1, <2>3, PingSince
  <2>5. \A s \in Socket : pc'[s] = "disconnect" => pc[s] = "disconnect" /\ sent'[s] = sent[s]
    BY <1>1, <2>3
  <2>6. \A r \in Thread : sent'[r] = sent[r] \/ pc[r] = "head"
    BY <1>1, <2>1, <2>3
  <2> QED
    BY <2>3, <2>4, <2>5, <2>6 DEF Quiet
<1>3. CASE JoinThreads
  <2>1. pc[Shutdown] = "idle" /\ sent[Shutdown] = 0
    BY <1>3 DEF JoinThreads, Places
  <2>2. /\ sent' = [sent EXCEPT ![Shutdown] = sent[Shutdown] + 1]
        /\ pc' = [pc EXCEPT ![Shutdown] = "lock"]
        /\ UNCHANGED pipeVars /\ received' = received /\ loopPc' = loopPc /\ failed' = failed
    BY <1>3, <2>1 DEF JoinThreads, To
  <2>3. SameSince
    BY <1>1, <2>1, <2>2, PingSince
  <2>4. \A s \in Socket : pc'[s] = "disconnect" => pc[s] = "disconnect" /\ sent'[s] = sent[s]
    BY <1>1, <2>2
  <2>5. \A t \in Thread : sent'[t] = sent[t]
    BY <1>1, <2>2, PairsAssumption
  <2> QED
    BY <2>2, <2>3, <2>4, <2>5 DEF Quiet
<1>4. ASSUME NEW s \in Socket, NEW where, pc' = [pc EXCEPT ![s] = where], where \in {"connect", "send"},
             where = "connect" => pc[s] = "lock", where = "send" => pc[s] \in {"poll", "send"},
             sent' = sent, UNCHANGED pipeVars, received' = received, loopPc' = loopPc, failed' = failed
      PROVE  Quiet
  <2>1. SameSince
    <3>1. pc' \in [Socket -> Place] /\ pc[s] \in {"lock", "poll", "send"}
      BY <1>1, <1>4 DEF Place
    <3>2. \A r \in Socket : r # s => pc'[r] = pc[r]
      BY <1>1, <1>4
    <3>3. pc'[s] = where
      BY <1>1, <1>4
    <3>4. \/ pc[s] \in {"lock", "connect"} /\ pc'[s] \in {"lock", "connect"}
          \/ pc[s] \in {"poll", "send"} /\ pc'[s] \in {"poll", "send"}
      BY <1>4, <3>3
    <3> QED
      BY <1>4, <3>1, <3>2, <3>4, StaysSince
  <2>2. \A r \in Socket : pc'[r] = "disconnect" => pc[r] = "disconnect" /\ sent'[r] = sent[r]
    BY <1>1, <1>4
  <2> QED
    BY <1>4, <2>1, <2>2 DEF Quiet
<1>5. ASSUME NEW s \in Socket, Lock(s) PROVE Quiet
  BY <1>4, <1>5 DEF Lock, At, To
<1>6. ASSUME NEW s \in Socket, Poll(s) PROVE Quiet
  BY <1>4, <1>6 DEF Poll, At, To, After, progVars
<1>7. ASSUME NEW s \in Socket, SendFails(s) PROVE Quiet
  BY <1>4, <1>7 DEF SendFails, At, To
<1>8. ASSUME pc' = pc, sent' = sent, UNCHANGED pipeVars, received' = received,
             loopPc' = "closed" <=> loopPc = "closed", failed' = failed \/ CheckResults
      PROVE  Quiet
  <2>1. SameSince
    BY <1>1, <1>8, StaysSince
  <2> QED
    BY <1>8, <2>1 DEF Quiet
<1>9. ASSUME NEW s \in Socket, Drained(s) PROVE Quiet
  BY <1>8, <1>9 DEF Drained, progVars
<1>10. CASE Bind
  BY <1>8, <1>10 DEF Bind, callVars
<1>11. CASE CheckResults
  BY <1>8, <1>11 DEF CheckResults, callVars
<1> QED
  BY <1>2, <1>3, <1>5, <1>6, <1>7, <1>9, <1>10, <1>11 DEF Next, ThreadStep, LoopStep

\* Every step is of one of these kinds.
LEMMA Kinds ==
  ASSUME PairsAssumption, TypeOK, Places, Handshake, Tidy, Next
  PROVE  \/ Quiet
         \/ \E s \in Socket : Connect(s) \/ Send(s)
         \/ \E p \in Pipe : \E x \in Ends(p) : \E take, to : Shift(x, p, take, to)
         \/ ReceiveExit
         \/ \E t \in Thread, n \in 1 .. NumMsgs \cup {1} : ReceivePing(t, n)
<1> DEFINE Shifts == \E p \in Pipe : \E x \in Ends(p) : \E take, to : Shift(x, p, take, to)
<1>1. PipesOK /\ Socket \subseteq User /\ Loop \in User
  BY TypedPipes DEF User
<1>2. ASSUME NEW x, NEW p, NEW take, NEW to, Shift(x, p, take, to) PROVE Shifts
  <2>1. p \in Pipe /\ x \in Ends(p)
    BY <1>2 DEF Shift
  <2> QED
    BY <1>2, <2>1
<1> HIDE DEF Shifts
<1>3. ASSUME NEW x \in User, ReadDelimiter(x) PROVE Shifts
  BY <1>1, <1>2, <1>3, ReadDelimiterShifts
<1>4. ASSUME NEW p \in Pipe, ProcessBind(p) PROVE Shifts
  BY <1>1, <1>2, <1>4, ProcessBindShifts
<1>5. ASSUME NEW x \in User, NEW p \in Pipe, ProcessPipeTerm(x, p) PROVE Shifts
  BY <1>1, <1>2, <1>5, ProcessPipeTermShifts
<1>6. ASSUME NEW x \in User, NEW p \in Pipe, ProcessPipeTermAck(x, p) PROVE Shifts
  BY <1>1, <1>2, <1>6, ProcessPipeTermAckShifts
<1>7. ASSUME NEW s \in Socket, Disconnect(s) PROVE Shifts
  BY <1>1, <1>2, <1>7, DisconnectShifts
<1>8. ASSUME NEW s \in Socket, NEW p \in Pipe, Reap(s, p) PROVE Shifts
  BY <1>1, <1>2, <1>8, ReapShifts
<1>9. \/ Quiet \/ Shifts
      \/ \E s \in Socket : Connect(s) \/ Send(s)
      \/ ReceiveExit
      \/ \E t \in Thread, n \in 1 .. NumMsgs \cup {1} : ReceivePing(t, n)
  BY <1>1, <1>3, <1>4, <1>5, <1>6, <1>7, <1>8, QuietSteps
<1> QED
  BY <1>9 DEF Shifts

===========================================================================
