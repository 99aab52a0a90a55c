--------------------------- MODULE SocketProofs ---------------------------
(***************************************************************************)
(* Proofs about SocketBase, for any number of children and pipe addresses, *)
(* any endpoints, and any bounds.                                          *)
(***************************************************************************)
EXTENDS SocketBase, SequenceTheorems, FiniteSetTheorems, TLAPS

PipeShapes ==
  /\ l \in [Pipe -> EndState] /\ r \in [Pipe -> EndState]
  /\ toR \in [Pipe -> Seq({"pipe_term", "pipe_term_ack"})]
  /\ owner \in [Pipe -> Child \cup {None, "inproc", "pending"}]

OptShapes ==
  /\ immediate \in BOOLEAN /\ linger \in {"infinite", "finite"}
  /\ bound \subseteq Child /\ patient \subseteq Child
  /\ sent \subseteq Pipe /\ lost \subseteq Pipe

-----------------------------------------------------------------------------
(***************************************************************************)
(* The sets the variables range over.                                      *)
(***************************************************************************)

\* A command that is put in the mailbox.
LEMMA Sent ==
  ASSUME mailbox \in Seq(Msg), NEW m \in Msg
  PROVE  Append(mailbox, m) \in Seq(Msg)
BY AppendProperties

\* A command that is taken from it.
LEMMA Taken ==
  ASSUME mailbox \in Seq(Msg), NEW cmd, NEW x, Receive(cmd, x)
  PROVE  mailbox' \in Seq(Msg) /\ Command(cmd, x) \in Msg
BY HeadTailProperties DEF Receive

LEMMA NewPipeShapes ==
  ASSUME Shapes, NEW p \in Pipe, NEW o \in Child \cup {"inproc", "pending"}, NewPipe(p, o)
  PROVE  PipeShapes'
BY DEF Shapes, PipeShapes, NewPipe, EndState

LEMMA TerminateShapes ==
  ASSUME Shapes, NEW P \in SUBSET Pipe, NEW delay \in BOOLEAN, Terminate(P, delay)
  PROVE  PipeShapes'
<1>1. l' \in [Pipe -> EndState]
  BY DEF Shapes, Terminate, EndState
<1>2. \A p \in Pipe : /\ toR[p] \in Seq({"pipe_term", "pipe_term_ack"})
                      /\ Append(toR[p], "pipe_term") \in Seq({"pipe_term", "pipe_term_ack"})
                      /\ Append(toR[p], "pipe_term_ack") \in Seq({"pipe_term", "pipe_term_ack"})
  BY AppendProperties DEF Shapes
<1>3. toR' \in [Pipe -> Seq({"pipe_term", "pipe_term_ack"})]
  BY <1>2 DEF Terminate
<1> QED
  BY <1>1, <1>3 DEF Shapes, PipeShapes, Terminate

LEMMA AddEndpointShapes ==
  ASSUME Shapes, NEW e \in Endpoint, NEW c \in Child, NEW k \in {"listener", "eager", "lazy"},
         NEW p \in Pipe \cup {None}, AddEndpoint(e, c, k, p)
  PROVE  /\ mailbox' \in Seq(Msg)
         /\ endpoints' \subseteq Entry
         /\ OptShapes'
         /\ state' \in [Child -> {"none", "running", "asking", "told", "ending", "acked", "gone"}]
         /\ kind' \in [Child -> {"none", "listener", "eager", "lazy"}]
         /\ UNCHANGED <<terminating, destroyed, termAcks, owned>>
<1>1. Command("own", c) \in Msg
  BY DEF Command, Msg
<1>2. mailbox' \in Seq(Msg)
  BY <1>1, Sent DEF Shapes, AddEndpoint
<1> QED
  BY <1>2 DEF Shapes, OptShapes, AddEndpoint, Entry

LEMMA TermChildrenShapes ==
  ASSUME Shapes, NEW C \in SUBSET Child, TermChildren(C)
  PROVE  /\ owned' \subseteq Child
         /\ state' \in [Child -> {"none", "running", "asking", "told", "ending", "acked", "gone"}]
         /\ OptShapes'
BY DEF Shapes, OptShapes, TermChildren, SendTerm, optVars

LEMMA ShapesCall ==
  ASSUME Shapes, CallStep
  PROVE  Shapes'
<1> USE DEF Shapes
<1> DEFINE CallTypes == [op : EndpointCall \cup OtherCall \cup {"none"}, of : Endpoint \cup {None},
                         ready : BOOLEAN]
<1>0. ASSUME call' \in CallTypes,
             UNCHANGED <<phase, mailbox, ctxVars, optVars, ownVars, tableVars, nameVars, childVars,
                         pipeVars>>
      PROVE  Shapes'
  BY <1>0 DEF ctxVars, optVars, ownVars, tableVars, nameVars, childVars, pipeVars
<1>1. ASSUME NEW op \in EndpointCall \cup OtherCall, NEW e \in Endpoint \cup {None}, Call(op, e)
      PROVE  Shapes'
  <2>1. PICK ready \in BOOLEAN : call' = [op |-> op, of |-> e, ready |-> ready]
    BY <1>1 DEF Call
  <2> QED
    BY <1>0, <1>1, <2>1 DEF Call
<1>2. CASE Drained
  <2>1. Idle \in CallTypes /\ [call EXCEPT !.ready = TRUE] \in CallTypes
    BY DEF Idle
  <2> QED
    BY <1>0, <1>2, <2>1 DEF Drained
<1>3. CASE Refuse \/ TryAgain \/ Done \/ SetImmediate \/ SetLinger \/ Close
  <2>1. Idle \in CallTypes /\ [call EXCEPT !.ready = FALSE] \in CallTypes
    BY DEF Idle
  <2>2. CASE Refuse \/ TryAgain
    BY <1>0, <2>1, <2>2 DEF Refuse, TryAgain, Return
  <2>3. CASE SetImmediate \/ SetLinger
    BY <2>3 DEF SetImmediate, SetLinger, appVars, ctxVars, optVars, ownVars, tableVars, nameVars, childVars, pipeVars
  <2>4. CASE Close
    BY <2>4 DEF Close, ctxVars, optVars, ownVars, tableVars, nameVars, childVars, pipeVars
  <2>5. CASE Done
    BY <2>1, <2>5 DEF Done, Return, ctxVars, ownVars, tableVars, nameVars, childVars, pipeVars
  <2> QED
    BY <1>3, <2>2, <2>3, <2>4, <2>5
<1>4. ASSUME NEW e \in Endpoint, BindListener(e) PROVE Shapes'
  <2>1. PICK c \in Child : AddEndpoint(e, c, "listener", None)
    BY <1>4 DEF BindListener
  <2> QED
    BY <1>4, <2>1, AddEndpointShapes
    DEF BindListener, Return, Idle, OptShapes, ctxVars, ownVars, nameVars, pipeVars
<1>5. ASSUME NEW e \in Endpoint, BindInproc(e) PROVE Shapes'
  <2>1. PipeShapes' /\ pipes' \subseteq Pipe
    BY <1>5 DEF BindInproc, PipeShapes, EndState
  <2> QED
    BY <1>5, <2>1 DEF BindInproc, Return, Idle, ctxVars, optVars, ownVars, childVars, PipeShapes
<1>6. ASSUME NEW e \in Endpoint, ConnectInproc(e) PROVE Shapes'
  <2>1. PICK p \in Pipe : /\ NewPipe(p, "inproc") \/ NewPipe(p, "pending")
                          /\ pipes' = pipes \cup {p} /\ inprocs' = inprocs \cup {<<e, p>>}
    BY <1>6 DEF ConnectInproc
  <2>2. PipeShapes'
    BY <2>1, NewPipeShapes
  <2> QED
    BY <1>6, <2>1, <2>2 DEF ConnectInproc, Return, Idle, ctxVars, optVars, ownVars, nameVars, childVars, PipeShapes
<1>7. ASSUME NEW e \in Endpoint, ConnectAgain(e) PROVE Shapes'
  BY <1>7 DEF ConnectAgain, Return, Idle, ctxVars, optVars, ownVars, tableVars, nameVars, childVars, pipeVars
<1>8. ASSUME NEW e \in Endpoint, ConnectSession(e) PROVE Shapes'
  <2>1. PICK c \in Child :
          \/ AddEndpoint(e, c, "lazy", None) /\ UNCHANGED <<pipes, pipeVars>>
          \/ \E p \in Pipe : AddEndpoint(e, c, "eager", p) /\ NewPipe(p, c) /\ pipes' = pipes \cup {p}
    BY <1>8 DEF ConnectSession
  <2>2. CASE AddEndpoint(e, c, "lazy", None) /\ UNCHANGED <<pipes, pipeVars>>
    BY <1>8, <2>2, AddEndpointShapes DEF ConnectSession, Return, Idle, OptShapes, ctxVars, nameVars, pipeVars
  <2>3. ASSUME NEW p \in Pipe, AddEndpoint(e, c, "eager", p), NewPipe(p, c), pipes' = pipes \cup {p}
        PROVE  Shapes'
    <3>1. PipeShapes'
      BY <2>3, NewPipeShapes
    <3> QED
      BY <1>8, <2>3, <3>1, AddEndpointShapes
      DEF ConnectSession, Return, Idle, OptShapes, ctxVars, nameVars, PipeShapes
  <2> QED
    BY <2>1, <2>2, <2>3
<1>9. ASSUME NEW e \in Endpoint, DisconnectInproc(e) PROVE Shapes'
  <2>1. PipeShapes'
    BY <1>9, TerminateShapes DEF DisconnectInproc, PipeShapes, pipeVars
  <2>2. inprocs' \subseteq Endpoint \X Pipe /\ registered' \subseteq Endpoint
    BY <1>9 DEF DisconnectInproc
  <2> QED
    BY <1>9, <2>1, <2>2 DEF DisconnectInproc, Return, Idle, ctxVars, optVars, ownVars, childVars, PipeShapes
<1>10. ASSUME NEW e \in Endpoint, Disconnect(e) PROVE Shapes'
  <2> DEFINE mine == {x \in endpoints : x.endpoint = e}
  <2>1. PipeShapes'
    BY <1>10, TerminateShapes DEF Disconnect
  <2>2. {x.child : x \in mine} \subseteq Child
    BY DEF Entry
  <2>3. /\ owned' \subseteq Child
        /\ state' \in [Child -> {"none", "running", "asking", "told", "ending", "acked", "gone"}]
        /\ OptShapes'
    BY <1>10, <2>2, TermChildrenShapes DEF Disconnect
  <2> QED
    BY <1>10, <2>1, <2>3 DEF Disconnect, Return, Idle, OptShapes, ctxVars, nameVars, PipeShapes
<1>11. ASSUME NEW p \in Pipe, ReadDelimiter(p) PROVE Shapes'
  <2>1. Append(toR[p], "pipe_term_ack") \in Seq({"pipe_term", "pipe_term_ack"})
    BY AppendProperties
  <2> QED
    BY <1>11, <2>1 DEF ReadDelimiter, EndState, appVars, ctxVars, optVars, ownVars, tableVars, nameVars, childVars
<1> QED
  BY <1>1, <1>2, <1>3, <1>4, <1>5, <1>6, <1>7, <1>8, <1>9, <1>10, <1>11 DEF CallStep

LEMMA ShapesReaper ==
  ASSUME Shapes, StartReaping \/ CheckDestroy
  PROVE  Shapes'
<1> USE DEF Shapes
<1>1. CASE StartReaping
  <2>1. PipeShapes'
    BY <1>1, TerminateShapes DEF StartReaping
  <2>2. state' \in [Child -> {"none", "running", "asking", "told", "ending", "acked", "gone"}]
    BY <1>1 DEF StartReaping
  <2> QED
    BY <1>1, <2>1, <2>2 DEF StartReaping, SendTerm, CheckTermAcks, ctxVars, tableVars, PipeShapes
<1>2. CASE CheckDestroy
  BY <1>2 DEF CheckDestroy, ctxVars, optVars, ownVars, tableVars, nameVars, childVars, pipeVars
<1> QED
  BY <1>1, <1>2

LEMMA ShapesCommand ==
  ASSUME Shapes, CommandStep
  PROVE  Shapes'
<1> USE DEF Shapes
<1>1. ASSUME NEW c \in Child, ProcessOwn(c) PROVE Shapes'
  <2>1. mailbox' \in Seq(Msg)
    BY <1>1, Taken DEF ProcessOwn
  <2>2. owned' \subseteq Child /\ state' \in [Child -> {"none", "running", "asking", "told", "ending", "acked", "gone"}]
    BY <1>1 DEF ProcessOwn
  <2> QED
    BY <1>1, <2>1, <2>2 DEF ProcessOwn, CheckTermAcks, appVars, ctxVars, optVars, tableVars, nameVars, pipeVars
<1>2. ASSUME NEW c \in Child, ProcessTermReq(c) PROVE Shapes'
  <2>1. mailbox' \in Seq(Msg)
    BY <1>2, Taken DEF ProcessTermReq
  <2>2. owned' \subseteq Child /\ state' \in [Child -> {"none", "running", "asking", "told", "ending", "acked", "gone"}] /\ OptShapes'
    BY <1>2, TermChildrenShapes DEF ProcessTermReq
  <2> QED
    BY <1>2, <2>1, <2>2 DEF ProcessTermReq, OptShapes, appVars, ctxVars, tableVars, nameVars, pipeVars
<1>3. ASSUME NEW c \in Child, ProcessTermAck(c) PROVE Shapes'
  <2>1. mailbox' \in Seq(Msg)
    BY <1>3, Taken DEF ProcessTermAck
  <2> QED
    BY <1>3, <2>1 DEF ProcessTermAck, CheckTermAcks, appVars, ctxVars, optVars, tableVars, nameVars, pipeVars
<1>4. ASSUME NEW p \in Pipe, ProcessBind(p) PROVE Shapes'
  <2>1. mailbox' \in Seq(Msg)
    BY <1>4, Taken DEF ProcessBind
  <2>2. PipeShapes'
    BY <1>4, TerminateShapes DEF ProcessBind, PipeShapes, pipeVars
  <2> QED
    BY <1>4, <2>1, <2>2
    DEF ProcessBind, CheckTermAcks, appVars, ctxVars, optVars, nameVars, childVars, PipeShapes
<1>5. ASSUME NEW p \in Pipe, ProcessPipeTerm(p) PROVE Shapes'
  <2>1. mailbox' \in Seq(Msg)
    BY <1>5, Taken DEF ProcessPipeTerm
  <2>2. Append(toR[p], "pipe_term_ack") \in Seq({"pipe_term", "pipe_term_ack"})
    BY AppendProperties
  <2>3. l' \in [Pipe -> EndState] /\ toR' \in [Pipe -> Seq({"pipe_term", "pipe_term_ack"})]
    BY <1>5, <2>2 DEF ProcessPipeTerm, EndState
  <2> QED
    BY <1>5, <2>1, <2>3
    DEF ProcessPipeTerm, appVars, ctxVars, optVars, ownVars, tableVars, nameVars, childVars
<1>6. ASSUME NEW p \in Pipe, ProcessPipeTermAck(p) PROVE Shapes'
  <2>1. mailbox' \in Seq(Msg)
    BY <1>6, Taken DEF ProcessPipeTermAck
  <2>2. Append(toR[p], "pipe_term_ack") \in Seq({"pipe_term", "pipe_term_ack"})
    BY AppendProperties
  <2>3. l' \in [Pipe -> EndState] /\ toR' \in [Pipe -> Seq({"pipe_term", "pipe_term_ack"})]
    BY <1>6, <2>2 DEF ProcessPipeTermAck, EndState
  <2> QED
    BY <1>6, <2>1, <2>3 DEF ProcessPipeTermAck, CheckTermAcks, appVars, ctxVars, optVars, nameVars, childVars
<1>7. ASSUME NEW p \in Pipe, ProcessHiccup(p) PROVE Shapes'
  <2>1. mailbox' \in Seq(Msg)
    BY <1>7, Taken DEF ProcessHiccup
  <2>2. PipeShapes'
    <3>1. CASE l[p] \in {"free", "acked", "req2"}
      BY <1>7, <3>1 DEF ProcessHiccup, PipeShapes, EndState
    <3>2. CASE l[p] \notin {"free", "acked", "req2"}
      BY <1>7, <3>2, TerminateShapes DEF ProcessHiccup, PipeShapes, pipeVars
    <3> QED
      BY <3>1, <3>2
  <2> QED
    BY <1>7, <2>1, <2>2
    DEF ProcessHiccup, appVars, ctxVars, optVars, ownVars, tableVars, nameVars, childVars, PipeShapes
<1>8. CASE ProcessStop
  <2>1. mailbox' \in Seq(Msg)
    BY <1>8, Taken DEF ProcessStop
  <2> QED
    BY <1>8, <2>1 DEF ProcessStop, appVars, optVars, ownVars, tableVars, nameVars, childVars, pipeVars
<1> QED
  BY <1>1, <1>2, <1>3, <1>4, <1>5, <1>6, <1>7, <1>8 DEF CommandStep

LEMMA ShapesOther ==
  ASSUME Shapes, OtherStep
  PROVE  Shapes'
<1> USE DEF Shapes
<1>0. \A c \in Child, p \in Pipe :
        /\ Command("term_req", c) \in Msg /\ Command("term_ack", c) \in Msg
        /\ Command("bind", p) \in Msg /\ Command("hiccup", p) \in Msg
        /\ Command("pipe_term", p) \in Msg /\ Command("pipe_term_ack", p) \in Msg
        /\ Command("stop", None) \in Msg
  BY DEF Command, Msg
<1>1. ASSUME NEW c \in Child, ProtocolError(c) PROVE Shapes'
  <2>1. mailbox' \in Seq(Msg)
    BY <1>0, <1>1, Sent DEF ProtocolError, Command, Msg
  <2> QED
    BY <1>1, <2>1 DEF ProtocolError, appVars, ctxVars, optVars, ownVars, tableVars, nameVars, pipeVars
<1>2. ASSUME NEW c \in Child, HandleTerm(c) PROVE Shapes'
  BY <1>2 DEF HandleTerm, appVars, ctxVars, optVars, ownVars, tableVars, nameVars, pipeVars
<1>3. ASSUME NEW c \in Child, Finish(c) PROVE Shapes'
  <2>1. mailbox' \in Seq(Msg)
    BY <1>3, Sent DEF Finish, Command, Msg
  <2> QED
    BY <1>3, <2>1 DEF Finish, appVars, ctxVars, optVars, ownVars, tableVars, nameVars, pipeVars
<1>4. ASSUME NEW c \in Child, NEW p \in Pipe, Attach(c, p) PROVE Shapes'
  <2>1. mailbox' \in Seq(Msg) /\ PipeShapes'
    BY <1>0, <1>4, Sent, NewPipeShapes DEF Attach
  <2> QED
    BY <1>4, <2>1 DEF Attach, appVars, ctxVars, optVars, tableVars, nameVars, childVars, PipeShapes
<1>5. ASSUME NEW p \in Pipe, Hiccup(p) PROVE Shapes'
  <2>1. mailbox' \in Seq(Msg)
    BY <1>5, Sent DEF Hiccup, Command, Msg
  <2> QED
    BY <1>5, <2>1 DEF Hiccup, appVars, ctxVars, optVars, ownVars, tableVars, nameVars, childVars, pipeVars
<1>6. ASSUME NEW p \in Pipe, TerminateOther(p) PROVE Shapes'
  <2>1. Command("hiccup", p) \in Msg /\ Command("pipe_term", p) \in Msg
    BY DEF Command, Msg
  <2>2. mailbox' \in Seq(Msg)
    BY <1>6, <2>1 DEF TerminateOther
  <2> QED
    BY <1>6, <2>2 DEF TerminateOther, EndState, appVars, ctxVars, optVars, ownVars, tableVars, nameVars, childVars
<1>7. ASSUME NEW p \in Pipe, Delivered(p) PROVE Shapes'
  <2>1. mailbox' \in Seq(Msg)
    BY <1>7, Sent DEF Delivered, Command, Msg
  <2> QED
    BY <1>7, <2>1 DEF Delivered, EndState, appVars, ctxVars, optVars, ownVars, tableVars, nameVars, childVars
<1>8. ASSUME NEW p \in Pipe, OtherEnd(p) PROVE Shapes'
  <2>1. Command("pipe_term_ack", p) \in Msg
    BY DEF Command, Msg
  <2>2. mailbox' \in Seq(Msg)
    <3>1. mailbox' \in {mailbox, Append(mailbox, Command("pipe_term_ack", p))}
      BY <1>8 DEF OtherEnd
    <3> QED
      BY <2>1, <3>1, Sent
  <2>3. Tail(toR[p]) \in Seq({"pipe_term", "pipe_term_ack"})
    BY <1>8, HeadTailProperties DEF OtherEnd
  <2>4. r' \in [Pipe -> EndState] /\ owner' \in [Pipe -> Child \cup {None, "inproc", "pending"}]
    <3>1. CASE Head(toR[p]) = "pipe_term"
      <4>1. PICK next \in {"waiting", "acked", "req2"} : r' = [r EXCEPT ![p] = next]
        BY <1>8, <3>1 DEF OtherEnd
      <4> QED
        BY <1>8, <3>1, <4>1 DEF OtherEnd, EndState
    <3>2. CASE Head(toR[p]) # "pipe_term"
      BY <1>8, <3>2 DEF OtherEnd, EndState
    <3> QED
      BY <3>1, <3>2
  <2> QED
    BY <1>8, <2>2, <2>3, <2>4
    DEF OtherEnd, appVars, ctxVars, ownVars, tableVars, nameVars, childVars
<1>9. CASE Find
  BY <1>9 DEF Find, appVars, ctxVars, optVars, tableVars, childVars, pipeVars
<1>10. ASSUME NEW p \in Pipe, SendBind(p) PROVE Shapes'
  <2>1. Command("bind", p) \in Msg
    BY DEF Command, Msg
  <2>2. mailbox' \in Seq(Msg) /\ PipeShapes'
    BY <1>10, <2>1, Sent, NewPipeShapes DEF SendBind
  <2> QED
    BY <1>10, <2>2 DEF SendBind, appVars, ctxVars, optVars, ownVars, tableVars, childVars, PipeShapes
<1>11. ASSUME NEW p \in Pipe, Adopt(p) PROVE Shapes'
  BY <1>11 DEF Adopt, appVars, ctxVars, optVars, ownVars, tableVars, nameVars, childVars
<1>12. CASE CtxTerm
  <2>1. mailbox' \in Seq(Msg)
    BY <1>12, Sent DEF CtxTerm, Command, Msg
  <2> QED
    BY <1>12, <2>1 DEF CtxTerm, appVars, optVars, ownVars, tableVars, nameVars, childVars, pipeVars
<1>13. ASSUME NEW p \in Pipe, Lose(p) PROVE Shapes'
  BY <1>13 DEF Lose, appVars, ctxVars, ownVars, tableVars, nameVars, childVars, pipeVars
<1> QED
  BY <1>1, <1>2, <1>3, <1>4, <1>5, <1>6, <1>7, <1>8, <1>9, <1>10, <1>11, <1>12, <1>13 DEF OtherStep

LEMMA ShapesStep == Shapes /\ [Next]_vars => Shapes'
<1> SUFFICES ASSUME Shapes, [Next]_vars PROVE Shapes'
  OBVIOUS
<1>1. CASE Freed \/ UNCHANGED vars
  BY <1>1 DEF Freed, vars, Shapes, appVars, ctxVars, optVars, ownVars, tableVars, nameVars, childVars, pipeVars
<1> QED
  BY <1>1, ShapesCall, ShapesReaper, ShapesCommand, ShapesOther DEF Next

LEMMA ShapesInit == Init => Shapes
<1> SUFFICES ASSUME Init PROVE Shapes
  OBVIOUS
<1>1. mailbox \in Seq(Msg) /\ \A p \in Pipe : toR[p] \in Seq({"pipe_term", "pipe_term_ack"})
  BY EmptySeq DEF Init
<1> QED
  BY <1>1 DEF Init, Shapes, Idle, EndState

-----------------------------------------------------------------------------
(***************************************************************************)
(* The order of commands in the mailbox.                                   *)
(***************************************************************************)

\* Of the commands in X that m holds, first comes before the others, last after them, and
\* each of first, last and once is there once.
Ordered(m, X, first, last, once) ==
  \A i, j \in 1 .. Len(m) :
    i < j /\ m[i] \in X /\ m[j] \in X =>
      m[j] # first /\ m[i] # last /\ ~(m[i] = once /\ m[j] = once)

LEMMA InAppend ==
  ASSUME NEW m \in Seq(Msg), NEW y \in Msg, NEW x
  PROVE  In(Append(m, y), x) <=> In(m, x) \/ x = y
<1>1. /\ Len(Append(m, y)) = Len(m) + 1 /\ Len(m) \in Nat
      /\ \A i \in 1 .. Len(m) : Append(m, y)[i] = m[i]
      /\ Append(m, y)[Len(m) + 1] = y
  BY AppendProperties
<1>2. In(m, x) => In(Append(m, y), x)
  BY <1>1 DEF In
<1>3. x = y => In(Append(m, y), x)
  BY <1>1 DEF In
<1>4. In(Append(m, y), x) => In(m, x) \/ x = y
  BY <1>1 DEF In
<1> QED
  BY <1>2, <1>3, <1>4

LEMMA InTail ==
  ASSUME NEW m \in Seq(Msg), m # <<>>, NEW x
  PROVE  In(m, x) <=> x = Head(m) \/ In(Tail(m), x)
<1>1. /\ Len(Tail(m)) = Len(m) - 1 /\ Len(m) \in Nat /\ Len(m) > 0 /\ Head(m) = m[1]
      /\ \A i \in 1 .. Len(Tail(m)) : Tail(m)[i] = m[i + 1]
  BY HeadTailProperties, EmptySeq, LenProperties
<1>2. x = Head(m) => In(m, x)
  BY <1>1 DEF In
<1>3. In(Tail(m), x) => In(m, x)
  BY <1>1 DEF In
<1>4. ASSUME In(m, x), x # Head(m) PROVE In(Tail(m), x)
  <2>1. PICK i \in 1 .. Len(m) : m[i] = x
    BY <1>4 DEF In
  <2>2. i - 1 \in 1 .. Len(Tail(m)) /\ Tail(m)[i - 1] = x
    BY <1>1, <1>4, <2>1
  <2> QED
    BY <2>2 DEF In
<1> QED
  BY <1>2, <1>3, <1>4

LEMMA OrderedAppend ==
  ASSUME NEW m \in Seq(Msg), NEW y \in Msg, NEW X, NEW first, NEW last, NEW once,
         Ordered(m, X, first, last, once),
         y \in X => /\ y # first \/ \A x \in X : ~In(m, x)
                    /\ ~In(m, last)
                    /\ y = once => ~In(m, once)
  PROVE  Ordered(Append(m, y), X, first, last, once)
<1>1. /\ Len(Append(m, y)) = Len(m) + 1 /\ Len(m) \in Nat
      /\ \A i \in 1 .. Len(m) : Append(m, y)[i] = m[i]
      /\ Append(m, y)[Len(m) + 1] = y
  BY AppendProperties
<1> SUFFICES ASSUME NEW i \in 1 .. Len(m) + 1, NEW j \in 1 .. Len(m) + 1, i < j,
                    Append(m, y)[i] \in X, Append(m, y)[j] \in X
             PROVE  /\ Append(m, y)[j] # first /\ Append(m, y)[i] # last
                    /\ ~(Append(m, y)[i] = once /\ Append(m, y)[j] = once)
  BY <1>1 DEF Ordered
<1>2. CASE j \in 1 .. Len(m)
  BY <1>1, <1>2 DEF Ordered
<1>3. CASE j = Len(m) + 1
  <2>1. i \in 1 .. Len(m) /\ Append(m, y)[i] = m[i] /\ Append(m, y)[j] = y /\ y \in X /\ m[i] \in X
    BY <1>1, <1>3
  <2>2. In(m, m[i])
    BY <2>1 DEF In
  <2> QED
    BY <2>1, <2>2
<1> QED
  BY <1>1, <1>2, <1>3

LEMMA OrderedTail ==
  ASSUME NEW m \in Seq(Msg), m # <<>>, NEW X, NEW first, NEW last, NEW once,
         Ordered(m, X, first, last, once)
  PROVE  /\ Ordered(Tail(m), X, first, last, once)
         /\ Head(m) \in X /\ first \in X => ~In(Tail(m), first)
         /\ Head(m) \in X /\ Head(m) = last => \A x \in X : ~In(Tail(m), x)
         /\ Head(m) \in X /\ Head(m) = once => ~In(Tail(m), once)
<1>1. /\ Len(Tail(m)) = Len(m) - 1 /\ Len(m) \in Nat /\ Len(m) > 0 /\ Head(m) = m[1]
      /\ \A i \in 1 .. Len(Tail(m)) : Tail(m)[i] = m[i + 1]
  BY HeadTailProperties, EmptySeq, LenProperties
<1>2. Ordered(Tail(m), X, first, last, once)
  <2> SUFFICES ASSUME NEW i \in 1 .. Len(Tail(m)), NEW j \in 1 .. Len(Tail(m)), i < j,
                      Tail(m)[i] \in X, Tail(m)[j] \in X
               PROVE  /\ Tail(m)[j] # first /\ Tail(m)[i] # last
                      /\ ~(Tail(m)[i] = once /\ Tail(m)[j] = once)
    BY DEF Ordered
  <2>1. /\ i + 1 \in 1 .. Len(m) /\ j + 1 \in 1 .. Len(m) /\ i + 1 < j + 1
        /\ Tail(m)[i] = m[i + 1] /\ Tail(m)[j] = m[j + 1]
    BY <1>1
  <2> QED
    BY <2>1 DEF Ordered
<1>3. ASSUME Head(m) \in X, NEW x \in X, In(Tail(m), x)
      PROVE  x # first /\ Head(m) # last /\ ~(Head(m) = once /\ x = once)
  <2>1. PICK i \in 1 .. Len(Tail(m)) : Tail(m)[i] = x
    BY <1>3 DEF In
  <2>2. 1 \in 1 .. Len(m) /\ i + 1 \in 1 .. Len(m) /\ 1 < i + 1 /\ m[1] = Head(m) /\ m[i + 1] = x
    BY <1>1, <2>1
  <2> QED
    BY <1>3, <2>2 DEF Ordered
<1> QED
  BY <1>2, <1>3

-----------------------------------------------------------------------------
(***************************************************************************)
(* Nobody is forgotten: a child that nobody told to go is in the table     *)
(* because a disconnect that takes it off finds it owned, and that is so   *)
(* because the mailbox, which may still hold the own command, was emptied. *)
(***************************************************************************)

Own(m, c) == In(m, Command("own", c))
OwnKept   == \A c \in Child : Own(mailbox', c) <=> Own(mailbox, c)

Tracked ==
  /\ terminating <=> phase \in {"reaping", "freed"}
  /\ \A c \in Child : state[c] \in {"running", "asking"} => c \in owned \/ Own(mailbox, c)
  /\ phase = "open" /\ call.ready /\ call.op \in EndpointCall => \A c \in Child : ~Own(mailbox, c)
  /\ NoneForgotten

\* Any other command that is put in the mailbox.
LEMMA OwnAppend ==
  ASSUME NEW m \in Seq(Msg), NEW y \in Msg, y.cmd # "own"
  PROVE  \A c \in Child : Own(Append(m, y), c) <=> Own(m, c)
BY InAppend DEF Own, Command

\* Any other command that is taken from it.
LEMMA OwnTaken ==
  ASSUME mailbox \in Seq(Msg), NEW cmd, NEW x, Receive(cmd, x), cmd # "own"
  PROVE  OwnKept
<1>1. mailbox # <<>> /\ Head(mailbox) = Command(cmd, x) /\ mailbox' = Tail(mailbox)
  BY DEF Receive
<1>2. \A c \in Child : Command("own", c) # Head(mailbox)
  BY <1>1 DEF Command
<1> QED
  BY <1>1, <1>2, InTail DEF Own, OwnKept

\* What the other variables of Tracked do in most steps.
Still ==
  /\ phase' = phase /\ terminating' = terminating /\ owned' = owned /\ endpoints' = endpoints
  /\ state' = state

LEMMA TrackedKept ==
  ASSUME Tracked, Still, OwnKept, call' = call
  PROVE  Tracked'
BY DEF Tracked, NoneForgotten, OwnKept, Still

\* Steps that move the call on.
LEMMA TrackedCall ==
  ASSUME Tracked, Still, mailbox' = mailbox,
         call'.ready /\ call'.op \in EndpointCall => mailbox = <<>>
  PROVE  Tracked'
<1>1. mailbox = <<>> => \A c \in Child : ~Own(mailbox, c)
  BY DEF Own, In
<1> QED
  BY <1>1 DEF Tracked, NoneForgotten, Still

LEMMA AddEndpointTracked ==
  ASSUME Shapes, Tracked, phase = "open", Return, NEW e \in Endpoint, NEW c \in Child, NEW k,
         NEW p \in Pipe \cup {None}, AddEndpoint(e, c, k, p)
  PROVE  Tracked'
<1>1. Command("own", c) \in Msg /\ mailbox \in Seq(Msg)
  BY DEF Command, Msg, Shapes
<1>2. \A d \in Child : Own(mailbox', d) <=> Own(mailbox, d) \/ d = c
  BY <1>1, InAppend DEF AddEndpoint, Own, Command
<1>3. /\ UNCHANGED <<phase, terminating, owned>> /\ call' = Idle
      /\ [endpoint |-> e, child |-> c, pipe |-> p] \in endpoints' /\ endpoints \subseteq endpoints'
      /\ \A d \in Child : d # c => state'[d] = state[d]
  BY DEF AddEndpoint, Return, Shapes
<1>4. \A d \in Child : state'[d] = "running" => \E x \in endpoints' : x.child = d
  BY <1>3 DEF Tracked, NoneForgotten
<1> QED
  BY <1>2, <1>3, <1>4 DEF Tracked, NoneForgotten, Idle

LEMMA TrackedCallStep ==
  ASSUME Shapes, Tracked, CallStep
  PROVE  Tracked'
<1> USE DEF Still, ownVars, tableVars, childVars
<1>1. ASSUME NEW op \in EndpointCall \cup OtherCall, NEW e \in Endpoint \cup {None}, Call(op, e)
      PROVE  Tracked'
  <2>1. Still /\ mailbox' = mailbox
    BY <1>1 DEF Call
  <2>2. call'.ready => call'.op \notin EndpointCall
    BY <1>1 DEF Call, EndpointCall
  <2> QED
    BY <2>1, <2>2, TrackedCall
<1>2. CASE Drained
  <2>1. Still /\ mailbox' = mailbox /\ mailbox = <<>>
    BY <1>2 DEF Drained
  <2> QED
    BY <2>1, TrackedCall
<1>3. CASE Refuse \/ TryAgain \/ Done \/ SetImmediate \/ SetLinger \/ Close
  <2>1. CASE Refuse \/ Done \/ TryAgain
    <3>1. Still /\ mailbox' = mailbox
      BY <2>1 DEF Refuse, Done, TryAgain, Return
    <3>2. ~call'.ready
      BY <2>1 DEF Refuse, Done, TryAgain, Return, Idle, Shapes
    <3> QED
      BY <3>1, <3>2, TrackedCall
  <2>2. CASE SetImmediate \/ SetLinger
    <3>1. Still /\ OwnKept /\ call' = call
      BY <2>2 DEF SetImmediate, SetLinger, OwnKept, appVars
    <3> QED
      BY <3>1, TrackedKept
  <2>3. CASE Close
    BY <2>3 DEF Close, Tracked, NoneForgotten
  <2> QED
    BY <1>3, <2>1, <2>2, <2>3
<1>4. ASSUME NEW e \in Endpoint, BindListener(e) PROVE Tracked'
  BY <1>4, AddEndpointTracked DEF BindListener, Ready
<1>5. ASSUME NEW e \in Endpoint, BindInproc(e) \/ ConnectInproc(e) \/ ConnectAgain(e) \/ DisconnectInproc(e)
      PROVE  Tracked'
  <2>1. Still /\ mailbox' = mailbox
    BY <1>5 DEF BindInproc, ConnectInproc, ConnectAgain, DisconnectInproc, Return
  <2>2. call' = Idle
    BY <1>5 DEF BindInproc, ConnectInproc, ConnectAgain, DisconnectInproc, Return
  <2>3. ~call'.ready
    BY <2>2 DEF Idle
  <2> QED
    BY <2>1, <2>3, TrackedCall
<1>6. ASSUME NEW e \in Endpoint, ConnectSession(e) PROVE Tracked'
  BY <1>6, AddEndpointTracked DEF ConnectSession, Ready
<1>7. ASSUME NEW e \in Endpoint, Disconnect(e) PROVE Tracked'
  <2> DEFINE mine == {x \in endpoints : x.endpoint = e}
             gone == {x.child : x \in mine}
  <2>1. phase = "open" /\ \A c \in Child : ~Own(mailbox, c)
    BY <1>7 DEF Disconnect, Ready, Tracked, EndpointCall
  <2>2. /\ owned' = owned \ (gone \cap owned)
        /\ state' = [c \in Child |-> IF c \in gone \cap owned THEN "told" ELSE state[c]]
        /\ endpoints' = endpoints \ mine
        /\ UNCHANGED <<mailbox, phase, terminating>> /\ call' = Idle
    BY <1>7, <2>1 DEF Disconnect, TermChildren, Tracked, Return
  <2>3. ASSUME NEW c \in Child, state'[c] \in {"running", "asking"}
        PROVE  c \in owned' /\ (state'[c] = "running" => \E x \in endpoints' : x.child = c)
    <3>1. c \notin gone \cap owned /\ state[c] = state'[c]
      BY <2>2, <2>3
    <3>2. c \in owned /\ c \notin gone
      BY <2>1, <2>3, <3>1 DEF Tracked
    <3> HIDE DEF gone
    <3>3. c \in owned'
      BY <2>2, <3>2
    <3>4. ASSUME state'[c] = "running" PROVE \E x \in endpoints' : x.child = c
      <4>1. PICK x \in endpoints : x.child = c
        BY <3>1, <3>4 DEF Tracked, NoneForgotten
      <4>2. x \notin mine
        BY <3>2, <4>1 DEF gone
      <4> QED
        BY <2>2, <4>1, <4>2
    <3> QED
      BY <3>3, <3>4
  <2> QED
    BY <2>1, <2>2, <2>3 DEF Tracked, NoneForgotten, Idle
<1>8. ASSUME NEW p \in Pipe, ReadDelimiter(p) PROVE Tracked'
  <2>1. Still /\ OwnKept /\ call' = call
    BY <1>8 DEF ReadDelimiter, OwnKept, appVars
  <2> QED
    BY <2>1, TrackedKept
<1> QED
  BY <1>1, <1>2, <1>3, <1>4, <1>5, <1>6, <1>7, <1>8 DEF CallStep

LEMMA TrackedCommandStep ==
  ASSUME Shapes, Tracked, CommandStep
  PROVE  Tracked'
<1>0. mailbox \in Seq(Msg)
  BY DEF Shapes
<1>1. ASSUME NEW c \in Child, ProcessOwn(c) PROVE Tracked'
  <2>1. mailbox # <<>> /\ Head(mailbox) = Command("own", c) /\ mailbox' = Tail(mailbox) /\ Processing
    BY <1>1 DEF ProcessOwn, Receive
  <2>2. \A d \in Child : Own(mailbox, d) => Own(mailbox', d) \/ d = c
    BY <1>0, <2>1, InTail DEF Own, Command
  <2>3. ~(phase = "open" /\ call.ready)
    BY <2>1 DEF Processing
  <2>4. UNCHANGED <<phase, call, terminating, endpoints>>
    BY <1>1 DEF ProcessOwn, appVars, tableVars
  <2>5. CASE terminating
    BY <1>1, <2>2, <2>3, <2>4, <2>5 DEF ProcessOwn, Tracked, NoneForgotten, Shapes
  <2>6. CASE ~terminating
    BY <1>1, <2>2, <2>3, <2>4, <2>6 DEF ProcessOwn, Tracked, NoneForgotten, Shapes
  <2> QED
    BY <2>5, <2>6
<1>2. ASSUME NEW c \in Child, ProcessTermReq(c) PROVE Tracked'
  <2>1. OwnKept
    BY <1>0, <1>2, OwnTaken DEF ProcessTermReq
  <2> QED
    BY <1>2, <2>1 DEF OwnKept, ProcessTermReq, TermChildren, Tracked, NoneForgotten, appVars, tableVars
<1>3. ASSUME NEW c \in Child, ProcessTermAck(c) PROVE Tracked'
  <2>1. OwnKept
    BY <1>0, <1>3, OwnTaken DEF ProcessTermAck
  <2> QED
    BY <1>3, <2>1 DEF OwnKept, ProcessTermAck, Tracked, NoneForgotten, Shapes, appVars, tableVars
<1>4. ASSUME NEW p \in Pipe,
             ProcessBind(p) \/ ProcessPipeTerm(p) \/ ProcessPipeTermAck(p) \/ ProcessHiccup(p)
      PROVE  Tracked'
  <2>1. OwnKept
    BY <1>0, <1>4, OwnTaken DEF ProcessBind, ProcessPipeTerm, ProcessPipeTermAck, ProcessHiccup
  <2>2. Still /\ call' = call
    BY <1>4
    DEF ProcessBind, ProcessPipeTerm, ProcessPipeTermAck, ProcessHiccup, Still, appVars, ownVars,
        tableVars, childVars
  <2> QED
    BY <2>1, <2>2, TrackedKept
<1>5. CASE ProcessStop
  <2>1. OwnKept
    BY <1>0, <1>5, OwnTaken DEF ProcessStop
  <2>2. Still /\ call' = call
    BY <1>5 DEF ProcessStop, Still, appVars, ownVars, tableVars, childVars
  <2> QED
    BY <2>1, <2>2, TrackedKept
<1> QED
  BY <1>1, <1>2, <1>3, <1>4, <1>5 DEF CommandStep

\* Commands that others put in the mailbox.
LEMMA OwnKeptByOthers ==
  ASSUME Shapes, OtherStep
  PROVE  OwnKept
<1>0. mailbox \in Seq(Msg)
  BY DEF Shapes
<1> DEFINE Others == {y \in Msg : y.cmd # "own"}
<1>1. \A y \in Others : mailbox' = Append(mailbox, y) => OwnKept
  BY <1>0, OwnAppend DEF OwnKept
<1>2. mailbox' = mailbox => OwnKept
  BY DEF OwnKept
<1>3. /\ \A c \in Child : Command("term_req", c) \in Others /\ Command("term_ack", c) \in Others
      /\ \A p \in Pipe : /\ Command("bind", p) \in Others /\ Command("hiccup", p) \in Others
                         /\ Command("pipe_term_ack", p) \in Others
      /\ Command("stop", None) \in Others
  BY DEF Command, Msg
<1> HIDE DEF Others
<1>4. ASSUME NEW c \in Child, ProtocolError(c) \/ HandleTerm(c) \/ Finish(c) PROVE OwnKept
  <2>1. \/ mailbox' \in {Append(mailbox, Command("term_req", c)), Append(mailbox, Command("term_ack", c))}
        \/ mailbox' = mailbox
    BY <1>4 DEF ProtocolError, HandleTerm, Finish
  <2> QED
    BY <1>1, <1>2, <1>3, <2>1
<1>5. ASSUME NEW p \in Pipe,
             Hiccup(p) \/ Delivered(p) \/ SendBind(p) \/ Adopt(p) \/ OtherEnd(p) \/ \E c \in Child : Attach(c, p)
      PROVE  OwnKept
  <2>1. \/ mailbox' \in {Append(mailbox, Command("hiccup", p)), Append(mailbox, Command("bind", p)),
                         Append(mailbox, Command("pipe_term_ack", p))}
        \/ mailbox' = mailbox
    BY <1>5 DEF Hiccup, Delivered, SendBind, Adopt, OtherEnd, Attach
  <2> QED
    BY <1>1, <1>2, <1>3, <2>1
<1>6. ASSUME NEW p \in Pipe, TerminateOther(p) PROVE OwnKept
  <2> DEFINE hic == Append(mailbox, Command("hiccup", p))
  <2>1. /\ Command("hiccup", p) \in Msg /\ Command("pipe_term", p) \in Msg
        /\ Command("hiccup", p).cmd # "own" /\ Command("pipe_term", p).cmd # "own"
    BY DEF Command, Msg
  <2>2. hic \in Seq(Msg) /\ \A c \in Child : Own(hic, c) <=> Own(mailbox, c)
    BY <1>0, <2>1, Sent, OwnAppend
  <2>3. mailbox' = Append(mailbox, Command("pipe_term", p)) \/ mailbox' = Append(hic, Command("pipe_term", p))
    <3>1. mailbox' \in {mailbox \o <<>> \o <<Command("pipe_term", p)>>,
                      mailbox \o <<Command("hiccup", p)>> \o <<Command("pipe_term", p)>>}
      BY <1>6 DEF TerminateOther
    <3> QED
      BY <1>0, <2>1, <2>2, <3>1, AppendIsConcat, ConcatEmptySeq
  <2>4. CASE mailbox' = Append(mailbox, Command("pipe_term", p))
    BY <1>0, <2>1, <2>4, OwnAppend DEF OwnKept
  <2>5. CASE mailbox' = Append(hic, Command("pipe_term", p))
    <3> HIDE DEF hic
    <3>1. \A c \in Child : Own(mailbox', c) <=> Own(hic, c)
      BY <2>1, <2>2, <2>5, OwnAppend
    <3> QED
      BY <2>2, <3>1 DEF OwnKept
  <2> QED
    BY <2>3, <2>4, <2>5
<1>7. CASE Find \/ CtxTerm \/ \E p \in Pipe : Lose(p)
  <2>1. mailbox' \in {mailbox, Append(mailbox, Command("stop", None))}
    BY <1>7 DEF Find, CtxTerm, Lose
  <2> QED
    BY <1>1, <1>2, <1>3, <2>1
<1> QED
  BY <1>4, <1>5, <1>6, <1>7 DEF OtherStep

LEMMA TrackedOtherStep ==
  ASSUME Shapes, Tracked, OtherStep
  PROVE  Tracked'
<1>1. OwnKept
  BY OwnKeptByOthers
<1>2. ASSUME NEW c \in Child, ProtocolError(c) \/ HandleTerm(c) \/ Finish(c) PROVE Tracked'
  <2>1. /\ UNCHANGED <<phase, call, terminating, owned, endpoints>>
        /\ \A d \in Child : state'[d] = state[d] \/ state'[d] \in {"ending", "acked"}
                            \/ (state[d] = "running" /\ state'[d] = "asking")
    BY <1>2
    DEF ProtocolError, HandleTerm, Finish, Shapes, appVars, ownVars, tableVars
  <2> QED
    BY <1>1, <2>1 DEF OwnKept, Tracked, NoneForgotten
<1>3. CASE UNCHANGED <<appVars, terminating, owned, tableVars, childVars>>
  <2>1. Still /\ call' = call
    BY <1>3 DEF Still, appVars, tableVars, childVars
  <2> QED
    BY <1>1, <2>1, TrackedKept
<1>4. ASSUME NEW p \in Pipe,
             \/ Hiccup(p) \/ TerminateOther(p) \/ Delivered(p) \/ OtherEnd(p) \/ SendBind(p)
             \/ Adopt(p) \/ \E c \in Child : Attach(c, p)
      PROVE  Tracked'
  BY <1>3, <1>4 DEF Hiccup, TerminateOther, Delivered, OtherEnd, SendBind, Adopt, Attach, ownVars
<1>5. CASE Find \/ CtxTerm \/ \E p \in Pipe : Lose(p)
  BY <1>3, <1>5 DEF Find, CtxTerm, Lose, ownVars
<1> QED
  BY <1>2, <1>4, <1>5 DEF OtherStep

LEMMA TrackedStep ==
  ASSUME Shapes, Tracked, [Next]_vars
  PROVE  Tracked'
<1>1. CASE StartReaping
  BY <1>1 DEF StartReaping, Tracked, NoneForgotten, Shapes, tableVars
<1>2. CASE CheckDestroy
  BY <1>2 DEF CheckDestroy, Tracked, NoneForgotten, ownVars, tableVars, childVars
<1>3. CASE Freed \/ UNCHANGED vars
  <2>1. Still /\ OwnKept /\ call' = call
    BY <1>3 DEF Freed, vars, Still, OwnKept, appVars, ownVars, tableVars, childVars
  <2> QED
    BY <2>1, TrackedKept
<1> QED
  BY <1>1, <1>2, <1>3, TrackedCallStep, TrackedCommandStep, TrackedOtherStep DEF Next

\* The sets the variables range over, but for the two counters.
THEOREM SetsCorrect == Spec => []Shapes
BY ShapesInit, ShapesStep, PTL DEF Spec

\* A session or listener that nobody has asked to go is in the table of endpoints,
\* so that it can still be disconnected (socket_base.cpp:1003-1008 and 1081-1086).
THEOREM NobodyForgotten == Spec => []NoneForgotten
<1>1. Init => Shapes /\ Tracked
  BY ShapesInit DEF Init, Tracked, NoneForgotten, Idle
<1>2. Shapes /\ Tracked /\ [Next]_vars => Shapes' /\ Tracked'
  BY ShapesStep, TrackedStep
<1>3. Tracked => NoneForgotten
  BY DEF Tracked
<1> QED
  BY <1>1, <1>2, <1>3, PTL DEF Spec

-----------------------------------------------------------------------------
(***************************************************************************)
(* The pipes: both ends of each go by the handshake, and no command and no *)
(* call finds the socket's end gone.                                       *)
(***************************************************************************)

\* The commands that are about pipe p, and what is so of them in the mailbox.
Cmds(p) == {Command("bind", p), Command("pipe_term", p), Command("pipe_term_ack", p),
            Command("hiccup", p)}

\* bind comes before the others, and pipe_term_ack after them; hiccup before pipe_term.
Comes(m, p) ==
  /\ Ordered(m, Cmds(p), Command("bind", p), Command("pipe_term_ack", p), Command("pipe_term", p))
  /\ Ordered(m, {Command("hiccup", p), Command("pipe_term", p)}, Command("bind", p),
             Command("pipe_term", p), Command("pipe_term", p))

InOrder(p) == Comes(mailbox, p)

\* The socket has the end or is about to get it, as long as it is allocated, and a hiccup
\* comes to an end that has not acknowledged.
Known(p) ==
  /\ p \in pipes => l[p] # "free" /\ ~In(mailbox, Command("bind", p))
  /\ l[p] # "free" => p \in pipes \/ In(mailbox, Command("bind", p))
  /\ l[p] = "free" => \A x \in Cmds(p) : ~In(mailbox, x)
  /\ In(mailbox, Command("hiccup", p)) => l[p] \in {"active", "req1"}

Fit(p) == InOrder(p) /\ Known(p) /\ Handshake(p)

\* The inductive invariant.
Fitting == (\A p \in Pipe : Fit(p)) /\ (\A x \in inprocs : x[2] \in pipes)

-----------------------------------------------------------------------------
(***************************************************************************)
(* Handshake(p) with its parts as parameters.                              *)
(***************************************************************************)

NoCmd   == <<>>
AskOnly == <<"pipe_term">>
AckOnly == <<"pipe_term_ack">>
AskAck  == <<"pipe_term", "pipe_term_ack">>

Agree(a, b, q, term, ack) ==
  \/ /\ a = "free" /\ ~term /\ ~ack
     /\ (b = "free" /\ q = NoCmd) \/ (b \in {"acked", "req2"} /\ q = AckOnly)
  \/ /\ a = "active" /\ q = NoCmd /\ ~ack
     /\ (b = "active" /\ ~term) \/ (b = "req1" /\ term)
  \/ a = "waiting" /\ b = "req1" /\ q = NoCmd /\ ~term /\ ~ack
  \/ /\ a = "req1" /\ q = AskOnly /\ ~ack
     /\ (b = "active" /\ ~term) \/ (b = "req1" /\ term)
  \/ /\ a = "req1" /\ q = NoCmd
     /\ \/ b = "waiting" /\ ~term /\ ~ack
        \/ b = "acked" /\ ~term /\ ack
        \/ b = "req2" /\ term /\ ack
  \/ /\ a = "req2" /\ ~term
     /\ \/ b = "req1" /\ q = AskAck /\ ~ack
        \/ b = "req2" /\ q = AckOnly /\ ack
        \/ b = "free" /\ q = NoCmd /\ ack
  \/ /\ a = "acked" /\ ~term
     /\ (b = "req1" /\ q = AckOnly /\ ~ack) \/ (b = "free" /\ q = NoCmd /\ ack)

LEMMA HandshakeAgrees ==
  ASSUME NEW p
  PROVE  Handshake(p) <=> Agree(l[p], r[p], toR[p], In(mailbox, Command("pipe_term", p)),
                                In(mailbox, Command("pipe_term_ack", p)))
BY DEF Handshake, Agree, NoCmd, AskOnly, AckOnly, AskAck

LEMMA HandshakeAgreesNext ==
  ASSUME NEW p
  PROVE  Handshake(p)' <=> Agree(l'[p], r'[p], toR'[p], In(mailbox', Command("pipe_term", p)),
                                 In(mailbox', Command("pipe_term_ack", p)))
BY DEF Handshake, Agree, NoCmd, AskOnly, AckOnly, AskAck

\* What may be on its way to the other end of a pipe.
LEMMA Queues ==
  /\ NoCmd # AskOnly /\ NoCmd # AckOnly /\ NoCmd # AskAck
  /\ AskOnly # AckOnly /\ AskOnly # AskAck /\ AckOnly # AskAck
  /\ Append(NoCmd, "pipe_term") = AskOnly /\ Append(NoCmd, "pipe_term_ack") = AckOnly
  /\ Append(AskOnly, "pipe_term_ack") = AskAck
  /\ Tail(AskOnly) = NoCmd /\ Tail(AckOnly) = NoCmd /\ Tail(AskAck) = AckOnly
  /\ Head(AskOnly) = "pipe_term" /\ Head(AckOnly) = "pipe_term_ack" /\ Head(AskAck) = "pipe_term"
<1> USE DEF NoCmd, AskOnly, AckOnly, AskAck
<1>1. /\ NoCmd # AskOnly /\ NoCmd # AckOnly /\ NoCmd # AskAck
      /\ AskOnly # AckOnly /\ AskOnly # AskAck /\ AckOnly # AskAck
  OBVIOUS
<1>2. /\ Append(NoCmd, "pipe_term") = AskOnly /\ Append(NoCmd, "pipe_term_ack") = AckOnly
  OBVIOUS
<1>3. Append(AskOnly, "pipe_term_ack") = AskAck
  <2> DEFINE S == {"pipe_term", "pipe_term_ack"}
             s == Append(AskOnly, "pipe_term_ack")
  <2>1. AskOnly \in Seq(S) /\ AskAck \in Seq(S) /\ Len(AskOnly) = 1 /\ Len(AskAck) = 2
    OBVIOUS
  <2>2. /\ s \in Seq(S) /\ Len(s) = 2
        /\ \A i \in 1 .. 2 : s[i] = IF i <= 1 THEN AskOnly[i] ELSE "pipe_term_ack"
    BY <2>1, AppendProperties
  <2>3. \A i \in 1 .. 2 : s[i] = AskAck[i]
    BY <2>2
  <2> QED
    BY <2>1, <2>2, <2>3, SeqEqual
<1>4. Tail(AskOnly) = NoCmd /\ Tail(AckOnly) = NoCmd
  OBVIOUS
<1>5. Tail(AskAck) = AckOnly
  OBVIOUS
<1>6. /\ Head(AskOnly) = "pipe_term" /\ Head(AckOnly) = "pipe_term_ack" /\ Head(AskAck) = "pipe_term"
  OBVIOUS
<1> QED
  BY <1>1, <1>2, <1>3, <1>4, <1>5, <1>6

\* Terminate of ends that are there.
LEMMA TerminateAgrees ==
  ASSUME Shapes, NEW P \in SUBSET Pipe, NEW delay, Terminate(P, delay), NEW p \in Pipe,
         p \in P => l[p] # "free", NEW term, NEW ack, Agree(l[p], r[p], toR[p], term, ack)
  PROVE  /\ Agree(l'[p], r'[p], toR'[p], term, ack)
         /\ l'[p] = "free" <=> l[p] = "free"
         /\ l[p] \in {"active", "req1"} => l'[p] \in {"active", "req1"}
<1>1. /\ l'[p] = CASE p \in P /\ l[p] = "active" -> "req1"
                   [] p \in P /\ l[p] = "waiting" /\ ~delay -> "acked"
                   [] OTHER -> l[p]
      /\ toR'[p] = CASE p \in P /\ l[p] = "active" -> Append(toR[p], "pipe_term")
                     [] p \in P /\ l[p] = "waiting" /\ ~delay -> Append(toR[p], "pipe_term_ack")
                     [] OTHER -> toR[p]
      /\ r'[p] = r[p]
  BY DEF Terminate
<1>2. CASE p \in P /\ l[p] = "active"
  BY <1>1, <1>2, Queues DEF Agree
<1>3. CASE p \in P /\ l[p] = "waiting" /\ ~delay
  BY <1>1, <1>3, Queues DEF Agree
<1>4. CASE ~(p \in P /\ l[p] = "active") /\ ~(p \in P /\ l[p] = "waiting" /\ ~delay)
  BY <1>1, <1>4
<1> QED
  BY <1>2, <1>3, <1>4

-----------------------------------------------------------------------------
(***************************************************************************)
(* What a step does to the commands about a pipe.                          *)
(***************************************************************************)

\* The step does not touch them.
Quiet(p) ==
  /\ \A x \in Cmds(p) : In(mailbox', x) <=> In(mailbox, x)
  /\ InOrder(p) => InOrder(p)'

LEMMA CmdsDiffer ==
  ASSUME NEW p, NEW q, p # q
  PROVE  Cmds(p) \cap Cmds(q) = {}
BY DEF Cmds, Command

LEMMA CmdsOfOne ==
  ASSUME NEW p \in Pipe
  PROVE  /\ Cmds(p) \subseteq Msg
         /\ Command("bind", p) \in Cmds(p) /\ Command("pipe_term", p) \in Cmds(p)
         /\ Command("pipe_term_ack", p) \in Cmds(p) /\ Command("hiccup", p) \in Cmds(p)
         /\ Command("bind", p) # Command("pipe_term", p)
         /\ Command("bind", p) # Command("pipe_term_ack", p)
         /\ Command("bind", p) # Command("hiccup", p)
         /\ Command("pipe_term", p) # Command("pipe_term_ack", p)
         /\ Command("pipe_term", p) # Command("hiccup", p)
         /\ Command("pipe_term_ack", p) # Command("hiccup", p)
BY DEF Cmds, Command, Msg

LEMMA ComesAppend ==
  ASSUME NEW m \in Seq(Msg), NEW y \in Msg, NEW p \in Pipe, y \notin Cmds(p), Comes(m, p)
  PROVE  Comes(Append(m, y), p)
BY OrderedAppend, CmdsOfOne DEF Comes

LEMMA ComesTail ==
  ASSUME NEW m \in Seq(Msg), m # <<>>, NEW p \in Pipe, Comes(m, p)
  PROVE  /\ Comes(Tail(m), p)
         /\ Head(m) \in Cmds(p) => ~In(Tail(m), Command("bind", p))
         /\ Head(m) = Command("pipe_term_ack", p) => \A x \in Cmds(p) : ~In(Tail(m), x)
         /\ Head(m) = Command("pipe_term", p) =>
              ~In(Tail(m), Command("pipe_term", p)) /\ ~In(Tail(m), Command("hiccup", p))
<1>1. /\ Comes(Tail(m), p)
      /\ Head(m) \in Cmds(p) => ~In(Tail(m), Command("bind", p))
      /\ Head(m) = Command("pipe_term_ack", p) => \A x \in Cmds(p) : ~In(Tail(m), x)
  BY OrderedTail, CmdsOfOne DEF Comes
<1>2. Head(m) = Command("pipe_term", p) =>
        ~In(Tail(m), Command("pipe_term", p)) /\ ~In(Tail(m), Command("hiccup", p))
  BY OrderedTail DEF Comes
<1> QED
  BY <1>1, <1>2

LEMMA QuietSame ==
  ASSUME NEW p, mailbox' = mailbox
  PROVE  Quiet(p)
BY DEF Quiet, InOrder

LEMMA QuietAppend ==
  ASSUME Shapes, NEW p \in Pipe, NEW y \in Msg, y \notin Cmds(p), mailbox' = Append(mailbox, y)
  PROVE  Quiet(p)
<1>1. mailbox \in Seq(Msg)
  BY DEF Shapes
<1>2. \A x \in Cmds(p) : In(mailbox', x) <=> In(mailbox, x)
  BY <1>1, InAppend
<1>3. InOrder(p) => InOrder(p)'
  BY <1>1, ComesAppend DEF InOrder
<1> QED
  BY <1>2, <1>3 DEF Quiet

LEMMA QuietTaken ==
  ASSUME Shapes, NEW p \in Pipe, NEW cmd, NEW x, Command(cmd, x) \notin Cmds(p), Receive(cmd, x)
  PROVE  Quiet(p)
<1>1. mailbox \in Seq(Msg) /\ mailbox # <<>> /\ Head(mailbox) \notin Cmds(p) /\ mailbox' = Tail(mailbox)
  BY DEF Shapes, Receive
<1>2. \A y \in Cmds(p) : In(mailbox', y) <=> In(mailbox, y)
  BY <1>1, InTail
<1>3. InOrder(p) => InOrder(p)'
  BY <1>1, ComesTail DEF InOrder
<1> QED
  BY <1>2, <1>3 DEF Quiet

\* A pipe that the step is not about.
LEMMA FitKept ==
  ASSUME NEW p \in Pipe, Fit(p), Quiet(p), l'[p] = l[p], r'[p] = r[p], toR'[p] = toR[p],
         p \in pipes' <=> p \in pipes
  PROVE  Fit(p)'
<1>1. /\ In(mailbox', Command("bind", p)) <=> In(mailbox, Command("bind", p))
      /\ In(mailbox', Command("pipe_term", p)) <=> In(mailbox, Command("pipe_term", p))
      /\ In(mailbox', Command("pipe_term_ack", p)) <=> In(mailbox, Command("pipe_term_ack", p))
      /\ In(mailbox', Command("hiccup", p)) <=> In(mailbox, Command("hiccup", p))
  BY CmdsOfOne DEF Quiet
<1>2. InOrder(p)' /\ Known(p)'
  BY <1>1 DEF Fit, Known, Quiet
<1>3. Handshake(p)'
  BY <1>1, HandshakeAgrees, HandshakeAgreesNext DEF Fit, Agree
<1> QED
  BY <1>2, <1>3 DEF Fit

\* Steps that leave the pipes alone.
LEMMA FittingKept ==
  ASSUME Fitting, pipes' = pipes, inprocs' = inprocs, l' = l, r' = r, toR' = toR,
         \A p \in Pipe : Quiet(p)
  PROVE  Fitting'
BY FitKept DEF Fitting

\* A pipe is made and attached at once, which the other side may already be terminating,
LEMMA FitFound ==
  ASSUME Shapes, NEW p \in Pipe, Fit(p), l[p] = "free", r[p] = "free",
         \/ l'[p] = "active" /\ r'[p] = "active"
         \/ l'[p] = "waiting" /\ r'[p] = "req1",
         toR'[p] = toR[p], p \in pipes', Quiet(p)
  PROVE  Fit(p)'
<1>1. \A x \in Cmds(p) : ~In(mailbox', x)
  BY DEF Fit, Known, Quiet
<1>2. InOrder(p)' /\ Known(p)'
  BY <1>1, CmdsOfOne DEF Fit, Known, Quiet
<1>3. toR'[p] = NoCmd
  BY HandshakeAgrees DEF Fit, Agree
<1>4. ~In(mailbox', Command("pipe_term", p)) /\ ~In(mailbox', Command("pipe_term_ack", p))
  BY <1>1, CmdsOfOne
<1> QED
  BY <1>2, <1>3, <1>4, HandshakeAgreesNext DEF Fit, Agree

LEMMA FitAttached ==
  ASSUME Shapes, NEW p \in Pipe, Fit(p), NEW o, NewPipe(p, o), p \in pipes', Quiet(p)
  PROVE  Fit(p)'
<1>1. l[p] = "free" /\ r[p] = "free" /\ l'[p] = "active" /\ r'[p] = "active" /\ toR'[p] = toR[p]
  BY DEF NewPipe, Shapes
<1> QED
  BY <1>1, FitFound

\* or somebody else makes it and sends the bind command.
LEMMA FitSent ==
  ASSUME Shapes, NEW p \in Pipe, Fit(p), NEW o, NewPipe(p, o), pipes' = pipes,
         mailbox' = Append(mailbox, Command("bind", p))
  PROVE  Fit(p)'
<1>1. l[p] = "free" /\ r[p] = "free" /\ l'[p] = "active" /\ r'[p] = "active" /\ toR'[p] = toR[p]
  BY DEF NewPipe, Shapes
<1>2. mailbox \in Seq(Msg) /\ p \notin pipes /\ \A x \in Cmds(p) : ~In(mailbox, x)
  BY <1>1 DEF Fit, Known, Shapes
<1>3. \A x \in Cmds(p) : In(mailbox', x) <=> x = Command("bind", p)
  BY <1>2, CmdsOfOne, InAppend
<1>4. InOrder(p)'
  BY <1>2, CmdsOfOne, OrderedAppend DEF Fit, InOrder, Comes
<1>5. Known(p)'
  BY <1>1, <1>2, <1>3, CmdsOfOne DEF Known
<1>6. toR'[p] = NoCmd
  BY <1>1, HandshakeAgrees DEF Fit, Agree
<1>7. ~In(mailbox', Command("pipe_term", p)) /\ ~In(mailbox', Command("pipe_term_ack", p))
  BY <1>3, CmdsOfOne
<1>8. Handshake(p)'
  BY <1>1, <1>6, <1>7, HandshakeAgreesNext DEF Agree
<1> QED
  BY <1>4, <1>5, <1>8 DEF Fit

LEMMA NewPipeOthers ==
  ASSUME Shapes, NEW p \in Pipe, NEW o, NewPipe(p, o), NEW q \in Pipe, q # p
  PROVE  l'[q] = l[q] /\ r'[q] = r[q] /\ toR'[q] = toR[q]
BY DEF Shapes, NewPipe

\* The socket's ends of the pipes in P are told to go, and the step does nothing else
\* to pipes.
LEMMA FittingTerminate ==
  ASSUME Shapes, Fitting, NEW P \in SUBSET Pipe, NEW delay, Terminate(P, delay),
         \A p \in P : l[p] # "free",
         pipes' = pipes, inprocs' \subseteq inprocs, \A p \in Pipe : Quiet(p)
  PROVE  Fitting'
<1>1. ASSUME NEW p \in Pipe PROVE Fit(p)'
  <2>1. /\ In(mailbox', Command("bind", p)) <=> In(mailbox, Command("bind", p))
        /\ In(mailbox', Command("pipe_term", p)) <=> In(mailbox, Command("pipe_term", p))
        /\ In(mailbox', Command("pipe_term_ack", p)) <=> In(mailbox, Command("pipe_term_ack", p))
        /\ In(mailbox', Command("hiccup", p)) <=> In(mailbox, Command("hiccup", p))
        /\ Fit(p)
    BY CmdsOfOne DEF Quiet, Fitting
  <2>2. Agree(l[p], r[p], toR[p], In(mailbox, Command("pipe_term", p)),
              In(mailbox, Command("pipe_term_ack", p)))
    BY <2>1, HandshakeAgrees DEF Fit
  <2>3. /\ Agree(l'[p], r'[p], toR'[p], In(mailbox, Command("pipe_term", p)),
                 In(mailbox, Command("pipe_term_ack", p)))
        /\ l'[p] = "free" <=> l[p] = "free"
        /\ l[p] \in {"active", "req1"} => l'[p] \in {"active", "req1"}
    BY <2>2, TerminateAgrees
  <2>4. Handshake(p)'
    BY <2>1, <2>3, HandshakeAgreesNext DEF Agree
  <2>5. InOrder(p)' /\ Known(p)'
    BY <2>1, <2>3 DEF Fit, Known, Quiet
  <2> QED
    BY <2>4, <2>5 DEF Fit
<1> QED
  BY <1>1 DEF Fitting

LEMMA FittingCallStep ==
  ASSUME Shapes, Fitting, CallStep
  PROVE  Fitting'
<1> USE DEF tableVars, pipeVars
<1>1. ASSUME mailbox' = mailbox, UNCHANGED <<tableVars, pipeVars>> PROVE Fitting'
  BY <1>1, QuietSame, FittingKept
<1>2. ASSUME NEW op, NEW e, Call(op, e) PROVE Fitting'
  BY <1>1, <1>2 DEF Call
<1>3. CASE Drained \/ Refuse \/ TryAgain \/ Done \/ SetImmediate \/ SetLinger \/ Close
  BY <1>1, <1>3 DEF Drained, Refuse, TryAgain, Done, SetImmediate, SetLinger, Close
<1>4. ASSUME NEW e, NEW c \in Child, NEW k, NEW p, AddEndpoint(e, c, k, p)
      PROVE  \A q \in Pipe : Quiet(q)
  <2>1. /\ Command("own", c) \in Msg /\ mailbox' = Append(mailbox, Command("own", c))
        /\ \A q \in Pipe : Command("own", c) \notin Cmds(q)
    BY <1>4 DEF AddEndpoint, Command, Msg, Cmds
  <2> QED
    BY <2>1, QuietAppend
<1>5. ASSUME NEW e \in Endpoint, BindListener(e) PROVE Fitting'
  BY <1>4, <1>5, FittingKept DEF BindListener
<1>6. ASSUME NEW p \in Pipe, NEW o, NewPipe(p, o), pipes' = pipes \cup {p},
             \A q \in Pipe : Quiet(q), \A x \in inprocs' : x \in inprocs \/ x[2] = p
      PROVE  Fitting'
  <2>1. Fit(p)'
    BY <1>6, FitAttached DEF Fitting
  <2>2. \A q \in Pipe : q # p => Fit(q)'
    BY <1>6, NewPipeOthers, FitKept DEF Fitting
  <2> QED
    BY <1>6, <2>1, <2>2 DEF Fitting
<1>7. ASSUME NEW e \in Endpoint, BindInproc(e) PROVE Fitting'
  <2>1. mailbox' = mailbox /\ inprocs' = inprocs /\ \A q \in Pipe : Quiet(q)
    BY <1>7, QuietSame DEF BindInproc
  <2>2. PICK P \in SUBSET {p \in Pipe : l[p] = "free" /\ r[p] = "free"} : \E W \in SUBSET P :
          /\ l' = [p \in Pipe |-> IF p \in W THEN "waiting" ELSE IF p \in P THEN "active" ELSE l[p]]
          /\ r' = [p \in Pipe |-> IF p \in W THEN "req1" ELSE IF p \in P THEN "active" ELSE r[p]]
          /\ pipes' = pipes \cup P /\ toR' = toR
    BY <1>7 DEF BindInproc
  <2>3. ASSUME NEW q \in Pipe PROVE Fit(q)'
    <3>1. CASE q \in P
      <4>1. /\ l[q] = "free" /\ r[q] = "free" /\ toR'[q] = toR[q] /\ q \in pipes'
            /\ \/ l'[q] = "active" /\ r'[q] = "active"
               \/ l'[q] = "waiting" /\ r'[q] = "req1"
        BY <2>2, <3>1
      <4> QED
        BY <2>1, <4>1, FitFound DEF Fitting
    <3>2. CASE q \notin P
      <4>1. l'[q] = l[q] /\ r'[q] = r[q] /\ toR'[q] = toR[q] /\ (q \in pipes' <=> q \in pipes)
        BY <2>2, <3>2
      <4> QED
        BY <2>1, <4>1, FitKept DEF Fitting
    <3> QED
      BY <3>1, <3>2
  <2> QED
    BY <2>1, <2>2, <2>3 DEF Fitting
<1>8. ASSUME NEW e \in Endpoint, ConnectInproc(e) PROVE Fitting'
  <2>1. \A q \in Pipe : Quiet(q)
    BY <1>8, QuietSame DEF ConnectInproc
  <2>2. PICK p \in Pipe : /\ NewPipe(p, "inproc") \/ NewPipe(p, "pending")
                          /\ pipes' = pipes \cup {p} /\ inprocs' = inprocs \cup {<<e, p>>}
    BY <1>8 DEF ConnectInproc
  <2>3. \A x \in inprocs' : x \in inprocs \/ x[2] = p
    BY <2>2
  <2> QED
    BY <1>6, <2>1, <2>2, <2>3
<1>9. ASSUME NEW e \in Endpoint, ConnectAgain(e) PROVE Fitting'
  BY <1>1, <1>9 DEF ConnectAgain
<1>10. ASSUME NEW e \in Endpoint, ConnectSession(e) PROVE Fitting'
  BY <1>4, <1>6, <1>10, FittingKept DEF ConnectSession
<1>11. ASSUME NEW e \in Endpoint, DisconnectInproc(e) PROVE Fitting'
  <2>1. \A q \in Pipe : Quiet(q)
    BY <1>11, QuietSame DEF DisconnectInproc
  <2> DEFINE cut == {p \in Pipe : <<e, p>> \in inprocs}
  <2>2. \A p \in cut : l[p] # "free"
    BY DEF Fitting, Fit, Known
  <2>3. pipes' = pipes /\ inprocs' \subseteq inprocs
    BY <1>11 DEF DisconnectInproc
  <2>4. CASE e \in registered
    BY <1>11, <2>1, <2>4, FittingKept DEF DisconnectInproc
  <2>5. CASE e \notin registered
    <3>1. Terminate(cut, TRUE)
      BY <1>11, <2>5 DEF DisconnectInproc
    <3> HIDE DEF cut
    <3>2. cut \in SUBSET Pipe
      BY DEF cut
    <3> QED
      BY <2>1, <2>2, <2>3, <3>1, <3>2, FittingTerminate
  <2> QED
    BY <2>4, <2>5
<1>12. ASSUME NEW e \in Endpoint, Disconnect(e) PROVE Fitting'
  <2> DEFINE cut == {x.pipe : x \in {y \in endpoints : y.endpoint = e}} \cap pipes
  <2>1. \A q \in Pipe : Quiet(q)
    BY <1>12, QuietSame DEF Disconnect
  <2>2. cut \subseteq Pipe /\ \A p \in cut : l[p] # "free"
    BY DEF Fitting, Fit, Known, Shapes
  <2>3. Terminate(cut, FALSE) /\ pipes' = pipes /\ inprocs' = inprocs
    BY <1>12 DEF Disconnect
  <2> QED
    BY <2>1, <2>2, <2>3, FittingTerminate
<1>13. ASSUME NEW p \in Pipe, ReadDelimiter(p) PROVE Fitting'
  <2>1. /\ mailbox' = mailbox /\ pipes' = pipes /\ inprocs' = inprocs /\ r' = r
        /\ l[p] = "waiting" /\ l'[p] = "acked" /\ toR'[p] = Append(toR[p], "pipe_term_ack")
        /\ \A q \in Pipe : q # p => l'[q] = l[q] /\ toR'[q] = toR[q]
    BY <1>13 DEF ReadDelimiter, Shapes
  <2>2. \A q \in Pipe : q # p => Fit(q)'
    BY <2>1, QuietSame, FitKept DEF Fitting
  <2>3. Handshake(p)'
    BY <2>1, HandshakeAgrees, HandshakeAgreesNext, Queues DEF Fitting, Fit, Agree
  <2>4. InOrder(p)' /\ Known(p)'
    BY <2>1 DEF Fitting, Fit, Known, InOrder
  <2> QED
    BY <2>1, <2>2, <2>3, <2>4 DEF Fitting, Fit
<1> QED
  BY <1>2, <1>3, <1>5, <1>7, <1>8, <1>9, <1>10, <1>11, <1>12, <1>13 DEF CallStep

\* A command about p that is taken from the mailbox: whether another one is left there.
LEMMA TakenAboutPipe ==
  ASSUME Shapes, NEW p \in Pipe, Fit(p), NEW cmd, Receive(cmd, p), Command(cmd, p) \in Cmds(p)
  PROVE  /\ InOrder(p)'
         /\ \A x \in Cmds(p) : In(mailbox, x) <=> x = Command(cmd, p) \/ In(mailbox', x)
         /\ ~In(mailbox', Command("bind", p))
         /\ cmd = "pipe_term_ack" => \A x \in Cmds(p) : ~In(mailbox', x)
         /\ cmd = "pipe_term" => /\ ~In(mailbox', Command("pipe_term", p))
                                /\ ~In(mailbox', Command("hiccup", p))
         /\ l[p] # "free"
         /\ \A q \in Pipe : q # p => Quiet(q)
<1>1. /\ mailbox \in Seq(Msg) /\ mailbox # <<>> /\ Head(mailbox) = Command(cmd, p)
      /\ mailbox' = Tail(mailbox)
  BY DEF Shapes, Receive
<1>2. \A x \in Cmds(p) : In(mailbox, x) <=> x = Command(cmd, p) \/ In(mailbox', x)
  BY <1>1, InTail
<1>3. InOrder(p)'
  BY <1>1, ComesTail DEF Fit, InOrder
<1>4. ~In(mailbox', Command("bind", p))
  BY <1>1, ComesTail DEF Fit, InOrder
<1>5. cmd = "pipe_term_ack" => \A x \in Cmds(p) : ~In(mailbox', x)
  BY <1>1, ComesTail DEF Fit, InOrder
<1>6. cmd = "pipe_term" => ~In(mailbox', Command("pipe_term", p)) /\ ~In(mailbox', Command("hiccup", p))
  BY <1>1, ComesTail DEF Fit, InOrder
<1>7. l[p] # "free"
  BY <1>2 DEF Fit, Known
<1>8. \A q \in Pipe : q # p => Quiet(q)
  BY CmdsDiffer, QuietTaken
<1> QED
  BY <1>2, <1>3, <1>4, <1>5, <1>6, <1>7, <1>8

LEMMA FittingProcessBind ==
  ASSUME Shapes, Fitting, NEW p \in Pipe, ProcessBind(p)
  PROVE  Fitting'
<1>1. Receive("bind", p) /\ pipes' = pipes \cup {p} /\ inprocs' = inprocs
  BY DEF ProcessBind
<1>2. /\ InOrder(p)' /\ ~In(mailbox', Command("bind", p)) /\ l[p] # "free"
      /\ In(mailbox', Command("pipe_term", p)) <=> In(mailbox, Command("pipe_term", p))
      /\ In(mailbox', Command("pipe_term_ack", p)) <=> In(mailbox, Command("pipe_term_ack", p))
      /\ In(mailbox', Command("hiccup", p)) <=> In(mailbox, Command("hiccup", p))
      /\ \A q \in Pipe : q # p => Quiet(q)
  BY <1>1, TakenAboutPipe, CmdsOfOne DEF Fitting
<1>3. Agree(l[p], r[p], toR[p], In(mailbox, Command("pipe_term", p)),
            In(mailbox, Command("pipe_term_ack", p)))
  BY HandshakeAgrees DEF Fitting, Fit
<1>4. /\ Agree(l'[p], r'[p], toR'[p], In(mailbox, Command("pipe_term", p)),
               In(mailbox, Command("pipe_term_ack", p)))
      /\ l'[p] # "free"
      /\ l[p] \in {"active", "req1"} => l'[p] \in {"active", "req1"}
  <2>1. CASE terminating
    BY <1>2, <1>3, <2>1, TerminateAgrees DEF ProcessBind
  <2>2. CASE ~terminating
    BY <1>2, <1>3, <2>2 DEF ProcessBind, pipeVars
  <2> QED
    BY <2>1, <2>2
<1>5. Fit(p)'
  <2>1. Handshake(p)'
    BY <1>2, <1>4, HandshakeAgreesNext DEF Agree
  <2>2. Known(p)'
    BY <1>1, <1>2, <1>4 DEF Known, Fitting, Fit
  <2> QED
    BY <1>2, <2>1, <2>2 DEF Fit
<1>6. ASSUME NEW q \in Pipe, q # p PROVE Fit(q)'
  <2>1. l'[q] = l[q] /\ r'[q] = r[q] /\ toR'[q] = toR[q]
    BY <1>6 DEF ProcessBind, Terminate, pipeVars
  <2> QED
    BY <1>1, <1>2, <1>6, <2>1, FitKept DEF Fitting
<1> QED
  BY <1>1, <1>5, <1>6 DEF Fitting

LEMMA FittingProcessPipeTerm ==
  ASSUME Shapes, Fitting, NEW p \in Pipe, ProcessPipeTerm(p)
  PROVE  Fitting'
<1>1. /\ Receive("pipe_term", p) /\ pipes' = pipes /\ inprocs' = inprocs /\ r' = r
  BY DEF ProcessPipeTerm, tableVars
<1>2. /\ InOrder(p)' /\ l[p] # "free" /\ In(mailbox, Command("pipe_term", p))
      /\ ~In(mailbox', Command("pipe_term", p)) /\ ~In(mailbox', Command("hiccup", p))
      /\ In(mailbox', Command("pipe_term_ack", p)) <=> In(mailbox, Command("pipe_term_ack", p))
      /\ In(mailbox', Command("bind", p)) <=> In(mailbox, Command("bind", p))
      /\ \A q \in Pipe : q # p => Quiet(q)
  BY <1>1, TakenAboutPipe, CmdsOfOne DEF Fitting
<1>3. Agree(l[p], r[p], toR[p], TRUE, In(mailbox, Command("pipe_term_ack", p)))
  BY <1>2, HandshakeAgrees DEF Fitting, Fit, Agree
<1>4. l[p] \in {"active", "req1"}
  BY <1>3 DEF Agree
<1>5. PICK next : /\ next \in IF l[p] = "active" THEN {"waiting", "acked"} ELSE {"req2"}
                  /\ l' = [l EXCEPT ![p] = next]
                  /\ toR' = IF next = "waiting" THEN toR
                            ELSE [toR EXCEPT ![p] = Append(@, "pipe_term_ack")]
  BY <1>4 DEF ProcessPipeTerm
<1>6. /\ l'[p] = next
      /\ toR'[p] = IF next = "waiting" THEN toR[p] ELSE Append(toR[p], "pipe_term_ack")
      /\ \A q \in Pipe : q # p => l'[q] = l[q] /\ toR'[q] = toR[q]
  BY <1>5 DEF Shapes
<1>7. Agree(l'[p], r'[p], toR'[p], FALSE, In(mailbox, Command("pipe_term_ack", p)))
  BY <1>1, <1>3, <1>4, <1>5, <1>6, Queues DEF Agree
<1>8. Fit(p)'
  <2>1. Handshake(p)'
    BY <1>2, <1>7, HandshakeAgreesNext DEF Agree
  <2>2. Known(p)'
    BY <1>1, <1>2, <1>4, <1>5, <1>6 DEF Known, Fitting, Fit
  <2> QED
    BY <1>2, <2>1, <2>2 DEF Fit
<1>9. ASSUME NEW q \in Pipe, q # p PROVE Fit(q)'
  BY <1>1, <1>2, <1>6, <1>9, FitKept DEF Fitting
<1> QED
  BY <1>1, <1>8, <1>9 DEF Fitting

LEMMA FittingProcessPipeTermAck ==
  ASSUME Shapes, Fitting, NEW p \in Pipe, ProcessPipeTermAck(p)
  PROVE  Fitting'
<1>1. /\ Receive("pipe_term_ack", p) /\ pipes' = pipes \ {p} /\ r' = r
      /\ inprocs' = {x \in inprocs : x[2] # p}
  BY DEF ProcessPipeTermAck
<1>2. /\ InOrder(p)' /\ l[p] # "free" /\ In(mailbox, Command("pipe_term_ack", p))
      /\ \A x \in Cmds(p) : ~In(mailbox', x)
      /\ ~In(mailbox, Command("pipe_term", p))
      /\ \A q \in Pipe : q # p => Quiet(q)
  BY <1>1, TakenAboutPipe, CmdsOfOne DEF Fitting
<1>3. Agree(l[p], r[p], toR[p], FALSE, TRUE)
  BY <1>2, HandshakeAgrees DEF Fitting, Fit, Agree
<1>4. l[p] \in {"req1", "req2", "acked"}
  BY <1>3 DEF Agree
<1>5. /\ l'[p] = "free"
      /\ toR'[p] = IF l[p] = "req1" THEN Append(toR[p], "pipe_term_ack") ELSE toR[p]
      /\ \A q \in Pipe : q # p => l'[q] = l[q] /\ toR'[q] = toR[q]
  BY <1>4 DEF ProcessPipeTermAck, Shapes
<1>6. Agree(l'[p], r'[p], toR'[p], FALSE, FALSE)
  BY <1>1, <1>3, <1>4, <1>5, Queues DEF Agree
<1>7. Fit(p)'
  <2>1. Handshake(p)'
    BY <1>2, <1>6, HandshakeAgreesNext, CmdsOfOne DEF Agree
  <2>2. Known(p)'
    BY <1>1, <1>2, <1>5, CmdsOfOne DEF Known
  <2> QED
    BY <1>2, <2>1, <2>2 DEF Fit
<1>8. ASSUME NEW q \in Pipe, q # p PROVE Fit(q)'
  BY <1>1, <1>2, <1>5, <1>8, FitKept DEF Fitting
<1> QED
  BY <1>1, <1>7, <1>8 DEF Fitting

LEMMA FittingCommandStep ==
  ASSUME Shapes, Fitting, CommandStep
  PROVE  Fitting'
<1> USE DEF tableVars, pipeVars
<1>1. ASSUME NEW c \in Child, ProcessOwn(c) \/ ProcessTermReq(c) \/ ProcessTermAck(c)
      PROVE  Fitting'
  <2>1. \A p \in Pipe : \A cmd \in {"own", "term_req", "term_ack"} : Command(cmd, c) \notin Cmds(p)
    BY DEF Command, Cmds
  <2>2. \A p \in Pipe : Quiet(p)
    BY <1>1, <2>1, QuietTaken DEF ProcessOwn, ProcessTermReq, ProcessTermAck
  <2> QED
    BY <1>1, <2>2, FittingKept DEF ProcessOwn, ProcessTermReq, ProcessTermAck
<1>2. CASE ProcessStop
  <2>1. \A p \in Pipe : Command("stop", None) \notin Cmds(p)
    BY DEF Command, Cmds
  <2>2. \A p \in Pipe : Quiet(p)
    BY <1>2, <2>1, QuietTaken DEF ProcessStop
  <2> QED
    BY <1>2, <2>2, FittingKept DEF ProcessStop
<1>3. ASSUME NEW p \in Pipe, ProcessHiccup(p) PROVE Fitting'
  <2>1. Receive("hiccup", p) /\ pipes' = pipes /\ inprocs' = inprocs
    BY <1>3 DEF ProcessHiccup
  <2>2. /\ InOrder(p)' /\ l[p] \in {"active", "req1"} /\ \A q \in Pipe : q # p => Quiet(q)
        /\ In(mailbox', Command("pipe_term", p)) <=> In(mailbox, Command("pipe_term", p))
        /\ In(mailbox', Command("pipe_term_ack", p)) <=> In(mailbox, Command("pipe_term_ack", p))
        /\ In(mailbox', Command("bind", p)) <=> In(mailbox, Command("bind", p))
    BY <2>1, TakenAboutPipe, CmdsOfOne DEF Fitting, Fit, Known
  <2>3. Agree(l[p], r[p], toR[p], In(mailbox, Command("pipe_term", p)),
              In(mailbox, Command("pipe_term_ack", p)))
    BY HandshakeAgrees DEF Fitting, Fit
  <2>4. /\ Agree(l'[p], r'[p], toR'[p], In(mailbox, Command("pipe_term", p)),
                 In(mailbox, Command("pipe_term_ack", p)))
        /\ l'[p] \in {"active", "req1"}
    <3>1. l[p] \notin {"free", "acked", "req2"}
      BY <2>2
    <3>2. CASE l[p] = "active" /\ immediate
      BY <1>3, <2>2, <2>3, <3>1, <3>2, TerminateAgrees DEF ProcessHiccup
    <3>3. CASE ~(l[p] = "active" /\ immediate)
      BY <1>3, <2>2, <2>3, <3>1, <3>3 DEF ProcessHiccup
    <3> QED
      BY <3>2, <3>3
  <2>5. Fit(p)'
    <3>1. Handshake(p)'
      BY <2>2, <2>4, HandshakeAgreesNext DEF Agree
    <3>2. Known(p)'
      BY <2>1, <2>2, <2>4 DEF Known, Fitting, Fit
    <3> QED
      BY <2>2, <3>1, <3>2 DEF Fit
  <2>6. ASSUME NEW q \in Pipe, q # p PROVE Fit(q)'
    <3>1. l'[q] = l[q] /\ r'[q] = r[q] /\ toR'[q] = toR[q]
      BY <1>3, <2>2, <2>6 DEF ProcessHiccup, Terminate
    <3> QED
      BY <2>1, <2>2, <2>6, <3>1, FitKept DEF Fitting
  <2> QED
    BY <2>1, <2>5, <2>6 DEF Fitting
<1> QED
  BY <1>1, <1>2, <1>3, FittingProcessBind, FittingProcessPipeTerm, FittingProcessPipeTermAck
  DEF CommandStep

\* Others send a command about p that is not bind, pipe_term only if there is none, and
\* hiccup only before it.
LEMMA SentAboutPipe ==
  ASSUME NEW m \in Seq(Msg), NEW p \in Pipe, NEW y \in Cmds(p), y # Command("bind", p),
         ~In(m, Command("pipe_term_ack", p)),
         y \in {Command("pipe_term", p), Command("hiccup", p)} => ~In(m, Command("pipe_term", p)),
         Comes(m, p)
  PROVE  /\ Append(m, y) \in Seq(Msg)
         /\ \A x : In(Append(m, y), x) <=> In(m, x) \/ x = y
         /\ Comes(Append(m, y), p)
<1>1. y \in Msg
  BY CmdsOfOne
<1>2. Append(m, y) \in Seq(Msg)
  BY <1>1, AppendProperties
<1>3. \A x : In(Append(m, y), x) <=> In(m, x) \/ x = y
  BY <1>1, InAppend
<1>4. Comes(Append(m, y), p)
  BY <1>1, OrderedAppend DEF Comes
<1> QED
  BY <1>2, <1>3, <1>4

\* The step is about pipe p, and leaves who has the socket's ends as it is.
LEMMA FittingAboutPipe ==
  ASSUME Shapes, Fitting, NEW p \in Pipe, pipes' = pipes, inprocs' = inprocs, l' = l,
         \A q \in Pipe : q # p => Quiet(q) /\ r'[q] = r[q] /\ toR'[q] = toR[q],
         l[p] # "free" \/ mailbox' = mailbox,
         In(mailbox', Command("bind", p)) <=> In(mailbox, Command("bind", p)),
         In(mailbox', Command("hiccup", p)) => l[p] \in {"active", "req1"},
         InOrder(p)',
         Agree(l[p], r'[p], toR'[p], In(mailbox', Command("pipe_term", p)),
               In(mailbox', Command("pipe_term_ack", p)))
  PROVE  Fitting'
<1>1. Handshake(p)'
  BY HandshakeAgreesNext DEF Agree
<1>2. Known(p)'
  BY DEF Known, Fitting, Fit
<1>3. \A q \in Pipe : q # p => Fit(q)'
  BY FitKept DEF Fitting
<1> QED
  BY <1>1, <1>2, <1>3 DEF Fitting, Fit

LEMMA FittingHiccup ==
  ASSUME Shapes, Fitting, NEW p \in Pipe, Hiccup(p)
  PROVE  Fitting'
<1>1. /\ mailbox \in Seq(Msg) /\ mailbox' = Append(mailbox, Command("hiccup", p)) /\ r[p] = "active"
      /\ pipes' = pipes /\ inprocs' = inprocs /\ l' = l /\ r' = r /\ toR' = toR
  BY DEF Hiccup, tableVars, pipeVars, Shapes
<1>2. Agree(l[p], r[p], toR[p], In(mailbox, Command("pipe_term", p)),
            In(mailbox, Command("pipe_term_ack", p)))
  BY HandshakeAgrees DEF Fitting, Fit
<1>3. /\ l[p] \in {"active", "req1"}
      /\ ~In(mailbox, Command("pipe_term", p)) /\ ~In(mailbox, Command("pipe_term_ack", p))
  BY <1>1, <1>2 DEF Agree
<1>4. InOrder(p)' /\ \A x : In(mailbox', x) <=> In(mailbox, x) \/ x = Command("hiccup", p)
  BY <1>1, <1>3, SentAboutPipe, CmdsOfOne DEF Fitting, Fit, InOrder
<1>5. \A q \in Pipe : q # p => Quiet(q)
  BY <1>1, QuietAppend, CmdsDiffer, CmdsOfOne
<1>6. Agree(l[p], r'[p], toR'[p], In(mailbox', Command("pipe_term", p)),
            In(mailbox', Command("pipe_term_ack", p)))
  BY <1>1, <1>2, <1>4, CmdsOfOne DEF Agree
<1> QED
  BY <1>1, <1>3, <1>4, <1>5, <1>6, FittingAboutPipe, CmdsOfOne

LEMMA FittingTerminateOther ==
  ASSUME Shapes, Fitting, NEW p \in Pipe, TerminateOther(p)
  PROVE  Fitting'
<1> DEFINE hiccup == Command("hiccup", p)
           term   == Command("pipe_term", p)
           ack    == Command("pipe_term_ack", p)
           told   == Append(mailbox, hiccup)
<1>1. /\ mailbox \in Seq(Msg) /\ r[p] = "active" /\ r' = [r EXCEPT ![p] = "req1"]
      /\ pipes' = pipes /\ inprocs' = inprocs /\ l' = l /\ toR' = toR
  BY DEF TerminateOther, tableVars, pipeVars, Shapes
<1>2. Agree(l[p], r[p], toR[p], In(mailbox, term), In(mailbox, ack))
  BY HandshakeAgrees DEF Fitting, Fit
<1>3. l[p] \in {"active", "req1"} /\ ~In(mailbox, ack) /\ ~In(mailbox, term)
  BY <1>1, <1>2 DEF Agree
<1>4. /\ told \in Seq(Msg) /\ \A x : In(told, x) <=> In(mailbox, x) \/ x = hiccup
      /\ Comes(told, p)
  BY <1>1, <1>3, SentAboutPipe, CmdsOfOne DEF Fitting, Fit, InOrder
<1>5. mailbox' = Append(mailbox, term) \/ mailbox' = Append(told, term)
  <2>1. mailbox' \in {mailbox \o <<>> \o <<term>>, mailbox \o <<hiccup>> \o <<term>>}
    BY DEF TerminateOther
  <2>2. term \in Msg /\ hiccup \in Msg
    BY CmdsOfOne
  <2> QED
    BY <1>1, <1>4, <2>1, <2>2, AppendIsConcat, ConcatEmptySeq
<1>6. PICK m \in Seq(Msg) :
        /\ m = mailbox \/ m = told
        /\ mailbox' = Append(m, term)
        /\ \A x : In(m, x) => In(mailbox, x) \/ x = hiccup
        /\ \A x : In(mailbox, x) => In(m, x)
        /\ Comes(m, p)
  <2>1. CASE mailbox' = Append(mailbox, term)
    BY <1>1, <2>1 DEF Fitting, Fit, InOrder
  <2>2. CASE mailbox' = Append(told, term)
    <3> HIDE DEF told, hiccup, term, ack
    <3> QED
      BY <1>4, <2>2
  <2> QED
    BY <1>5, <2>1, <2>2
<1>7. ~In(m, ack) /\ ~In(m, term)
  BY <1>3, <1>6, CmdsOfOne
<1>8. InOrder(p)' /\ \A x : In(mailbox', x) <=> In(m, x) \/ x = term
  BY <1>6, <1>7, SentAboutPipe, CmdsOfOne DEF InOrder
<1>9. ASSUME NEW q \in Pipe, q # p PROVE Quiet(q)
  <2>1. hiccup \in Msg /\ term \in Msg /\ hiccup \notin Cmds(q) /\ term \notin Cmds(q)
    BY <1>9, CmdsDiffer, CmdsOfOne
  <2>2. \A x \in Cmds(q) : In(mailbox', x) <=> In(mailbox, x)
    BY <1>6, <1>8, <2>1
  <2>3. Comes(mailbox, q)
    BY DEF Fitting, Fit, InOrder
  <2>4. Comes(m, q)
    BY <1>1, <1>6, <2>1, <2>3, ComesAppend
  <2>5. InOrder(q)'
    BY <1>6, <2>1, <2>4, ComesAppend DEF InOrder
  <2> QED
    BY <2>2, <2>5 DEF Quiet
<1>10. Agree(l[p], r'[p], toR'[p], In(mailbox', term), In(mailbox', ack))
  BY <1>1, <1>2, <1>3, <1>7, <1>8, CmdsOfOne DEF Agree, Shapes
<1>11. In(mailbox', Command("bind", p)) <=> In(mailbox, Command("bind", p))
  BY <1>6, <1>8, CmdsOfOne
<1>12. \A q \in Pipe : q # p => r'[q] = r[q] /\ toR'[q] = toR[q]
  BY <1>1 DEF Shapes
<1> QED
  BY <1>1, <1>3, <1>8, <1>9, <1>10, <1>11, <1>12, FittingAboutPipe

\* The other end answers, with pipe_term_ack or without.
LEMMA FittingAnswer ==
  ASSUME Shapes, Fitting, NEW p \in Pipe, pipes' = pipes, inprocs' = inprocs, l' = l,
         \A q \in Pipe : q # p => r'[q] = r[q] /\ toR'[q] = toR[q],
         NEW ack \in BOOLEAN,
         mailbox' = IF ack THEN Append(mailbox, Command("pipe_term_ack", p)) ELSE mailbox,
         ack => l[p] # "free" /\ ~In(mailbox, Command("pipe_term_ack", p)),
         Agree(l[p], r'[p], toR'[p], In(mailbox, Command("pipe_term", p)),
               In(mailbox, Command("pipe_term_ack", p)) \/ ack)
  PROVE  Fitting'
<1>0. mailbox \in Seq(Msg) /\ (In(mailbox, Command("hiccup", p)) => l[p] \in {"active", "req1"})
  BY DEF Shapes, Fitting, Fit, Known
<1>1. CASE ack
  <2>1. /\ InOrder(p)'
        /\ \A x : In(mailbox', x) <=> In(mailbox, x) \/ x = Command("pipe_term_ack", p)
    BY <1>0, <1>1, SentAboutPipe, CmdsOfOne DEF Fitting, Fit, InOrder
  <2>2. \A q \in Pipe : q # p => Quiet(q)
    BY <1>1, QuietAppend, CmdsDiffer, CmdsOfOne
  <2>3. Agree(l[p], r'[p], toR'[p], In(mailbox', Command("pipe_term", p)),
              In(mailbox', Command("pipe_term_ack", p)))
    BY <1>1, <2>1, CmdsOfOne DEF Agree
  <2> QED
    BY <1>0, <1>1, <2>1, <2>2, <2>3, FittingAboutPipe, CmdsOfOne
<1>2. CASE ~ack
  <2>1. InOrder(p)' /\ \A q \in Pipe : Quiet(q)
    BY <1>2, QuietSame DEF Fitting, Fit, InOrder
  <2>2. Agree(l[p], r'[p], toR'[p], In(mailbox', Command("pipe_term", p)),
              In(mailbox', Command("pipe_term_ack", p)))
    BY <1>2 DEF Agree
  <2> QED
    BY <1>0, <1>2, <2>1, <2>2, FittingAboutPipe
<1> QED
  BY <1>1, <1>2

LEMMA FittingOtherEnd ==
  ASSUME Shapes, Fitting, NEW p \in Pipe, OtherEnd(p)
  PROVE  Fitting'
<1> DEFINE term == In(mailbox, Command("pipe_term", p))
           done == In(mailbox, Command("pipe_term_ack", p))
<1>1. /\ pipes' = pipes /\ inprocs' = inprocs /\ l' = l /\ toR[p] # <<>> /\ toR'[p] = Tail(toR[p])
      /\ \A q \in Pipe : q # p => toR'[q] = toR[q]
  BY DEF OtherEnd, tableVars, Shapes
<1>2. Agree(l[p], r[p], toR[p], term, done)
  BY HandshakeAgrees DEF Fitting, Fit
<1>3. CASE Head(toR[p]) = "pipe_term"
  <2>1. PICK next \in IF r[p] = "active" THEN {"waiting", "acked"} ELSE {"req2"} :
          /\ r' = [r EXCEPT ![p] = next]
          /\ mailbox' = IF next = "waiting" THEN mailbox
                        ELSE Append(mailbox, Command("pipe_term_ack", p))
    BY <1>3 DEF OtherEnd
  <2>2. r'[p] = next /\ \A q \in Pipe : q # p => r'[q] = r[q]
    BY <2>1 DEF Shapes
  <2>3. toR[p] \in {AskOnly, AskAck}
    BY <1>1, <1>2, <1>3, Queues DEF Agree, NoCmd
  <2>4. l[p] # "free" /\ ~done
    BY <1>2, <2>3, Queues DEF Agree
  <2>5. Agree(l[p], r'[p], toR'[p], term, done \/ next # "waiting")
    BY <1>1, <1>2, <2>1, <2>2, <2>3, <2>4, Queues DEF Agree
  <2> QED
    BY <1>1, <2>1, <2>2, <2>4, <2>5, FittingAnswer
<1>4. CASE Head(toR[p]) # "pipe_term"
  <2>1. /\ r'[p] = "free" /\ \A q \in Pipe : q # p => r'[q] = r[q]
        /\ mailbox' = IF r[p] = "req1" THEN Append(mailbox, Command("pipe_term_ack", p)) ELSE mailbox
    BY <1>4 DEF OtherEnd, Shapes
  <2>2. toR[p] = AckOnly
    BY <1>1, <1>2, <1>4, Queues DEF Agree, NoCmd
  <2>3. r[p] = "req1" => l[p] # "free" /\ ~done
    BY <1>2, <2>2, Queues DEF Agree
  <2>4. Agree(l[p], r'[p], toR'[p], term, done \/ r[p] = "req1")
    BY <1>1, <1>2, <2>1, <2>2, Queues DEF Agree
  <2> QED
    BY <1>1, <2>1, <2>3, <2>4, FittingAnswer
<1> QED
  BY <1>3, <1>4

LEMMA FittingOtherStep ==
  ASSUME Shapes, Fitting, OtherStep
  PROVE  Fitting'
<1> USE DEF tableVars, pipeVars
<1>1. ASSUME NEW c \in Child, ProtocolError(c) \/ HandleTerm(c) \/ Finish(c) PROVE Fitting'
  <2>1. \A cmd \in {"term_req", "term_ack"} :
          Command(cmd, c) \in Msg /\ \A p \in Pipe : Command(cmd, c) \notin Cmds(p)
    BY DEF Command, Cmds, Msg
  <2>2. \A p \in Pipe : Quiet(p)
    BY <1>1, <2>1, QuietAppend, QuietSame DEF ProtocolError, HandleTerm, Finish
  <2> QED
    BY <1>1, <2>2, FittingKept DEF ProtocolError, HandleTerm, Finish
<1>2. ASSUME NEW p \in Pipe, NEW o, NewPipe(p, o), mailbox' = Append(mailbox, Command("bind", p)),
             UNCHANGED tableVars
      PROVE  Fitting'
  <2>1. \A q \in Pipe : q # p => Quiet(q)
    BY <1>2, QuietAppend, CmdsDiffer, CmdsOfOne
  <2>2. \A q \in Pipe : q # p => Fit(q)'
    BY <1>2, <2>1, NewPipeOthers, FitKept DEF Fitting
  <2>3. Fit(p)'
    BY <1>2, FitSent DEF Fitting
  <2> QED
    BY <1>2, <2>2, <2>3 DEF Fitting
<1>3. ASSUME NEW c \in Child, NEW p \in Pipe, Attach(c, p) PROVE Fitting'
  BY <1>2, <1>3 DEF Attach
<1>4. ASSUME NEW p \in Pipe, SendBind(p) PROVE Fitting'
  BY <1>2, <1>4 DEF SendBind
<1>5. ASSUME NEW p \in Pipe, Delivered(p) PROVE Fitting'
  <2>1. /\ r[p] = "waiting" /\ r'[p] = "acked" /\ pipes' = pipes /\ inprocs' = inprocs /\ l' = l
        /\ mailbox' = Append(mailbox, Command("pipe_term_ack", p)) /\ toR' = toR
        /\ \A q \in Pipe : q # p => r'[q] = r[q]
    BY <1>5 DEF Delivered, Shapes
  <2>2. Agree(l[p], r[p], toR[p], In(mailbox, Command("pipe_term", p)),
              In(mailbox, Command("pipe_term_ack", p)))
    BY HandshakeAgrees DEF Fitting, Fit
  <2>3. l[p] # "free" /\ ~In(mailbox, Command("pipe_term_ack", p))
    BY <2>1, <2>2 DEF Agree
  <2>4. Agree(l[p], r'[p], toR'[p], In(mailbox, Command("pipe_term", p)),
              In(mailbox, Command("pipe_term_ack", p)) \/ TRUE)
    BY <2>1, <2>2 DEF Agree
  <2> QED
    BY <2>1, <2>3, <2>4, FittingAnswer
<1>6. ASSUME NEW p \in Pipe, Adopt(p) \/ Lose(p) PROVE Fitting'
  <2>1. \A q \in Pipe : Quiet(q)
    BY <1>6, QuietSame DEF Adopt, Lose
  <2> QED
    BY <1>6, <2>1, FittingKept DEF Adopt, Lose
<1>7. CASE Find \/ CtxTerm
  <2>1. Command("stop", None) \in Msg /\ \A p \in Pipe : Command("stop", None) \notin Cmds(p)
    BY DEF Command, Cmds, Msg
  <2>2. \A p \in Pipe : Quiet(p)
    BY <1>7, <2>1, QuietAppend, QuietSame DEF Find, CtxTerm
  <2> QED
    BY <1>7, <2>2, FittingKept DEF Find, CtxTerm
<1> QED
  BY <1>1, <1>3, <1>4, <1>5, <1>6, <1>7, FittingHiccup, FittingTerminateOther, FittingOtherEnd
  DEF OtherStep

LEMMA FittingStep ==
  ASSUME Shapes, Fitting, [Next]_vars
  PROVE  Fitting'
<1>1. CASE StartReaping
  <2>1. Terminate(pipes, FALSE) /\ pipes' = pipes /\ inprocs' = inprocs /\ mailbox' = mailbox
    BY <1>1 DEF StartReaping, tableVars
  <2>2. pipes \subseteq Pipe /\ \A p \in pipes : l[p] # "free"
    BY DEF Shapes, Fitting, Fit, Known
  <2> QED
    BY <2>1, <2>2, QuietSame, FittingTerminate
<1>2. CASE CheckDestroy \/ Freed \/ UNCHANGED vars
  <2>1. /\ mailbox' = mailbox /\ pipes' = pipes /\ inprocs' = inprocs /\ l' = l /\ r' = r /\ toR' = toR
    BY <1>2 DEF CheckDestroy, Freed, vars, tableVars, pipeVars
  <2> QED
    BY <2>1, QuietSame, FittingKept
<1> QED
  BY <1>1, <1>2, FittingCallStep, FittingCommandStep, FittingOtherStep DEF Next

LEMMA FittingInit == Init => Fitting
<1> SUFFICES ASSUME Init PROVE Fitting
  OBVIOUS
<1>1. /\ mailbox = <<>> /\ pipes = {} /\ inprocs = {}
      /\ \A p \in Pipe : l[p] = "free" /\ r[p] = "free" /\ toR[p] = <<>>
  BY DEF Init
<1>2. \A x : ~In(mailbox, x)
  BY <1>1 DEF In
<1>3. ASSUME NEW p \in Pipe PROVE Fit(p)
  <2>1. InOrder(p)
    BY <1>1 DEF InOrder, Comes, Ordered
  <2>2. Known(p) /\ Handshake(p)
    BY <1>1, <1>2 DEF Known, Handshake
  <2> QED
    BY <2>1, <2>2 DEF Fit
<1> QED
  BY <1>1, <1>3 DEF Fitting

LEMMA FittingAlways == Spec => []Fitting
<1>1. Init => Shapes /\ Fitting
  BY ShapesInit, FittingInit
<1>2. Shapes /\ Fitting /\ [Next]_vars => Shapes' /\ Fitting'
  BY ShapesStep, FittingStep
<1> QED
  BY <1>1, <1>2, PTL DEF Spec

\* The ends of every pipe, and the commands between them, agree at every step of the
\* handshake, whoever asks first (socket_base.cpp:1394-1402 and 1559-1576).
THEOREM HandshakesAgree == Spec => []InHandshake
<1>1. Fitting => InHandshake
  BY DEF Fitting, Fit, InHandshake
<1> QED
  BY <1>1, FittingAlways, PTL

\* No command and no call gets to the end of a pipe that was deallocated or that does not
\* expect it, though the tables of endpoints may hold its address
\* (socket_base.cpp:1058-1077 and 1394-1402).
THEOREM NothingUsedAfterFree == Spec => []NoUseAfterFree
<1>1. Fitting => NoUseAfterFree
  BY HandshakeAgrees DEF Fitting, Fit, NoUseAfterFree, Agree
<1> QED
  BY <1>1, FittingAlways, PTL

=============================================================================
