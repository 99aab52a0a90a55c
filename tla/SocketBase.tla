---------------------------- MODULE SocketBase ----------------------------
(***************************************************************************)
(* socket_base_t of the modified libzmq: one socket that is not            *)
(* thread-safe, the sessions and listeners it owns, and the pipes that     *)
(* connect it to them and to other sockets of the process.                 *)
(*                                                                         *)
(* Other threads never touch the socket: they put commands in its mailbox, *)
(* which the application's thread empties inside its calls and, once the   *)
(* socket is closed, the reaper thread does.  A pipe has an end at the     *)
(* socket and one at the other side.  Both are deallocated by a handshake  *)
(* of pipe_term and pipe_term_ack commands, so an end may be gone while    *)
(* the socket's tables still hold its address, and a new one may be        *)
(* allocated there.                                                        *)
(***************************************************************************)
EXTENDS Naturals, Sequences, FiniteSets

CONSTANTS
  Child,          \* the listeners and sessions the socket may launch
  Pipe,           \* the addresses its pipes are allocated at
  Endpoint,       \* the addresses it is told to bind, connect or disconnect
  Inproc,         \* those that begin with inproc://
  SingleConnect,  \* is_single_connect: the socket is a PUB, SUB, REQ or DEALER
  Reads,          \* the socket's type reads; a PUB or PUSH does not (set_nodelay)
  EarlyLinger,    \* linger is set to a finite value as soon as the socket is made
  MaxFound,       \* bound: how many sockets are about to connect to it over inproc
  MaxMailbox,     \* bound: how full the mailbox gets by what others do of their own accord
  None            \* no endpoint, no pipe, nobody

ASSUME SocketAssumption ==
  /\ IsFiniteSet(Child) /\ IsFiniteSet(Pipe)
  /\ Inproc \subseteq Endpoint
  /\ None \notin Child \cup Pipe \cup Endpoint
  /\ "inproc" \notin Child /\ "pending" \notin Child
  /\ SingleConnect \in BOOLEAN /\ Reads \in BOOLEAN /\ EarlyLinger \in BOOLEAN
  /\ MaxFound \in Nat /\ MaxMailbox \in Nat

VARIABLES
  phase,          \* open, closed (on its way to the reaper), reaping, freed
  call,           \* the call the application's thread is in, if any
  mailbox,        \* the commands that were sent to the socket and its pipe ends
  ctxTerminated,  \* ctx_terminated
  stopped,        \* zmq_ctx_term has sent the stop command
  immediate,      \* options.immediate = 1
  linger,         \* options.linger: infinite or finite
  bound,          \* the listeners whose copy of the options has an infinite linger
  patient,        \* the children that were told to go with an infinite linger
  sent,           \* the pipes that something was sent through which may have to be kept
  lost,           \* those of accepted connections that were lost before it went out,
                  \* and whose session was told by such a listener to keep it
  terminating, destroyed, termAcks, owned,  \* as in own_t
  unseen,         \* sent_seqnum - processed_seqnum
  pipes,          \* the attached pipes
  endpoints,      \* what was bound and connected: an address, a child and a pipe
  inprocs,        \* the connections over inproc: an address and a pipe
  registered,     \* the inproc addresses the context knows the socket by
  found,          \* sockets that found it there and have not sent it their pipe
  state, kind,    \* of a child
  l, r,           \* the state of a pipe's end at the socket and of its other end:
                  \* active, waiting for the delimiter, termination requested (and
                  \* confirmed, req2), acknowledged, free; corrupt is a use of an
                  \* end that is free, or a failed assertion of pipe_t
  toR,            \* the commands sent to the other end
  owner           \* whose the other end is: a child's, or another socket's

appVars   == <<phase, call>>
ctxVars   == <<ctxTerminated, stopped>>
optVars   == <<immediate, linger, bound, patient, sent, lost>>
ownVars   == <<terminating, destroyed, termAcks, owned, unseen>>
tableVars == <<pipes, endpoints, inprocs>>
nameVars  == <<registered, found>>
childVars == <<state, kind>>
pipeVars  == <<l, r, toR, owner>>
vars == <<appVars, mailbox, ctxVars, optVars, ownVars, tableVars, nameVars, childVars,
          pipeVars>>

Entry == [endpoint : Endpoint, child : Child, pipe : Pipe \cup {None}]
Idle  == [op |-> "none", of |-> None, ready |-> FALSE]

\* A command of the mailbox and the child or the pipe that sends it or that it is about.
Command(cmd, x) == [cmd |-> cmd, of |-> x]

Init ==
  /\ phase = "open" /\ call = Idle /\ mailbox = <<>>
  /\ ctxTerminated = FALSE /\ stopped = FALSE
  /\ immediate = FALSE /\ linger = IF EarlyLinger THEN "finite" ELSE "infinite"
  /\ bound = {} /\ patient = {} /\ sent = {} /\ lost = {}
  /\ terminating = FALSE /\ destroyed = FALSE /\ termAcks = 0 /\ owned = {} /\ unseen = 0
  /\ pipes = {} /\ endpoints = {} /\ inprocs = {} /\ registered = {} /\ found = 0
  /\ state = [c \in Child |-> "none"] /\ kind = [c \in Child |-> "none"]
  /\ l = [p \in Pipe |-> "free"] /\ r = [p \in Pipe |-> "free"]
  /\ toR = [p \in Pipe |-> <<>>] /\ owner = [p \in Pipe |-> None]

-----------------------------------------------------------------------------
(***************************************************************************)
(* Parts of calls.                                                         *)
(***************************************************************************)

\* pipepair: both ends of a new pipe, whose other end is o's.
NewPipe(p, o) ==
  /\ l[p] = "free" /\ r[p] = "free"
  /\ l' = [l EXCEPT ![p] = "active"] /\ r' = [r EXCEPT ![p] = "active"]
  /\ owner' = [owner EXCEPT ![p] = o]
  /\ UNCHANGED toR

\* Mutant of Terminate: an end that waits for the delimiter asks again.
TerminateAgain(P, delay) ==
  LET asked == {p \in P : l[p] \in {"active", "waiting"}} IN
  /\ l' = [p \in Pipe |-> IF p \in asked THEN "req1" ELSE l[p]]
  /\ toR' = [p \in Pipe |-> IF p \in asked THEN Append(toR[p], "pipe_term") ELSE toR[p]]
  /\ UNCHANGED <<r, owner>>

\* pipe_t::terminate of the socket's ends in P.  That of one that is not there is a use
\* after free.
Terminate(P, delay) ==
  LET asked == {p \in P : l[p] = "active"}
      cut   == {p \in P : l[p] = "waiting" /\ ~delay}
  IN  /\ l' = [p \in Pipe |-> CASE p \in asked -> "req1"
                                [] p \in cut -> "acked"
                                [] p \in P /\ l[p] = "free" -> "corrupt"
                                [] OTHER -> l[p]]
      /\ toR' = [p \in Pipe |-> CASE p \in asked -> Append(toR[p], "pipe_term")
                                  [] p \in cut -> Append(toR[p], "pipe_term_ack")
                                  [] OTHER -> toR[p]]
      /\ UNCHANGED <<r, owner>>

\* own_t::check_term_acks.
CheckTermAcks == destroyed' = (destroyed \/ (terminating' /\ unseen' = 0 /\ termAcks' = 0))

\* launch_child and the entry of add_endpoint.
AddEndpoint(e, c, k, p) ==
  /\ state[c] = "none"
  /\ state' = [state EXCEPT ![c] = "running"] /\ kind' = [kind EXCEPT ![c] = k]
  /\ mailbox' = Append(mailbox, Command("own", c)) /\ unseen' = unseen + 1
  /\ endpoints' = endpoints \cup {[endpoint |-> e, child |-> c, pipe |-> p]}
  /\ bound' = IF k = "listener" /\ linger = "infinite" THEN bound \cup {c} ELSE bound
  /\ UNCHANGED <<immediate, linger, patient, sent, lost, terminating, destroyed, termAcks, owned>>

\* The term command that the children in C get has the linger of this moment.
SendTerm(C) ==
  /\ patient' = IF linger = "infinite" THEN patient \cup C ELSE patient
  /\ UNCHANGED <<immediate, linger, bound, sent, lost>>

\* own_t::process_term_req of the children in C, from which those the socket does
\* not own are left out.
TermChildren(C) ==
  LET mine == C \cap owned IN
  IF terminating THEN UNCHANGED <<owned, termAcks, state, optVars>>
  ELSE /\ owned' = owned \ mine
       /\ termAcks' = termAcks + Cardinality(mine)
       /\ state' = [c \in Child |-> IF c \in mine THEN "told" ELSE state[c]]
       /\ SendTerm(mine)

-----------------------------------------------------------------------------
(***************************************************************************)
(* Calls of the application's thread.  A call first empties the mailbox,   *)
(* unless it is throttled, and then does its work.                         *)
(***************************************************************************)

EndpointCall == {"bind", "connect", "disconnect"}
OtherCall    == {"recv", "poll"}

\* Mutant of Call: term_endpoint does not process commands first.
CallDisconnectAtOnce(op, e) ==
  /\ phase = "open" /\ call = Idle /\ ~ctxTerminated
  /\ op \in EndpointCall <=> e # None
  /\ \E ready \in IF op \in {"recv", "disconnect"} THEN BOOLEAN ELSE {FALSE} :
       call' = [op |-> op, of |-> e, ready |-> ready]
  /\ UNCHANGED <<phase, mailbox, ctxVars, optVars, ownVars, tableVars, nameVars, childVars,
                 pipeVars>>

\* Mutant of Call: ZMQ_EVENTS is throttled like a send.
CallThrottled(op, e) ==
  /\ phase = "open" /\ call = Idle /\ ~ctxTerminated
  /\ op \in EndpointCall <=> e # None
  /\ \E ready \in IF op \in OtherCall THEN BOOLEAN ELSE {FALSE} :
       call' = [op |-> op, of |-> e, ready |-> ready]
  /\ UNCHANGED <<phase, mailbox, ctxVars, optVars, ownVars, tableVars, nameVars, childVars,
                 pipeVars>>

\* A call finds that the context is there.  "recv" stands for send, too, which does not
\* read, and "poll" is getsockopt of ZMQ_EVENTS, which zmq_poll calls.
Call(op, e) ==
  /\ phase = "open" /\ call = Idle /\ ~ctxTerminated
  /\ op \in EndpointCall <=> e # None
  /\ \E ready \in IF op = "recv" THEN BOOLEAN ELSE {FALSE} :
       call' = [op |-> op, of |-> e, ready |-> ready]
  /\ UNCHANGED <<phase, mailbox, ctxVars, optVars, ownVars, tableVars, nameVars, childVars,
                 pipeVars>>

\* process_commands finds the mailbox empty, and that the context is still there or not.
Drained ==
  /\ phase = "open" /\ call # Idle /\ ~call.ready /\ mailbox = <<>>
  /\ call' = IF ctxTerminated THEN Idle ELSE [call EXCEPT !.ready = TRUE]
  /\ UNCHANGED <<phase, mailbox, ctxVars, optVars, ownVars, tableVars, nameVars, childVars,
                 pipeVars>>

Ready(op, e) == phase = "open" /\ call = [op |-> op, of |-> e, ready |-> TRUE]
Return == call' = Idle /\ UNCHANGED phase

\* The call fails before it has done anything: the address is malformed or in use, its
\* protocol does not suit the socket, or there is nothing to disconnect.
Refuse ==
  /\ phase = "open" /\ call.ready /\ call.op \in EndpointCall /\ Return
  /\ UNCHANGED <<mailbox, ctxVars, optVars, ownVars, tableVars, nameVars, childVars, pipeVars>>

\* bind of an address that is not inproc starts a listener.
BindListener(e) ==
  /\ Ready("bind", e) /\ e \notin Inproc /\ Return
  /\ \E c \in Child : AddEndpoint(e, c, "listener", None)
  /\ UNCHANGED <<ctxVars, pipes, inprocs, nameVars, pipeVars>>

\* bind of an inproc address, and with it (connect_pending) of the sockets that wait for
\* it: their pipes P, of which they have begun to terminate those in W.  A socket that
\* binds what it connects to itself is not modelled.
BindInproc(e) ==
  /\ Ready("bind", e) /\ e \in Inproc \ registered /\ Return
  /\ \A p \in Pipe : <<e, p>> \in inprocs => owner[p] # "pending"
  /\ registered' = registered \cup {e}
  /\ \E P \in SUBSET {p \in Pipe : l[p] = "free" /\ r[p] = "free"} : \E W \in SUBSET P :
       /\ l' = [p \in Pipe |-> IF p \in W THEN "waiting" ELSE IF p \in P THEN "active" ELSE l[p]]
       /\ r' = [p \in Pipe |-> IF p \in W THEN "req1" ELSE IF p \in P THEN "active" ELSE r[p]]
       /\ owner' = [p \in Pipe |-> IF p \in P THEN "inproc" ELSE owner[p]]
       /\ pipes' = pipes \cup P /\ UNCHANGED toR
  /\ UNCHANGED <<mailbox, ctxVars, optVars, ownVars, endpoints, inprocs, found, childVars>>

\* connect to an inproc address, of a socket that has bound it or is yet to come.
ConnectInproc(e) ==
  /\ Ready("connect", e) /\ e \in Inproc \ registered /\ Return
  /\ \E p \in Pipe :
       /\ NewPipe(p, "inproc") \/ NewPipe(p, "pending")
       /\ pipes' = pipes \cup {p} /\ inprocs' = inprocs \cup {<<e, p>>}
  /\ UNCHANGED <<mailbox, ctxVars, optVars, ownVars, endpoints, nameVars, childVars>>

Connected(e) == \E x \in endpoints : x.endpoint = e

\* connect to an address that a socket of this type is connected to already.
ConnectAgain(e) ==
  /\ Ready("connect", e) /\ e \notin Inproc /\ Return
  /\ SingleConnect /\ Connected(e)
  /\ UNCHANGED <<mailbox, ctxVars, optVars, ownVars, tableVars, nameVars, childVars, pipeVars>>

\* connect to another address that is not inproc: a session, and a pipe to it unless the
\* pipe is to wait for the connection.
ConnectSession(e) ==
  /\ Ready("connect", e) /\ e \notin Inproc /\ Return
  /\ ~(SingleConnect /\ Connected(e))
  /\ \E c \in Child :
       IF immediate THEN AddEndpoint(e, c, "lazy", None) /\ UNCHANGED <<pipes, pipeVars>>
       ELSE \E p \in Pipe : /\ AddEndpoint(e, c, "eager", p)
                            /\ NewPipe(p, c) /\ pipes' = pipes \cup {p}
  /\ UNCHANGED <<ctxVars, inprocs, nameVars>>

\* term_endpoint of an inproc address.
DisconnectInproc(e) ==
  /\ Ready("disconnect", e) /\ e \in Inproc /\ Return
  /\ IF e \in registered
       THEN registered' = registered \ {e} /\ UNCHANGED <<inprocs, pipeVars>>
       ELSE /\ Terminate({p \in Pipe : <<e, p>> \in inprocs}, TRUE)
            /\ inprocs' = {x \in inprocs : x[1] # e}
            /\ UNCHANGED registered
  /\ UNCHANGED <<mailbox, ctxVars, optVars, ownVars, pipes, endpoints, found, childVars>>

\* Mutant of Disconnect: the pipes are terminated without looking for them first, as
\* in the unmodified libzmq.
DisconnectUnchecked(e) ==
  LET mine == {x \in endpoints : x.endpoint = e} IN
  /\ Ready("disconnect", e) /\ e \notin Inproc /\ Return
  /\ Terminate({x.pipe : x \in mine} \ {None}, FALSE)
  /\ TermChildren({x.child : x \in mine})
  /\ endpoints' = endpoints \ mine
  /\ UNCHANGED <<mailbox, ctxVars, terminating, destroyed, unseen, pipes, inprocs, nameVars,
                 kind>>

\* term_endpoint of another address: its pipes, if they are there, and its children.
Disconnect(e) ==
  LET mine == {x \in endpoints : x.endpoint = e} IN
  /\ Ready("disconnect", e) /\ e \notin Inproc /\ Return
  /\ Terminate({x.pipe : x \in mine} \cap pipes, FALSE)
  /\ TermChildren({x.child : x \in mine})
  /\ endpoints' = endpoints \ mine
  /\ UNCHANGED <<mailbox, ctxVars, terminating, destroyed, unseen, pipes, inprocs, nameVars,
                 kind>>

\* xrecv, or has_in in getsockopt of ZMQ_EVENTS, comes to the delimiter that ends what the
\* other side of a pipe has sent.
ReadDelimiter(p) ==
  /\ Reads /\ (Ready("recv", None) \/ Ready("poll", None)) /\ p \in pipes /\ l[p] = "waiting"
  /\ l' = [l EXCEPT ![p] = "acked"] /\ toR' = [toR EXCEPT ![p] = Append(@, "pipe_term_ack")]
  /\ UNCHANGED <<appVars, mailbox, ctxVars, optVars, ownVars, tableVars, nameVars, childVars,
                 r, owner>>

\* send and recv go on as long as they can do nothing and may wait.
TryAgain ==
  /\ phase = "open" /\ call.ready /\ call.op = "recv"
  /\ call' = [call EXCEPT !.ready = FALSE]
  /\ UNCHANGED <<phase, mailbox, ctxVars, optVars, ownVars, tableVars, nameVars, childVars,
                 pipeVars>>

\* send, recv and getsockopt are done.  A message goes into some of the pipes; of those to
\* another socket, or with a linger that is bound to be finite, that need not be noted.
Done ==
  /\ phase = "open" /\ call.ready /\ call.op \notin EndpointCall /\ Return
  /\ \E P \in SUBSET {p \in pipes : l[p] = "active" /\ owner[p] \in Child
                                    /\ (linger = "infinite" \/ owner[p] \in bound)} :
       /\ call.op = "poll" => P = {}
       /\ sent' = sent \cup P
  /\ UNCHANGED <<mailbox, ctxVars, immediate, linger, bound, patient, lost, ownVars, tableVars,
                 nameVars, childVars, pipeVars>>

\* setsockopt of ZMQ_IMMEDIATE.
SetImmediate ==
  /\ phase = "open" /\ call = Idle /\ ~ctxTerminated /\ ~immediate
  /\ immediate' = TRUE
  /\ UNCHANGED <<appVars, mailbox, ctxVars, linger, bound, patient, sent, lost, ownVars, tableVars,
                 nameVars, childVars, pipeVars>>

\* setsockopt of ZMQ_LINGER.
SetLinger ==
  /\ phase = "open" /\ call = Idle /\ ~ctxTerminated /\ linger = "infinite"
  /\ linger' = "finite"
  /\ UNCHANGED <<appVars, mailbox, ctxVars, immediate, bound, patient, sent, lost, ownVars,
                 tableVars, nameVars, childVars, pipeVars>>

\* close sends the socket to the reaper.
Close ==
  /\ phase = "open" /\ call = Idle
  /\ phase' = "closed"
  /\ UNCHANGED <<call, mailbox, ctxVars, optVars, ownVars, tableVars, nameVars, childVars,
                 pipeVars>>

-----------------------------------------------------------------------------
(***************************************************************************)
(* The reaper.                                                             *)
(***************************************************************************)

\* Mutant of StartReaping: the socket stays registered with the context.
StartReapingRegistered ==
  /\ phase = "closed" /\ phase' = "reaping"
  /\ Terminate(pipes, FALSE)
  /\ state' = [c \in Child |-> IF c \in owned THEN "told" ELSE state[c]]
  /\ termAcks' = termAcks + Cardinality(pipes) + Cardinality(owned)
  /\ owned' = {} /\ terminating' = TRUE /\ UNCHANGED unseen
  /\ SendTerm(owned) /\ CheckTermAcks
  /\ UNCHANGED <<call, mailbox, ctxVars, tableVars, nameVars, kind>>

\* start_reaping, with process_term of socket_base_t and own_t.
StartReaping ==
  /\ phase = "closed" /\ phase' = "reaping"
  /\ registered' = {}
  /\ Terminate(pipes, FALSE)
  /\ state' = [c \in Child |-> IF c \in owned THEN "told" ELSE state[c]]
  /\ termAcks' = termAcks + Cardinality(pipes) + Cardinality(owned)
  /\ owned' = {} /\ terminating' = TRUE /\ UNCHANGED unseen
  /\ SendTerm(owned) /\ CheckTermAcks
  /\ UNCHANGED <<call, mailbox, ctxVars, tableVars, found, kind>>

\* check_destroy, after process_term or when process_commands returns.
CheckDestroy ==
  /\ phase = "reaping" /\ destroyed
  /\ phase' = "freed"
  /\ UNCHANGED <<call, mailbox, ctxVars, optVars, ownVars, tableVars, nameVars, childVars,
                 pipeVars>>

-----------------------------------------------------------------------------
(***************************************************************************)
(* process_commands, command by command, in a call or in the reaper's      *)
(* in_event.                                                               *)
(***************************************************************************)

Processing == phase = "reaping" \/ (phase = "open" /\ call # Idle /\ ~call.ready)

Receive(cmd, x) ==
  /\ Processing /\ mailbox # <<>> /\ Head(mailbox) = Command(cmd, x)
  /\ mailbox' = Tail(mailbox)

\* Mutant of ProcessOwn: a child that comes too late is not told to go.
ProcessOwnLate(c) ==
  /\ Receive("own", c)
  /\ IF terminating THEN termAcks' = termAcks + 1 /\ UNCHANGED owned
                    ELSE owned' = owned \cup {c} /\ UNCHANGED termAcks
  /\ unseen' = unseen - 1 /\ UNCHANGED terminating
  /\ CheckTermAcks
  /\ UNCHANGED <<appVars, ctxVars, optVars, tableVars, nameVars, childVars, pipeVars>>

\* process_own and process_seqnum.  A child that comes too late is told to go with a
\* linger of 0.
ProcessOwn(c) ==
  /\ Receive("own", c)
  /\ IF terminating
       THEN /\ termAcks' = termAcks + 1 /\ state' = [state EXCEPT ![c] = "told"]
            /\ UNCHANGED owned
       ELSE owned' = owned \cup {c} /\ UNCHANGED <<termAcks, state>>
  /\ unseen' = unseen - 1 /\ UNCHANGED terminating
  /\ CheckTermAcks
  /\ UNCHANGED <<appVars, ctxVars, optVars, tableVars, nameVars, kind, pipeVars>>

\* Mutant of ProcessBind: attach_pipe does not ask whether the socket is being closed.
ProcessBindLate(p) ==
  /\ Receive("bind", p)
  /\ pipes' = pipes \cup {p}
  /\ unseen' = unseen - 1 /\ UNCHANGED <<terminating, termAcks, owned>>
  /\ CheckTermAcks
  /\ UNCHANGED <<appVars, ctxVars, optVars, endpoints, inprocs, nameVars, childVars, pipeVars>>

\* process_bind, attach_pipe and process_seqnum.
ProcessBind(p) ==
  /\ Receive("bind", p)
  /\ pipes' = pipes \cup {p}
  /\ IF terminating THEN termAcks' = termAcks + 1 /\ Terminate({p}, FALSE)
                    ELSE UNCHANGED <<termAcks, pipeVars>>
  /\ unseen' = unseen - 1 /\ UNCHANGED <<terminating, owned>>
  /\ CheckTermAcks
  /\ UNCHANGED <<appVars, ctxVars, optVars, endpoints, inprocs, nameVars, childVars>>

\* process_term_req: a child wants to go.
ProcessTermReq(c) ==
  /\ Receive("term_req", c)
  /\ TermChildren({c})
  /\ UNCHANGED <<appVars, ctxVars, terminating, destroyed, unseen, tableVars, nameVars, kind,
                 pipeVars>>

\* process_term_ack: a child is gone.
ProcessTermAck(c) ==
  /\ Receive("term_ack", c)
  /\ termAcks' = termAcks - 1 /\ state' = [state EXCEPT ![c] = "gone"]
  /\ UNCHANGED <<terminating, owned, unseen>>
  /\ CheckTermAcks
  /\ UNCHANGED <<appVars, ctxVars, optVars, tableVars, nameVars, kind, pipeVars>>

\* process_pipe_term of the socket's end.  It waits for what the other side has sent to be
\* read, unless there is nothing or the socket's type never reads.
ProcessPipeTerm(p) ==
  /\ Receive("pipe_term", p)
  /\ \E next \in CASE l[p] = "active" -> (IF Reads THEN {"waiting"} ELSE {}) \cup {"acked"}
                    [] l[p] = "req1" -> {"req2"}
                    [] OTHER -> {"corrupt"} :
       /\ l' = [l EXCEPT ![p] = next]
       /\ toR' = IF next = "waiting" THEN toR
                 ELSE [toR EXCEPT ![p] = Append(@, "pipe_term_ack")]
  /\ UNCHANGED <<appVars, ctxVars, optVars, ownVars, tableVars, nameVars, childVars, r, owner>>

\* Mutant of ProcessPipeTermAck: pipe_terminated does not ask whether the socket is being
\* closed.
ProcessPipeTermAckAlways(p) ==
  /\ Receive("pipe_term_ack", p)
  /\ pipes' = pipes \ {p}
  /\ inprocs' = {x \in inprocs : x[2] # p}
  /\ termAcks' = termAcks - 1
  /\ l' = [l EXCEPT ![p] = "free"]
  /\ toR' = IF l[p] = "req1" THEN [toR EXCEPT ![p] = Append(@, "pipe_term_ack")] ELSE toR
  /\ UNCHANGED <<terminating, owned, unseen>>
  /\ CheckTermAcks
  /\ UNCHANGED <<appVars, ctxVars, optVars, endpoints, nameVars, childVars, r, owner>>

\* process_pipe_term_ack and pipe_terminated: the end is deallocated.
ProcessPipeTermAck(p) ==
  /\ Receive("pipe_term_ack", p)
  /\ pipes' = pipes \ {p}
  /\ inprocs' = {x \in inprocs : x[2] # p}
  /\ termAcks' = IF terminating THEN termAcks - 1 ELSE termAcks
  /\ l' = [l EXCEPT ![p] = IF @ \in {"req1", "req2", "acked"} THEN "free" ELSE "corrupt"]
  /\ toR' = IF l[p] = "req1" THEN [toR EXCEPT ![p] = Append(@, "pipe_term_ack")] ELSE toR
  /\ UNCHANGED <<terminating, owned, unseen>>
  /\ IF terminating THEN CheckTermAcks ELSE UNCHANGED destroyed
  /\ UNCHANGED <<appVars, ctxVars, optVars, endpoints, nameVars, childVars, r, owner>>

\* process_hiccup and hiccuped.  An end that has acknowledged has nothing to write to.
ProcessHiccup(p) ==
  /\ Receive("hiccup", p)
  /\ IF l[p] \in {"free", "acked", "req2"}
       THEN l' = [l EXCEPT ![p] = "corrupt"] /\ UNCHANGED <<r, toR, owner>>
       ELSE IF l[p] = "active" /\ immediate THEN Terminate({p}, FALSE)
       ELSE UNCHANGED pipeVars
  /\ UNCHANGED <<appVars, ctxVars, optVars, ownVars, tableVars, nameVars, childVars>>

\* process_stop.
ProcessStop ==
  /\ Receive("stop", None)
  /\ ctxTerminated' = TRUE
  /\ UNCHANGED <<appVars, stopped, optVars, ownVars, tableVars, nameVars, childVars, pipeVars>>

-----------------------------------------------------------------------------
(***************************************************************************)
(* The other threads: sessions and listeners in the I/O threads, sockets   *)
(* that are connected over inproc, and zmq_ctx_term.                       *)
(***************************************************************************)

\* Bound.
Room == Len(mailbox) < MaxMailbox

Mine(c) == {p \in Pipe : owner[p] = c}

Ending(p) == owner[p] \in Child /\ state[owner[p]] = "ending"

\* A session has a connection and no pipe, or a listener accepts a connection.
Attach(c, p) ==
  /\ Room
  /\ state[c] \in {"running", "asking", "told"}
  /\ kind[c] = "listener" \/ \A q \in Mine(c) : r[q] \in {"req1", "req2"}
  /\ NewPipe(p, c)
  /\ mailbox' = Append(mailbox, Command("bind", p)) /\ unseen' = unseen + 1
  /\ UNCHANGED <<appVars, ctxVars, optVars, terminating, destroyed, termAcks, owned, tableVars,
                 nameVars, childVars>>

\* A session's peer breaks the protocol: the session asks to be terminated.
ProtocolError(c) ==
  /\ Room
  /\ state[c] = "running" /\ kind[c] # "listener"
  /\ state' = [state EXCEPT ![c] = "asking"]
  /\ mailbox' = Append(mailbox, Command("term_req", c))
  /\ UNCHANGED <<appVars, ctxVars, optVars, ownVars, tableVars, nameVars, kind, pipeVars>>

\* A session has lost its connection, and tells the socket to subscribe again.
Hiccup(p) ==
  /\ owner[p] \in Child /\ kind[owner[p]] = "eager" /\ r[p] = "active"
  /\ Room
  /\ mailbox' = Append(mailbox, Command("hiccup", p))
  /\ UNCHANGED <<appVars, ctxVars, optVars, ownVars, tableVars, nameVars, childVars, pipeVars>>

\* The other end of a pipe is terminated: by another socket, because an accepted
\* connection is lost, because the session of a lost connection had it wait for
\* that, or because its owner was told to go.
TerminateOther(p) ==
  /\ owner[p] \notin {None, "pending"}
  /\ Ending(p) \/ (Room /\ (owner[p] \in Child => kind[owner[p]] # "eager"))
  /\ r[p] = "active"
  /\ r' = [r EXCEPT ![p] = "req1"]
  /\ LET retry == owner[p] \in Child /\ kind[owner[p]] = "lazy" /\ ~Ending(p) IN
     mailbox' = mailbox \o (IF retry THEN <<Command("hiccup", p)>> ELSE <<>>)
                        \o <<Command("pipe_term", p)>>
  /\ UNCHANGED <<appVars, ctxVars, optVars, ownVars, tableVars, nameVars, childVars, l, toR,
                 owner>>

\* An accepted connection is lost while its session has yet to send what the socket sent.
\* The listener tells the session to go with the linger that it was bound with, and
\* does not own it any more when it is told to go itself.
Lose(p) ==
  /\ r[p] = "waiting" /\ p \in sent \ lost
  /\ owner[p] \in bound /\ state[owner[p]] \in {"running", "told"}
  /\ lost' = lost \cup {p}
  /\ UNCHANGED <<appVars, mailbox, ctxVars, immediate, linger, bound, patient, sent, ownVars,
                 tableVars, nameVars, childVars, pipeVars>>

\* The other end has got all that the socket sent, or drops it.
Delivered(p) ==
  /\ r[p] = "waiting" /\ p \notin lost
  /\ r' = [r EXCEPT ![p] = "acked"] /\ mailbox' = Append(mailbox, Command("pipe_term_ack", p))
  /\ UNCHANGED <<appVars, ctxVars, optVars, ownVars, tableVars, nameVars, childVars, l, toR,
                 owner>>

\* The other end processes a command.
OtherEnd(p) ==
  /\ toR[p] # <<>> /\ owner[p] # "pending"
  /\ toR' = [toR EXCEPT ![p] = Tail(@)]
  /\ IF Head(toR[p]) = "pipe_term"
       THEN /\ \E next \in IF r[p] = "active" THEN {"waiting", "acked"} ELSE {"req2"} :
                 /\ r' = [r EXCEPT ![p] = next]
                 /\ mailbox' = IF next = "waiting" THEN mailbox
                               ELSE Append(mailbox, Command("pipe_term_ack", p))
            /\ UNCHANGED <<owner, sent>>
       ELSE /\ r' = [r EXCEPT ![p] = "free"] /\ owner' = [owner EXCEPT ![p] = None]
            /\ sent' = sent \ {p}
            /\ mailbox' = IF r[p] = "req1" THEN Append(mailbox, Command("pipe_term_ack", p))
                          ELSE mailbox
  /\ UNCHANGED <<appVars, ctxVars, immediate, linger, bound, patient, lost, ownVars, tableVars,
                 nameVars, childVars, l>>

\* The child processes the term command.
HandleTerm(c) ==
  /\ state[c] = "told"
  /\ state' = [state EXCEPT ![c] = "ending"]
  /\ UNCHANGED <<appVars, mailbox, ctxVars, optVars, ownVars, tableVars, nameVars, kind,
                 pipeVars>>

\* The child has no pipes any more and says that it is gone.
Finish(c) ==
  /\ state[c] = "ending" /\ Mine(c) = {}
  /\ state' = [state EXCEPT ![c] = "acked"]
  /\ mailbox' = Append(mailbox, Command("term_ack", c))
  /\ UNCHANGED <<appVars, ctxVars, optVars, ownVars, tableVars, nameVars, kind, pipeVars>>

\* Another socket, in connect, has found this one (find_endpoint).
Find ==
  /\ Room
  /\ registered # {} /\ found < MaxFound
  /\ found' = found + 1 /\ unseen' = unseen + 1
  /\ UNCHANGED <<appVars, mailbox, ctxVars, optVars, terminating, destroyed, termAcks, owned,
                 tableVars, registered, childVars, pipeVars>>

\* It has made the pipe and sends one end of it (send_bind).
SendBind(p) ==
  /\ found > 0 /\ found' = found - 1
  /\ NewPipe(p, "inproc")
  /\ mailbox' = Append(mailbox, Command("bind", p))
  /\ UNCHANGED <<appVars, ctxVars, optVars, ownVars, tableVars, registered, childVars>>

\* Somebody binds the address that a pipe waits for.
Adopt(p) ==
  /\ owner[p] = "pending"
  /\ owner' = [owner EXCEPT ![p] = "inproc"]
  /\ UNCHANGED <<appVars, mailbox, ctxVars, optVars, ownVars, tableVars, nameVars, childVars,
                 l, r, toR>>

\* zmq_ctx_term tells every socket.
CtxTerm ==
  /\ Room
  /\ ~stopped /\ phase # "freed"
  /\ stopped' = TRUE /\ mailbox' = Append(mailbox, Command("stop", None))
  /\ UNCHANGED <<appVars, ctxTerminated, optVars, ownVars, tableVars, nameVars, childVars,
                 pipeVars>>

Freed == phase = "freed" /\ UNCHANGED vars

-----------------------------------------------------------------------------

CallStep ==
  \/ \E op \in EndpointCall \cup OtherCall, e \in Endpoint \cup {None} : Call(op, e)
  \/ Drained \/ Refuse \/ TryAgain \/ Done \/ SetImmediate \/ SetLinger \/ Close
  \/ \E e \in Endpoint : \/ BindListener(e) \/ BindInproc(e)
                         \/ ConnectInproc(e) \/ ConnectAgain(e) \/ ConnectSession(e)
                         \/ DisconnectInproc(e) \/ Disconnect(e)
  \/ \E p \in Pipe : ReadDelimiter(p)

CommandStep ==
  \/ \E c \in Child : ProcessOwn(c) \/ ProcessTermReq(c) \/ ProcessTermAck(c)
  \/ \E p \in Pipe : \/ ProcessBind(p) \/ ProcessPipeTerm(p) \/ ProcessPipeTermAck(p)
                     \/ ProcessHiccup(p)
  \/ ProcessStop

OtherStep ==
  \/ \E c \in Child : \/ ProtocolError(c) \/ HandleTerm(c) \/ Finish(c)
                      \/ \E p \in Pipe : Attach(c, p)
  \/ \E p \in Pipe : \/ Hiccup(p) \/ TerminateOther(p) \/ Lose(p) \/ Delivered(p) \/ OtherEnd(p)
                     \/ SendBind(p) \/ Adopt(p)
  \/ Find \/ CtxTerm

Next == CallStep \/ StartReaping \/ CheckDestroy \/ CommandStep \/ OtherStep \/ Freed

\* What a call does when process_commands has returned.
Body ==
  \/ Refuse \/ TryAgain \/ Done
  \/ \E e \in Endpoint : \/ BindListener(e) \/ BindInproc(e)
                         \/ ConnectInproc(e) \/ ConnectAgain(e) \/ ConnectSession(e)
                         \/ DisconnectInproc(e) \/ Disconnect(e)

\* What the socket has sent through p is sent on or waited for, without a limit: the
\* session was told so.
Kept(p) == r[p] = "waiting" /\ p \in sent /\ (p \in lost \/ owner[p] \in patient)

\* The other end comes to the end of what the socket has sent, or drops it: a session that
\* was told to go when its linger is over, another socket when its application, too,
\* closes its sockets because the context is terminated.
Linger(p) ==
  /\ ~Kept(p) /\ (owner[p] \in Child => Ending(p)) /\ (owner[p] = "inproc" => stopped)
  /\ Delivered(p)

\* Threads are scheduled, and zmq_ctx_term binds what is still waited for.
Fairness ==
  /\ WF_vars(Drained) /\ WF_vars(Body) /\ WF_vars(CommandStep)
  /\ WF_vars(StartReaping) /\ WF_vars(CheckDestroy)
  /\ \A c \in Child : WF_vars(HandleTerm(c)) /\ WF_vars(Finish(c))
  /\ \A p \in Pipe : /\ WF_vars(Ending(p) /\ TerminateOther(p))
                     /\ WF_vars(Linger(p)) /\ WF_vars(OtherEnd(p)) /\ WF_vars(SendBind(p))
                     /\ WF_vars(stopped /\ Adopt(p))

Spec == Init /\ [][Next]_vars
FairSpec == Spec /\ Fairness

-----------------------------------------------------------------------------

EndState == {"free", "active", "waiting", "req1", "req2", "acked", "corrupt"}

Msg ==
  [cmd : {"own", "term_req", "term_ack"}, of : Child]
    \cup [cmd : {"bind", "pipe_term", "pipe_term_ack", "hiccup"}, of : Pipe]
    \cup {Command("stop", None)}

Shapes ==
  /\ phase \in {"open", "closed", "reaping", "freed"}
  /\ call \in [op : EndpointCall \cup OtherCall \cup {"none"}, of : Endpoint \cup {None},
               ready : BOOLEAN]
  /\ mailbox \in Seq(Msg)
  /\ ctxTerminated \in BOOLEAN /\ stopped \in BOOLEAN /\ immediate \in BOOLEAN
  /\ linger \in {"infinite", "finite"}
  /\ bound \subseteq Child /\ patient \subseteq Child
  /\ sent \subseteq Pipe /\ lost \subseteq Pipe
  /\ terminating \in BOOLEAN /\ destroyed \in BOOLEAN
  /\ owned \subseteq Child /\ pipes \subseteq Pipe
  /\ endpoints \subseteq Entry /\ inprocs \subseteq Endpoint \X Pipe
  /\ registered \subseteq Endpoint /\ found \in Nat
  /\ state \in [Child -> {"none", "running", "asking", "told", "ending", "acked", "gone"}]
  /\ kind \in [Child -> {"none", "listener", "eager", "lazy"}]
  /\ l \in [Pipe -> EndState] /\ r \in [Pipe -> EndState]
  /\ toR \in [Pipe -> Seq({"pipe_term", "pipe_term_ack"})]
  /\ owner \in [Pipe -> Child \cup {None, "inproc", "pending"}]

\* The sets the variables range over.  The two counters are differences and never
\* negative, as own_t asserts of the first.
TypeOK == Shapes /\ termAcks \in Nat /\ unseen \in Nat

\* destroyed is set only when there is nothing left that could still come to
\* the mailbox of a socket that is about to be deallocated, but for the stop
\* command: every child and every pipe end is gone, and no other socket still has
\* to send its pipe (socket_base.cpp:1394-1408 and 1522-1538).
NothingLeft ==
  destroyed =>
    /\ pipes = {} /\ owned = {} /\ registered = {} /\ found = 0
    /\ \A c \in Child : state[c] \in {"none", "gone"}
    /\ \A p \in Pipe : l[p] = "free" /\ r[p] \in {"free", "req2", "acked"}
    /\ \A i \in 1 .. Len(mailbox) : mailbox[i].cmd = "stop"

\* No command and no call gets to the end of a pipe that was deallocated, or that
\* does not expect it (socket_base.cpp:1058-1077 and 1394-1402).
NoUseAfterFree == \A p \in Pipe : l[p] # "corrupt"

\* A session or listener that nobody has asked to go can still be
\* disconnected: a disconnect takes no address off the table without telling
\* everybody who was there for it (socket_base.cpp:1003-1008 and 1081-1086).
NoneForgotten ==
  \A c \in Child : state[c] = "running" => \E x \in endpoints : x.child = c

\* A disconnect leaves alone the connection of any other endpoint ("If we have an
\* associated pipe, terminate it", socket_base.cpp:1069).
CutsItsOwn ==
  [][\A e \in Endpoint : Disconnect(e) =>
       \A x \in endpoints :
         /\ x.endpoint # e /\ kind[x.child] = "eager"
         /\ x.pipe # None /\ owner[x.pipe] = x.child /\ l[x.pipe] = "active"
         => l'[x.pipe] = "active"]_vars

\* If ZMQ_EVENTS is asked for again and again, and no end waits for ever to be read to its
\* delimiter (none of a socket that does not read waits at all), the pipe of a peer that has
\* gone is given back: one call acknowledges the peer's pipe_term, a later one takes the
\* acknowledgement that comes back.  kickSocket asks once for every 'D' that the peer acts
\* on, so for ever while peers come and go (3186/common.c:9-19, peer.cpp:174-176,
\* socket_base.cpp:412-413; that it "doesn't work", peer.cpp:129, is not what the code says).
PipesReleased ==
  []<><<Call("poll", None)>>_vars /\ (\A p \in Pipe : []<>(l[p] # "waiting")) =>
    \A p \in Pipe : l[p] = "active" /\ r[p] = "req1" ~> l[p] = "free"

\* A socket that was closed is deallocated once the context is terminated:
\* the acknowledgements it waits for all come, also those for children and pipes that
\* it learns of only while it is being closed (socket_base.cpp:339-354, 1293-1323, 1522-1538).
\* That needs a linger that was set in time ("if we set the linger when we create the
\* socket then the zmq_ctx_term call never hangs", 3186/Readme.md:142).
CloseEnds ==
  [](phase # "open" \/ endpoints # {} \/ pipes # {} => linger = "finite") =>
    (phase # "open" /\ stopped ~> phase = "freed")

\* Whenever linger was set, all that can keep such a socket is a message that somebody has
\* been told to keep for ever (socket_base.cpp:207, 1293-1323, 1394-1408).
EndsUnlessKept ==
  <>[](phase # "open" /\ stopped) => <>(phase = "freed") \/ <>[](\E p \in Pipe : Kept(p))

\* A socket that has only bound, and whose linger was set before it was closed, is
\* deallocated ("Ultimately, the socket will be destroyed", socket_base.cpp:1498; linger
\* is set just before the close in 3186/peer.cpp:205-212).
LateLingerEnds ==
  /\ phase # "open" /\ stopped /\ linger = "finite" /\ patient = {}
  /\ \A c \in Child : kind[c] \in {"none", "listener"}
  ~> phase = "freed"

\* The queue m holds the command x.
In(m, x) == \E i \in 1 .. Len(m) : m[i] = x

\* The states of a pipe's ends, what is on its way to the other end, and whether
\* pipe_term and pipe_term_ack are on their way to the socket, agree: whoever asks first,
\* and if both do, each end is asked and acknowledged once.
Handshake(p) ==
  LET term == In(mailbox, Command("pipe_term", p))
      ack  == In(mailbox, Command("pipe_term_ack", p))
  IN  \/ /\ l[p] = "free" /\ ~term /\ ~ack
         /\ \/ r[p] = "free" /\ toR[p] = <<>>
            \/ r[p] \in {"acked", "req2"} /\ toR[p] = <<"pipe_term_ack">>
      \/ /\ l[p] = "active" /\ toR[p] = <<>> /\ ~ack
         /\ (r[p] = "active" /\ ~term) \/ (r[p] = "req1" /\ term)
      \/ l[p] = "waiting" /\ r[p] = "req1" /\ toR[p] = <<>> /\ ~term /\ ~ack
      \/ /\ l[p] = "req1" /\ toR[p] = <<"pipe_term">> /\ ~ack
         /\ (r[p] = "active" /\ ~term) \/ (r[p] = "req1" /\ term)
      \/ /\ l[p] = "req1" /\ toR[p] = <<>>
         /\ \/ r[p] = "waiting" /\ ~term /\ ~ack
            \/ r[p] = "acked" /\ ~term /\ ack
            \/ r[p] = "req2" /\ term /\ ack
      \/ /\ l[p] = "req2" /\ ~term
         /\ \/ r[p] = "req1" /\ toR[p] = <<"pipe_term", "pipe_term_ack">> /\ ~ack
            \/ r[p] = "req2" /\ toR[p] = <<"pipe_term_ack">> /\ ack
            \/ r[p] = "free" /\ toR[p] = <<>> /\ ack
      \/ /\ l[p] = "acked" /\ ~term
         /\ \/ r[p] = "req1" /\ toR[p] = <<"pipe_term_ack">> /\ ~ack
            \/ r[p] = "free" /\ toR[p] = <<>> /\ ack

\* Pipes end by the handshake (pipe.cpp asserts parts of it; socket_base.cpp:1394-1402 and
\* 1559-1576 take part in it).
InHandshake == \A p \in Pipe : Handshake(p)
=============================================================================
