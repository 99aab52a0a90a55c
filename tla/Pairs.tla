------------------------------- MODULE Pairs -------------------------------
(***************************************************************************)
(* Inter-thread signalling with PAIR sockets: the program                  *)
(* threads/pairs.cpp and what it shares with the others.                   *)
(*                                                                         *)
(* A PAIR socket has one connection at a time, so every message has one of *)
(* its own: a thread connects its PAIR, sends, and disconnects.  The       *)
(* connections end later, by the handshake of their two pipe ends, in      *)
(* which each side takes part inside its own calls.  A PAIR that has not   *)
(* finished with a pipe refuses the next one, silently: then a message is  *)
(* lost, or its sender waits for ever.                                     *)
(***************************************************************************)
EXTENDS Naturals, Sequences, FiniteSets

CONSTANTS
  Thread,    \* the control threads (-threads)
  Shutdown,  \* the thread that sends the exit command
  Loop,      \* the main loop
  NumMsgs,   \* -msgs
  Flags,     \* which of -mutex, -poll and -nowait it is run with
  None       \* no pipe, nobody

Socket == Thread \cup {Shutdown}
User   == Socket \cup {Loop}

\* A thread's n-th connection, and the message that it is for.
Pipe == (Thread \X (1 .. NumMsgs \cup {1})) \cup {<<Shutdown, 1>>}
Exit == <<Shutdown, 1>>

ASSUME PairsAssumption ==
  /\ IsFiniteSet(Thread) /\ Shutdown \notin Thread
  /\ Loop \notin Socket /\ None \notin User \cup Pipe
  /\ NumMsgs \in Nat
  /\ Flags \subseteq SUBSET {"mutex", "poll", "nowait"}

VARIABLES
  flags,     \* those it is run with this time
  mainPc,    \* main(): joining, joining shutdownThread and mainThread, done, aborted
  loopPc,    \* mainLoop(): not bound yet, polling, closed
  pc,        \* where a thread is in commandLoop and sendCommand
  ready,     \* the commands for its socket are processed as far as its call needs it
  holder,    \* of sendMutex
  sent,      \* maxControlMsgSent
  received,  \* maxControlMsgReceived
  failed,
  end,       \* the states of a pipe's two ends, one at its thread and one at the loop
  unread,    \* what an end can still read
  attached,  \* the pipe a PAIR has
  mailbox,   \* the commands for a PAIR and its pipe ends
  refused    \* the pipes the main loop's PAIR refused

progVars == <<flags, mainPc, loopPc, holder, sent, received, failed>>
callVars == <<pc, ready>>
pipeVars == <<end, unread, attached, mailbox, refused>>
vars == <<progVars, callVars, pipeVars>>

Delimiter == <<>>

Ends(p) == {p[1], Loop}

Init ==
  /\ flags \in Flags
  /\ mainPc = "join" /\ loopPc = "start"
  /\ pc = [s \in Socket |-> IF s = Shutdown THEN "idle" ELSE "head"]
  /\ ready = [s \in Socket |-> FALSE] /\ holder = None
  /\ sent = [s \in Socket |-> 0] /\ received = [s \in Socket |-> 0] /\ failed = FALSE
  /\ end = [p \in Pipe |-> [x \in Ends(p) |-> "none"]]
  /\ unread = [p \in Pipe |-> [x \in Ends(p) |-> <<>>]]
  /\ attached = [x \in User |-> None] /\ mailbox = [x \in User |-> <<>>] /\ refused = {}

-----------------------------------------------------------------------------
(***************************************************************************)
(* Pipe ends, as pipe_t has them.                                          *)
(***************************************************************************)

\* What terminate makes of an end.
Terminated(state, delay) ==
  CASE state \in {"active", "delimited"} -> "req1"
    [] state = "waiting" /\ ~delay -> "acked"
    [] OTHER -> state

\* What is sent to the other end when one goes from a state to another.
Reply(from, to, p) ==
  CASE from # to /\ to = "req1" -> <<[cmd |-> "pipe_term", of |-> p]>>
    [] from # to /\ (to \in {"req2", "acked"} \/ from = "req1") ->
         <<[cmd |-> "pipe_term_ack", of |-> p]>>
    [] OTHER -> <<>>

Other(p, x) == IF x = Loop THEN p[1] ELSE Loop

\* x's end of p goes to a state; m is what its commands leave of the mailboxes.
Goes(x, p, to, m) ==
  /\ end' = [end EXCEPT ![p][x] = to]
  /\ mailbox' = [m EXCEPT ![Other(p, x)] = @ \o Reply(end[p][x], to, p)]

\* terminate: who asks first writes a delimiter after all that was sent.
Terminate(x, p, delay, m) ==
  LET to == Terminated(end[p][x], delay) IN
  /\ Goes(x, p, to, m)
  /\ unread' = IF to = "req1" /\ end[p][x] # "req1"
                 THEN [unread EXCEPT ![p][Other(p, x)] = Append(@, Delimiter)] ELSE unread

Calls == {"connect", "poll", "send", "disconnect"}

\* Who processes the commands for x: its thread inside a call, the main loop
\* in zmq_poll, or, once the thread has ended, the reaper.  zmq_poll does it more than once.
Processing(x) ==
  /\ mainPc # "aborted"
  /\ IF x = Loop THEN loopPc = "poll"
     ELSE pc[x] \in {"ended", "poll"} \/ (pc[x] \in Calls /\ ~ready[x])

\* There is something to read for x's PAIR.
Readable(x) ==
  LET p == attached[x] IN
  p # None /\ end[p][x] \in {"active", "waiting"} /\ unread[p][x] # <<>>

\* It comes to the delimiter, in the main loop's zmq_poll or the thread's.
ReadDelimiter(x) ==
  LET p == attached[x] IN
  /\ Processing(x) /\ (x # Loop => pc[x] = "poll" /\ ready[x])
  /\ Readable(x) /\ Head(unread[p][x]) = Delimiter
  /\ Goes(x, p, IF end[p][x] = "active" THEN "delimited" ELSE "acked", mailbox)
  /\ unread' = [unread EXCEPT ![p][x] = Tail(@)]
  /\ UNCHANGED <<progVars, callVars, attached, refused>>

Receive(x, cmd, p) ==
  Processing(x) /\ mailbox[x] # <<>> /\ Head(mailbox[x]) = [cmd |-> cmd, of |-> p]

Taken(x) == [mailbox EXCEPT ![x] = Tail(@)]

\* process_bind and attach_pipe at the main loop's PAIR, which has room for one.
ProcessBind(p) ==
  /\ Receive(Loop, "bind", p)
  /\ IF attached[Loop] = None
       THEN /\ attached' = [attached EXCEPT ![Loop] = p] /\ mailbox' = Taken(Loop)
            /\ UNCHANGED <<end, unread, refused>>
       ELSE /\ Terminate(Loop, p, FALSE, Taken(Loop)) /\ refused' = refused \cup {p}
            /\ UNCHANGED attached
  /\ UNCHANGED <<progVars, callVars>>

\* Mutant of ProcessPipeTerm: it does not wait for what was sent before to be read.
ProcessPipeTermAtOnce(x, p) ==
  /\ Receive(x, "pipe_term", p)
  /\ Goes(x, p, IF end[p][x] = "req1" THEN "req2" ELSE "acked", Taken(x))
  /\ UNCHANGED <<progVars, callVars, unread, attached, refused>>

\* process_pipe_term.
ProcessPipeTerm(x, p) ==
  /\ Receive(x, "pipe_term", p)
  /\ Goes(x, p, CASE end[p][x] = "active" -> "waiting"
                  [] end[p][x] = "delimited" -> "acked"
                  [] OTHER -> "req2", Taken(x))
  /\ UNCHANGED <<progVars, callVars, unread, attached, refused>>

\* process_pipe_term_ack and pipe_terminated.
ProcessPipeTermAck(x, p) ==
  /\ Receive(x, "pipe_term_ack", p)
  /\ Goes(x, p, "gone", Taken(x))
  /\ attached' = [attached EXCEPT ![x] = IF @ = p THEN None ELSE @]
  /\ UNCHANGED <<progVars, callVars, unread, refused>>

-----------------------------------------------------------------------------
(***************************************************************************)
(* The control threads and shutdownFunc.                                   *)
(***************************************************************************)

At(s, where) == pc[s] = where /\ mainPc # "aborted"
To(s, where) == pc' = [pc EXCEPT ![s] = where] /\ ready' = [ready EXCEPT ![s] = FALSE]

\* Mutant of After: zmq_poll after zmq_send.
PollAfterSend ==
  [connect |-> "send", send |-> IF "poll" \in flags THEN "poll" ELSE "disconnect",
   poll |-> "disconnect"]

\* The call that follows another in sendCommand.
After ==
  [connect |-> IF "poll" \in flags THEN "poll" ELSE "send", poll |-> "send",
   send |-> "disconnect"]

\* commandLoop, from its head into sendControlMsg, while keepGoing is set.
NextPing(t) ==
  /\ At(t, "head")
  /\ IF loopPc # "closed" THEN sent' = [sent EXCEPT ![t] = @ + 1] /\ To(t, "lock")
                          ELSE UNCHANGED sent /\ To(t, "ended")
  /\ UNCHANGED <<flags, mainPc, loopPc, holder, received, failed, pipeVars>>

\* sendCommand with the thread's PAIR, which the first creates, up to zmq_connect.
Lock(s) ==
  /\ At(s, "lock")
  /\ IF "mutex" \in flags THEN holder = None /\ holder' = s ELSE UNCHANGED holder
  /\ To(s, "connect")
  /\ UNCHANGED <<flags, mainPc, loopPc, sent, received, failed, pipeVars>>

\* process_commands has emptied the mailbox, or, in zmq_send, is throttled.
Drained(s) ==
  /\ \E where \in Calls : At(s, where) /\ ~ready[s] /\ (mailbox[s] = <<>> \/ where = "send")
  /\ ready' = [ready EXCEPT ![s] = TRUE]
  /\ UNCHANGED <<progVars, pc, pipeVars>>

\* zmq_connect: the new pipe is sent to the main loop's PAIR, or waits in the context
\* until that is bound, and is attached to the thread's, if that has none.
Connect(s) ==
  LET p == <<s, sent[s]>>  room == attached[s] = None IN
  /\ At(s, "connect") /\ ready[s]
  /\ end' = [end EXCEPT ![p][s] = IF room THEN "active" ELSE "req1", ![p][Loop] = "active"]
  /\ unread' = IF room THEN unread ELSE [unread EXCEPT ![p][Loop] = <<Delimiter>>]
  /\ mailbox' = [mailbox EXCEPT ![Loop] =
       @ \o <<[cmd |-> "bind", of |-> p]>> \o (IF room THEN <<>> ELSE Reply("active", "req1", p))]
  /\ attached' = [attached EXCEPT ![s] = IF room THEN p ELSE @]
  /\ To(s, After.connect)
  /\ UNCHANGED <<progVars, refused>>

\* zmq_poll has found something, or its millisecond is over.
Poll(s) ==
  /\ At(s, "poll") /\ ready[s]
  /\ To(s, After.poll)
  /\ UNCHANGED <<progVars, pipeVars>>

CanWrite(s) == attached[s] # None /\ end[attached[s]][s] = "active"

\* zmq_send writes to the pipe that is attached.
Send(s) ==
  /\ At(s, "send") /\ ready[s] /\ CanWrite(s)
  /\ unread' = [unread EXCEPT ![attached[s]][Loop] = Append(@, <<s, sent[s]>>)]
  /\ To(s, After.send)
  /\ UNCHANGED <<progVars, end, attached, mailbox, refused>>

\* Mutant of SendFails: the send has a timeout, and nobody looks at its result.
SendTimesOut(s) ==
  /\ At(s, "send") /\ ready[s] /\ ~CanWrite(s)
  /\ To(s, "disconnect")
  /\ UNCHANGED <<progVars, pipeVars>>

\* zmq_send finds none, and waits, or checkInt has the program aborted.
SendFails(s) ==
  /\ At(s, "send") /\ ready[s] /\ ~CanWrite(s)
  /\ To(s, "send")
  /\ mainPc' = IF "nowait" \in flags THEN "aborted" ELSE mainPc
  /\ UNCHANGED <<flags, loopPc, holder, sent, received, failed, pipeVars>>

\* Mutant of Disconnect: one message too many.
DisconnectOneMore(s) ==
  /\ At(s, "disconnect") /\ ready[s]
  /\ Terminate(s, <<s, sent[s]>>, TRUE, mailbox)
  /\ holder' = None
  /\ To(s, IF s \in Thread /\ sent[s] <= NumMsgs THEN "head" ELSE "ended")
  /\ UNCHANGED <<flags, mainPc, loopPc, sent, received, failed, attached, refused>>

\* Mutant of Disconnect: the thread's PAIR is free at once.
DisconnectFrees(s) ==
  /\ At(s, "disconnect") /\ ready[s]
  /\ Terminate(s, <<s, sent[s]>>, TRUE, mailbox)
  /\ holder' = None
  /\ attached' = [attached EXCEPT ![s] = None]
  /\ To(s, IF s \in Thread /\ sent[s] < NumMsgs THEN "head" ELSE "ended")
  /\ UNCHANGED <<flags, mainPc, loopPc, sent, received, failed, refused>>

\* Mutant of Disconnect: the mutex stays locked.
DisconnectLocked(s) ==
  /\ At(s, "disconnect") /\ ready[s]
  /\ Terminate(s, <<s, sent[s]>>, TRUE, mailbox)
  /\ To(s, IF s \in Thread /\ sent[s] < NumMsgs THEN "head" ELSE "ended")
  /\ UNCHANGED <<flags, mainPc, loopPc, holder, sent, received, failed, attached, refused>>

\* zmq_disconnect, and the thread goes on or ends.
Disconnect(s) ==
  /\ At(s, "disconnect") /\ ready[s]
  /\ Terminate(s, <<s, sent[s]>>, TRUE, mailbox)
  /\ holder' = None
  /\ To(s, IF s \in Thread /\ sent[s] < NumMsgs THEN "head" ELSE "ended")
  /\ UNCHANGED <<flags, mainPc, loopPc, sent, received, failed, attached, refused>>

\* The reaper ends a pipe of a PAIR that cleanupSocket closed at the end of its thread.
Reap(s, p) ==
  /\ At(s, "ended") /\ p[1] = s
  /\ Terminated(end[p][s], FALSE) # end[p][s]
  /\ Terminate(s, p, FALSE, mailbox)
  /\ UNCHANGED <<progVars, callVars, attached, refused>>

-----------------------------------------------------------------------------
(***************************************************************************)
(* mainLoop and main().                                                    *)
(***************************************************************************)

\* mainLoop binds, and finds the connections that wait for it.
Bind ==
  /\ loopPc = "start" /\ mainPc # "aborted" /\ loopPc' = "poll"
  /\ UNCHANGED <<flags, mainPc, holder, sent, received, failed, callVars, pipeVars>>

\* zmq_poll reports a message, and it is received.
Received(msg) ==
  LET p == attached[Loop] IN
  /\ Processing(Loop) /\ Readable(Loop) /\ Head(unread[p][Loop]) = msg
  /\ unread' = [unread EXCEPT ![p][Loop] = Tail(@)]
  /\ UNCHANGED <<flags, mainPc, holder, sent, callVars, end, attached, mailbox, refused>>

\* processControlMsg of a ping.
ReceivePing(t, n) ==
  /\ Received(<<t, n>>)
  /\ failed' = (failed \/ n # received[t] + 1)
  /\ received' = [received EXCEPT ![t] = IF n > @ THEN n ELSE @]
  /\ UNCHANGED loopPc

\* processControlMsg of the exit command, after which the loop ends.
ReceiveExit ==
  /\ Received(Exit)
  /\ loopPc' = "closed"
  /\ UNCHANGED <<received, failed>>

\* Mutant of JoinThreads: main() does not wait for the last of them.
JoinSomeThreads ==
  /\ mainPc = "join" /\ \E t \in Thread : pc[t] = "ended"
  /\ mainPc' = "reap"
  /\ sent' = [sent EXCEPT ![Shutdown] = 1] /\ To(Shutdown, "lock")
  /\ UNCHANGED <<flags, loopPc, holder, received, failed, pipeVars>>

\* main() has joined the control threads, slept, and started shutdownThread.
JoinThreads ==
  /\ mainPc = "join" /\ \A t \in Thread : pc[t] = "ended"
  /\ mainPc' = "reap"
  /\ sent' = [sent EXCEPT ![Shutdown] = 1] /\ To(Shutdown, "lock")
  /\ UNCHANGED <<flags, loopPc, holder, received, failed, pipeVars>>

\* main() has joined shutdownThread and mainThread and checks the results.
CheckResults ==
  /\ mainPc = "reap" /\ pc[Shutdown] = "ended" /\ loopPc = "closed"
  /\ mainPc' = "done"
  /\ failed' = (failed \/ \E t \in Thread : sent[t] # NumMsgs \/ received[t] # NumMsgs)
  /\ UNCHANGED <<flags, loopPc, holder, sent, received, callVars, pipeVars>>

-----------------------------------------------------------------------------

ThreadStep(s) ==
  \/ NextPing(s) \/ Lock(s) \/ Drained(s) \/ Connect(s) \/ Poll(s)
  \/ Send(s) \/ SendFails(s) \/ Disconnect(s) \/ ReadDelimiter(s)
  \/ \E p \in Pipe : ProcessPipeTerm(s, p) \/ ProcessPipeTermAck(s, p) \/ Reap(s, p)

LoopStep ==
  \/ Bind \/ ReadDelimiter(Loop) \/ ReceiveExit
  \/ \E t \in Thread, n \in 1 .. NumMsgs \cup {1} : ReceivePing(t, n)
  \/ \E p \in Pipe : ProcessBind(p) \/ ProcessPipeTerm(Loop, p) \/ ProcessPipeTermAck(Loop, p)

Next == (\E s \in Socket : ThreadStep(s)) \/ LoopStep \/ JoinThreads \/ CheckResults

\* Threads are scheduled, and zmq_poll comes to its end.
Fairness ==
  /\ \A s \in Socket :
       /\ WF_vars(\/ NextPing(s) \/ Drained(s) \/ Connect(s) \/ Send(s) \/ SendFails(s) \/ Disconnect(s)
                  \/ \E p \in Pipe : ProcessPipeTerm(s, p) \/ ProcessPipeTermAck(s, p))
       /\ WF_vars(Poll(s)) /\ SF_vars(Lock(s))
  /\ WF_vars(LoopStep) /\ WF_vars(JoinThreads \/ CheckResults)

Spec == Init /\ [][Next]_vars
FairSpec == Spec /\ Fairness

-----------------------------------------------------------------------------

EndState == {"none", "active", "delimited", "waiting", "req1", "req2", "acked", "gone"}

\* The sets the variables range over.
TypeOK ==
  /\ flags \in Flags
  /\ mainPc \in {"join", "reap", "done", "aborted"} /\ loopPc \in {"start", "poll", "closed"}
  /\ pc \in [Socket -> {"idle", "head", "lock", "connect", "poll", "send", "disconnect", "ended"}]
  /\ ready \in [Socket -> BOOLEAN] /\ holder \in Socket \cup {None}
  /\ sent \in [Socket -> Nat] /\ \A s \in Socket : sent[s] = 0 \/ <<s, sent[s]>> \in Pipe
  /\ received \in [Socket -> Nat] /\ failed \in BOOLEAN
  /\ end = [p \in Pipe |-> end[p]] /\ unread = [p \in Pipe |-> unread[p]]
  /\ \A p \in Pipe : /\ end[p] \in [Ends(p) -> EndState]
                     /\ unread[p] \in [Ends(p) -> Seq(Pipe \cup {Delimiter})]
  /\ attached \in [User -> Pipe \cup {None}]
  /\ mailbox \in [User -> Seq([cmd : {"bind", "pipe_term", "pipe_term_ack"}, of : Pipe])]
  /\ refused \subseteq Pipe

\* "prints an error message if the incoming number is not one greater than the
\* previous" (threads/README.md:36), or when the results are compared: with at least
\* one message to send it does so only when the main loop's PAIR has refused a
\* connection (threads/common.h:132-142 and 154-166, pairs.cpp:40-56).
FailsOnlyRefused == failed /\ NumMsgs > 0 => refused # {}

\* The exit command ends the main loop only when every ping was received whose
\* connection was not refused, however short the sleep: it needs the PAIR to be done
\* with the connection before, and with all that was sent there
\* (pairs.cpp:140-158).
ExitIsLast ==
  loopPc = "closed" =>
    \A t \in Thread : \A n \in 1 .. sent[t] : <<t, n>> \in refused \/ n <= received[t]

\* zmq_disconnect finds the connection that zmq_connect made and does not return
\* an error: the program looks at nothing in between that could end it.  "calling
\* zmq_poll after zmq_send results in the zmq_disconnect returning errno 2"
\* (threads/README.md:52; pairs.cpp:40-56).
DisconnectFinds ==
  \A s \in Socket : pc[s] = "disconnect" => end[<<s, sent[s]>>][s] \notin {"none", "gone"}

\* The main loop's PAIR refuses no connection because of an earlier one of the same
\* thread, but one that the thread's own PAIR has refused as well and that nothing is sent
\* to: of a single thread's messages none is lost (pairs.cpp:40 and 53).
RefusedByOthers ==
  [][\A p \in refused' \ refused : attached[Loop][1] = p[1] => attached[p[1]] # p]_vars

\* "sending and receiving threads deadlock" (threads/README.md:155): a thread whose
\* PAIR has no pipe to write to when it sends never gets one (pairs.cpp:48).
Stuck(s) == pc[s] = "send" /\ ~CanWrite(s)
StuckForEver == [][\A s \in Socket : Stuck(s) => Stuck(s)']_vars

\* Nothing else keeps the program from its end: it ends unless a thread is stuck or the
\* connection of the exit command is refused (pairs.cpp:40-56 and 140-163).
EndsUnlessStuck ==
  <>(mainPc \in {"done", "aborted"} \/ Exit \in refused \/ \E s \in Socket : Stuck(s))
=============================================================================
