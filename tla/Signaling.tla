----------------------------- MODULE Signaling -----------------------------
(***************************************************************************)
(* Inter-thread signalling with ZeroMQ: the programs threads/pushpull.cpp, *)
(* pubsub.cpp and clientserver.cpp, and the logic they share in            *)
(* threads/common.h.                                                       *)
(*                                                                         *)
(* Control threads send numbered pings over inproc sockets to a main loop, *)
(* which is a thread too and checks the numbers.  main() joins the control *)
(* threads, sleeps, has an exit command sent to the main loop, joins that, *)
(* and compares what was sent with what was received.                      *)
(*                                                                         *)
(* PUSH and CLIENT sockets block while their pipe is full; a PUB socket    *)
(* drops what it cannot send, which is everything until the subscription   *)
(* of the main loop's SUB socket has reached it.                           *)
(***************************************************************************)
EXTENDS Naturals, Sequences

CONSTANTS
  Thread,     \* the control threads (-threads)
  Shutdown,   \* the thread that sends the exit command
  NumMsgs,    \* -msgs
  Transports, \* which of the programs: "push", "pub" and "client"
  Hwm,        \* how many messages a pipe holds
  Patient     \* those whose -sleep is long enough for everything sent to be received

Socket == Thread \cup {Shutdown}

ASSUME SignalingAssumption ==
  /\ Shutdown \notin Thread
  /\ NumMsgs \in Nat
  /\ Transports \subseteq {"push", "pub", "client"}
  /\ Hwm \in Nat \ {0}
  /\ Patient \subseteq Transports

VARIABLES
  transport,  \* the program that runs
  mainPc,     \* main(): joining, sleeping, shutting down, joining the loop, done
  loopPc,     \* mainLoop(): not bound yet, polling, closed
  threadPc,   \* commandLoop(): at the head of the loop, in sendControlMsg, done
  sent,       \* maxControlMsgSent
  received,   \* maxControlMsgReceived
  keepGoing,
  failed,
  pipe,       \* what a sending socket has sent and the main loop has not received
  reached     \* the sockets that the main loop's subscription has reached

vars == <<transport, mainPc, loopPc, threadPc, sent, received, keepGoing, failed, pipe, reached>>

-----------------------------------------------------------------------------

\* Mutant of Ping: the two arguments of the message are swapped.
PingSwapped(t, n) == [command |-> "P", voidArg |-> n, longArg |-> t]

\* A zmqControlMsg.
Ping(t, n) == [command |-> "P", voidArg |-> t, longArg |-> n]
Exit       == [command |-> "X"]

Msg == {Exit} \cup [command : {"P"}, voidArg : Thread, longArg : Nat]

Init ==
  /\ transport \in Transports
  /\ mainPc = "join"
  /\ loopPc = "start"
  /\ threadPc = [t \in Thread |-> "head"]
  /\ sent = [t \in Thread |-> 0]
  /\ received = [t \in Thread |-> 0]
  /\ keepGoing = TRUE
  /\ failed = FALSE
  /\ pipe = [s \in Socket |-> <<>>]
  /\ reached = {}

-----------------------------------------------------------------------------

\* Mutant of SocketOf: every thread has a CLIENT socket of its own.
SocketPerThread(t) == t

\* The socket a thread sends with: one of its own in thread-local storage, or
\* the one CLIENT socket of the program, which is thread-safe.
SocketOf(t) == IF transport = "client" THEN Shutdown ELSE t

\* Mutant of SendOrBlock: a full pipe loses the message.
SendOrLose(s, m) ==
  pipe' = IF Len(pipe[s]) < Hwm THEN [pipe EXCEPT ![s] = Append(@, m)] ELSE pipe

\* zmq_send on a PUSH or CLIENT socket.
SendOrBlock(s, m) ==
  /\ Len(pipe[s]) < Hwm
  /\ pipe' = [pipe EXCEPT ![s] = Append(@, m)]

\* Mutant of SendOrDrop: only the latest message is kept.
SendConflated(s, m) ==
  pipe' = IF s \in reached THEN [pipe EXCEPT ![s] = <<m>>] ELSE pipe

\* zmq_send on a PUB socket.
SendOrDrop(s, m) ==
  pipe' = IF s \in reached /\ Len(pipe[s]) < Hwm
            THEN [pipe EXCEPT ![s] = Append(@, m)] ELSE pipe

SendCommand(s, m) ==
  IF transport = "pub" THEN SendOrDrop(s, m) ELSE SendOrBlock(s, m)

\* commandLoop, from its head into sendControlMsg, which creates and connects the
\* thread's socket the first time.
NextPing(t) ==
  /\ threadPc[t] = "head"
  /\ IF keepGoing
       THEN /\ sent' = [sent EXCEPT ![t] = @ + 1]
            /\ threadPc' = [threadPc EXCEPT ![t] = "send"]
       ELSE /\ threadPc' = [threadPc EXCEPT ![t] = "done"]
            /\ UNCHANGED sent
  /\ UNCHANGED <<transport, mainPc, loopPc, received, keepGoing, failed, pipe, reached>>

\* Mutant of SendPing: the loop goes on until there is one message too many.
SendPingOneMore(t) ==
  /\ threadPc[t] = "send"
  /\ SendCommand(SocketOf(t), Ping(t, sent[t]))
  /\ threadPc' = [threadPc EXCEPT ![t] = IF sent[t] > NumMsgs THEN "done" ELSE "head"]
  /\ UNCHANGED <<transport, mainPc, loopPc, sent, received, keepGoing, failed, reached>>

\* sendControlMsg returns, and the loop ends with the last message.
SendPing(t) ==
  /\ threadPc[t] = "send"
  /\ SendCommand(SocketOf(t), Ping(t, sent[t]))
  /\ threadPc' = [threadPc EXCEPT ![t] = IF sent[t] >= NumMsgs THEN "done" ELSE "head"]
  /\ UNCHANGED <<transport, mainPc, loopPc, sent, received, keepGoing, failed, reached>>

-----------------------------------------------------------------------------

\* mainLoop starts and binds.  What was sent before waits in the pipes: an
\* inproc socket may connect before the other side binds.
Bind ==
  /\ loopPc = "start"
  /\ loopPc' = "poll"
  /\ UNCHANGED <<transport, mainPc, threadPc, sent, received, keepGoing, failed, pipe, reached>>

\* The SUB socket, inside zmq_poll, learns of a connection and subscribes, and the
\* PUB socket, inside a call of its owner, gets the subscription.
Subscribe(s) ==
  /\ transport = "pub" /\ loopPc = "poll"
  /\ s \notin reached
  /\ IF s = Shutdown THEN mainPc = "exit" ELSE threadPc[s] # "done" /\ sent[s] > 0
  /\ reached' = reached \cup {s}
  /\ UNCHANGED <<transport, mainPc, loopPc, threadPc, sent, received, keepGoing, failed, pipe>>

\* zmq_poll reports the control socket and a message is received from one of the
\* connections.
Received(s, command) ==
  /\ loopPc = "poll"
  /\ pipe[s] # <<>> /\ Head(pipe[s]).command = command
  /\ pipe' = [pipe EXCEPT ![s] = Tail(@)]

\* processControlMsg of a ping.
ReceivePing(s) ==
  LET msg == Head(pipe[s]) IN
  /\ Received(s, "P")
  /\ failed' = (failed \/ msg.longArg # received[msg.voidArg] + 1)
  /\ received' = [received EXCEPT ![msg.voidArg] = IF msg.longArg > @ THEN msg.longArg ELSE @]
  /\ UNCHANGED <<transport, mainPc, loopPc, threadPc, sent, keepGoing, reached>>

\* Mutant of ReceiveExit: the flag is set, but the loop goes on.
ReceiveExitGoOn(s) ==
  /\ Received(s, "X")
  /\ keepGoing' = FALSE
  /\ UNCHANGED <<transport, mainPc, loopPc, threadPc, sent, received, failed, reached>>

\* processControlMsg of the exit command, after which the loop finds the flag
\* cleared and closes its sockets.
ReceiveExit(s) ==
  /\ Received(s, "X")
  /\ keepGoing' = FALSE
  /\ loopPc' = "closed"
  /\ UNCHANGED <<transport, mainPc, threadPc, sent, received, failed, reached>>

-----------------------------------------------------------------------------

\* Mutant of JoinThreads: main() does not wait for the last of them.
JoinSomeThreads ==
  /\ mainPc = "join"
  /\ \E t \in Thread : threadPc[t] = "done"
  /\ mainPc' = "sleep"
  /\ UNCHANGED <<transport, loopPc, threadPc, sent, received, keepGoing, failed, pipe, reached>>

\* main() has joined every control thread.
JoinThreads ==
  /\ mainPc = "join"
  /\ \A t \in Thread : threadPc[t] = "done"
  /\ mainPc' = "sleep"
  /\ UNCHANGED <<transport, loopPc, threadPc, sent, received, keepGoing, failed, pipe, reached>>

\* The sleep is over and the exit command is about to be sent.
Wake ==
  /\ mainPc = "sleep"
  /\ transport \in Patient => loopPc = "poll" /\ \A s \in Socket : pipe[s] = <<>>
  /\ mainPc' = "exit"
  /\ UNCHANGED <<transport, loopPc, threadPc, sent, received, keepGoing, failed, pipe, reached>>

\* The exit command is sent, by shutdownFunc or by main() itself.
SendExit ==
  /\ mainPc = "exit"
  /\ SendCommand(Shutdown, Exit)
  /\ mainPc' = "reap"
  /\ UNCHANGED <<transport, loopPc, threadPc, sent, received, keepGoing, failed, reached>>

\* main() has joined mainLoop and checks the results.
CheckResults ==
  /\ mainPc = "reap" /\ loopPc = "closed"
  /\ failed' = (failed \/ \E t \in Thread : sent[t] # NumMsgs \/ received[t] # NumMsgs)
  /\ mainPc' = "done"
  /\ UNCHANGED <<transport, loopPc, threadPc, sent, received, keepGoing, pipe, reached>>

Finished == mainPc = "done" /\ UNCHANGED vars

-----------------------------------------------------------------------------

Next ==
  \/ \E t \in Thread : NextPing(t) \/ SendPing(t)
  \/ Bind
  \/ \E s \in Socket : Subscribe(s) \/ ReceivePing(s) \/ ReceiveExit(s)
  \/ JoinThreads \/ Wake \/ SendExit \/ CheckResults \/ Finished

\* Threads are scheduled, and the main loop's socket takes messages from its
\* connections in turn.
Fairness ==
  /\ \A t \in Thread : WF_vars(NextPing(t)) /\ SF_vars(SendPing(t))
  /\ WF_vars(Bind)
  /\ \A s \in Socket : WF_vars(ReceivePing(s) \/ ReceiveExit(s))
  /\ WF_vars(JoinThreads) /\ WF_vars(Wake) /\ SF_vars(SendExit) /\ WF_vars(CheckResults)

Spec == Init /\ [][Next]_vars
FairSpec == Spec /\ Fairness

-----------------------------------------------------------------------------

\* The sets the variables range over.
TypeOK ==
  /\ transport \in Transports
  /\ mainPc \in {"join", "sleep", "exit", "reap", "done"}
  /\ loopPc \in {"start", "poll", "closed"}
  /\ threadPc \in [Thread -> {"head", "send", "done"}]
  /\ sent \in [Thread -> Nat]
  /\ received \in [Thread -> Nat]
  /\ keepGoing \in BOOLEAN
  /\ failed \in BOOLEAN
  /\ pipe \in [Socket -> Seq(Msg)]
  /\ reached \subseteq Socket

\* keepGoing and the maps are plain variables without a lock.  They are safe
\* because nobody clears the flag, or reads the results, while a control thread
\* still runs: the exit command is sent after the last of them was joined
\* (threads/common.h:96 and 126, pushpull.cpp:133-148).
FlagUnshared ==
  (~keepGoing \/ mainPc = "done") => \A t \in Thread : threadPc[t] = "done"

\* "it compares the incoming sequence number with the last sequence number
\* received for that thread, and prints an error message if the incoming number
\* is not one greater than the previous" (threads/README.md:36): it never does,
\* although pings of several threads mix and a full pipe makes senders wait
\* (threads/common.h:132-136).
InOrder == mainPc # "done" => ~failed

\* Of the pings of a PUB socket only the first ones can be lost: once one got
\* through, those after it follow without a gap - in a pipe that holds them all
\* (threads/README.md:23, common.h:132-142, pubsub.cpp:32).
OnlyInitialLost ==
  \A t \in Thread :
    LET q == pipe[SocketOf(t)] IN
    /\ \A i \in 1 .. Len(q) - 1 : q[i + 1].longArg = q[i].longArg + 1
    /\ q # <<>> /\ received[t] > 0 => Head(q).longArg = received[t] + 1

\* "Each control thread terminates when it has sent the specified number of
\* messages" (threads/README.md:34), not one more and not one less
\* (threads/common.h:96-113).
SendsAsAsked == \A t \in Thread : threadPc[t] = "done" => sent[t] = NumMsgs

\* The program comes to its end: nobody waits for ever in a send, for a thread
\* to join or for the exit command (pushpull.cpp:144-148).
Terminates == <>(mainPc = "done")

\* The program keeps the promises of Pinging.  A ping that is being sent counts
\* as sent, as in maxControlMsgSent; and a run that ends with results that do not
\* check has not ended well.
P == INSTANCE Pinging WITH over <- mainPc = "done"

KeepsPinging == P!Spec
=============================================================================
