------------------------------ MODULE Monitor ------------------------------
(***************************************************************************)
(* The monitor thread of the programs in 3186/, reconnect/ and connect/,   *)
(* and the other end of its sockets in libzmq.                             *)
(*                                                                         *)
(* main() has its sockets monitored: libzmq reports what happens to a      *)
(* socket by sending events through a PAIR that belongs to it, from        *)
(* main() itself or from the I/O thread, holding the socket's              *)
(* monitor_sync while it does.  A send waits until the monitor thread has  *)
(* connected and there is room in the pipe.  The monitor thread polls all  *)
(* the PAIRs, and a socket on which main() tells it to stop.               *)
(***************************************************************************)
EXTENDS Naturals, Sequences

CONSTANTS
  Sock,        \* the sockets that are monitored
  Bound,       \* those of them that main() binds
  NoSock,
  StopPolled,  \* the monitor's loop polls the socket on which it is told to stop
  Hwm,         \* how many events a pipe holds
  MaxEvents    \* bound: how often the I/O thread has something to report of a socket

ASSUME MonitorAssumption ==
  /\ Bound \subseteq Sock /\ NoSock \notin Sock
  /\ StopPolled \in BOOLEAN
  /\ Hwm \in Nat \ {0} /\ MaxEvents \in Nat

VARIABLES
  mainPc,     \* main(): opening, in bind, at work, closing, in stop_monitor, joining, done
  at,         \* the socket main() holds monitor_sync of
  io,         \* the socket the I/O thread holds monitor_sync of
  reports,    \* how often the I/O thread has had something to report of a socket
  mon,        \* a socket's monitor_socket: not there yet, on, closed
  pipe,       \* the events that were sent and have not been read
  signalled,  \* "X" has been sent
  monPc,      \* monitorFunc: connecting, in zmq_poll, reading, exited
  linked,     \* the PAIRs the monitor thread has connected
  revents,    \* what zmq_poll reported and the pass has not looked at
  stopSeen    \* zmq_poll reported monitorSub

vars == <<mainPc, at, io, reports, mon, pipe, signalled, monPc, linked, revents, stopSeen>>
mainVars == <<mainPc, at, signalled>>
ioVars   == <<io, reports>>
monVars  == <<monPc, linked, revents, stopSeen>>

Init ==
  /\ mainPc = "open" /\ at = NoSock
  /\ io = NoSock /\ reports = [s \in Sock |-> 0]
  /\ mon = [s \in Sock |-> "off"]
  /\ pipe = [s \in Sock |-> <<>>]
  /\ signalled = FALSE
  /\ monPc = "connect" /\ linked = {} /\ revents = {} /\ stopSeen = FALSE

-----------------------------------------------------------------------------
(***************************************************************************)
(* socket_base_t.                                                          *)
(***************************************************************************)

\* Someone holds the socket's monitor_sync.
Locked(s) == io = s \/ at = s

\* Mutant of MonitorEvent: the second frame, with the address, is not sent.
MonitorEventHalf(s, event) ==
  /\ s \in linked /\ Len(pipe[s]) < Hwm
  /\ pipe' = [pipe EXCEPT ![s] = Append(@, "half")]

\* The two zmq_sendmsg of monitor_event.  A pipe counts whole messages, so the second
\* frame never waits.
MonitorEvent(s, event) ==
  /\ s \in linked /\ Len(pipe[s]) < Hwm
  /\ pipe' = [pipe EXCEPT ![s] = Append(@, event)]

\* Mutant of Event: event() does not take monitor_sync.
EventUnlocked(s) ==
  /\ io = NoSock /\ reports[s] < MaxEvents
  /\ mon[s] = "on"
  /\ io' = s /\ reports' = [reports EXCEPT ![s] = @ + 1]
  /\ UNCHANGED <<mainVars, mon, pipe, monVars>>

\* The I/O thread has something to report of a socket and enters event().
Event(s) ==
  /\ io = NoSock /\ reports[s] < MaxEvents
  /\ mon[s] = "on" /\ ~Locked(s)
  /\ io' = s /\ reports' = [reports EXCEPT ![s] = @ + 1]
  /\ UNCHANGED <<mainVars, mon, pipe, monVars>>

\* The I/O thread sends the event and leaves event().
SendEvent ==
  /\ io # NoSock /\ MonitorEvent(io, "event")
  /\ io' = NoSock
  /\ UNCHANGED <<mainVars, reports, mon, monVars>>

-----------------------------------------------------------------------------
(***************************************************************************)
(* main().                                                                 *)
(***************************************************************************)

\* A socket is created and monitored, and bound if it is one of those; zmq_bind
\* then calls event_listening.
Open(s) ==
  /\ mainPc = "open" /\ mon[s] = "off"
  /\ mon' = [mon EXCEPT ![s] = "on"]
  /\ IF s \in Bound THEN mainPc' = "listening" /\ at' = s ELSE UNCHANGED <<mainPc, at>>
  /\ UNCHANGED <<signalled, ioVars, pipe, monVars>>

EventListening ==
  /\ mainPc = "listening" /\ MonitorEvent(at, "event")
  /\ mainPc' = "open" /\ at' = NoSock
  /\ UNCHANGED <<signalled, ioVars, mon, monVars>>

\* Mutant of Leave: the monitor is told to stop before the sockets are closed.
LeaveStopping ==
  /\ mainPc = "open" /\ \A s \in Sock : mon[s] # "off"
  /\ mainPc' = "close" /\ signalled' = TRUE
  /\ UNCHANGED <<at, ioVars, mon, pipe, monVars>>

\* Everything is open; some time later the program is to end.
Leave ==
  /\ mainPc = "open" /\ \A s \in Sock : mon[s] # "off"
  /\ mainPc' = "close"
  /\ UNCHANGED <<at, signalled, ioVars, mon, pipe, monVars>>

\* zmq_socket_monitor(s, NULL), as far as monitor_sync.  (The programs close their
\* sockets in a fixed order, which is one of the orders here.)
StopMonitoring(s) ==
  /\ mainPc = "close" /\ mon[s] = "on" /\ ~Locked(s)
  /\ mainPc' = "stopping" /\ at' = s
  /\ UNCHANGED <<signalled, ioVars, mon, pipe, monVars>>

\* stop_monitor reports that monitoring stops, closes the PAIR and returns; the
\* socket is closed.
CloseMonitorSocket ==
  /\ mainPc = "stopping" /\ MonitorEvent(at, "stopped")
  /\ mon' = [mon EXCEPT ![at] = "closed"]
  /\ mainPc' = "close" /\ at' = NoSock
  /\ UNCHANGED <<signalled, ioVars, monVars>>

\* stopMonitor sends "X" and joins the monitor thread.
SignalStop ==
  /\ mainPc = "close" /\ \A s \in Sock : mon[s] = "closed"
  /\ signalled' = TRUE /\ mainPc' = "join"
  /\ UNCHANGED <<at, ioVars, mon, pipe, monVars>>

Join ==
  /\ mainPc = "join" /\ monPc = "exited"
  /\ mainPc' = "done"
  /\ UNCHANGED <<at, signalled, ioVars, mon, pipe, monVars>>

-----------------------------------------------------------------------------
(***************************************************************************)
(* The monitor thread.                                                     *)
(***************************************************************************)

\* monitorFunc connects a PAIR, which it may do before the other side binds.
Connect(s) ==
  /\ monPc = "connect" /\ s \notin linked
  /\ linked' = linked \cup {s}
  /\ monPc' = IF linked' = Sock THEN "poll" ELSE "connect"
  /\ UNCHANGED <<mainVars, ioVars, mon, pipe, revents, stopSeen>>

\* zmq_poll returns, with at least one socket to read from.
Poll ==
  /\ monPc = "poll"
  /\ revents' = {s \in Sock : pipe[s] # <<>>}
  /\ stopSeen' = (StopPolled /\ signalled)
  /\ revents' # {} \/ stopSeen'
  /\ monPc' = "read"
  /\ UNCHANGED <<mainVars, ioVars, mon, pipe, linked>>

\* Mutant of ReadEvent: it reads for as long as there is something to read, from
\* all sockets.
ReadEverything(s) ==
  /\ monPc = "read" /\ s \in revents /\ pipe[s] # <<>>
  /\ pipe' = [r \in Sock |-> <<>>]
  /\ revents' = revents \ {s}
  /\ UNCHANGED <<mainVars, ioVars, mon, monPc, linked, stopSeen>>

\* monitorEvent reads the two frames of one event; its receives wait.
ReadEvent(s) ==
  /\ monPc = "read" /\ s \in revents /\ pipe[s] # <<>>
  /\ pipe' = [pipe EXCEPT ![s] = Tail(@)]
  /\ revents' = revents \ {s}
  /\ UNCHANGED <<mainVars, ioVars, mon, monPc, linked, stopSeen>>

\* The last thing a pass looks at is monitorSub: the loop goes on, or the thread
\* closes its PAIRs and ends.
EndPass ==
  /\ monPc = "read" /\ revents = {}
  /\ IF stopSeen THEN monPc' = "exited" /\ linked' = {}
                 ELSE monPc' = "poll" /\ UNCHANGED linked
  /\ UNCHANGED <<mainVars, ioVars, mon, pipe, revents, stopSeen>>

-----------------------------------------------------------------------------

Finished == mainPc = "done" /\ UNCHANGED vars

Next ==
  \/ \E s \in Sock : Open(s) \/ StopMonitoring(s) \/ Event(s) \/ Connect(s) \/ ReadEvent(s)
  \/ EventListening \/ Leave \/ CloseMonitorSocket \/ SignalStop \/ Join
  \/ SendEvent \/ Poll \/ EndPass \/ Finished

\* The three threads are scheduled, and main() gets monitor_sync if it keeps becoming
\* free; when the program leaves, and what the I/O thread has to report, is open.
Fairness ==
  /\ \A s \in Sock : WF_vars(Open(s)) /\ WF_vars(Connect(s)) /\ WF_vars(ReadEvent(s))
  /\ \A s \in Sock : SF_vars(StopMonitoring(s))
  /\ WF_vars(EventListening) /\ WF_vars(CloseMonitorSocket)
  /\ WF_vars(SignalStop) /\ WF_vars(Join)
  /\ WF_vars(SendEvent) /\ WF_vars(Poll) /\ WF_vars(EndPass)

Spec == Init /\ [][Next]_vars
FairSpec == Spec /\ Fairness

-----------------------------------------------------------------------------

\* The sets the variables range over.
TypeOK ==
  /\ mainPc \in {"open", "listening", "close", "stopping", "join", "done"}
  /\ at \in Sock \cup {NoSock}
  /\ io \in Sock \cup {NoSock}
  /\ reports \in [Sock -> 0 .. MaxEvents]
  /\ mon \in [Sock -> {"off", "on", "closed"}]
  /\ pipe \in [Sock -> Seq({"event", "stopped"})]
  /\ signalled \in BOOLEAN
  /\ monPc \in {"connect", "poll", "read", "exited"}
  /\ linked \subseteq Sock
  /\ revents \subseteq Sock
  /\ stopSeen \in BOOLEAN

\* The PAIR is not thread-safe and goes away when monitoring stops.  Whoever is in
\* the middle of sending an event, for however long the pipe makes it wait, is the
\* only one, and the PAIR is open (socket_base.cpp:1718-1768).
SendsAlone ==
  /\ io # NoSock => mon[io] = "on" /\ io # at
  /\ at # NoSock => mon[at] = "on"

\* MONITOR_STOPPED is the last event of a socket, although the I/O thread may have
\* something to report until the very end (socket_base.cpp:1755-1768).
StoppedIsLast ==
  \A s \in Sock : \A i \in 1 .. Len(pipe[s]) :
    pipe[s][i] = "stopped" => i = Len(pipe[s]) /\ mon[s] = "closed"

\* What zmq_poll reported is still there when the pass comes to it: monitorEvent,
\* whose receives wait, never keeps the other sockets waiting
\* (3186/monitor.cpp:122-146).
ReadsWhatIsThere == monPc = "read" => \A s \in revents : pipe[s] # <<>>

\* A program that wants to end does: main() gets out of zmq_socket_monitor although
\* the pipes may be full, and the monitor thread out of its loop
\* (3186/peer.cpp:205-250, monitor.cpp:187-204).
Exits == mainPc = "close" ~> mainPc = "done"
=============================================================================
