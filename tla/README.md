# zmqtests: a TLA+ verification project

This directory holds TLA+ specifications of the programs in this repository, the
TLC configurations that model-check them on small instances, and proofs that
TLAPS checks. Paths of source files below are relative to `src/`.

    tlc -workers 4 -config DiscoveryMesh.cfg MCDiscovery.tla
    tlapm DiscoveryProofs.tla
    tlc -workers 4 -config Monitor.cfg Monitor.tla
    tlc -workers 4 -config Socket.cfg MCSocketBase.tla
    tlapm SocketCountProofs.tla
    tlc -workers 4 -config Pairs.cfg Pairs.tla
    tlapm PairProofs.tla

## 1. The system

The repository is a set of small ZeroMQ programs, each of which studies one hard
behaviour, and a modified libzmq source file that one of the studies produced.

| Part | State | Operations | Interacts by | What is hard | What makes it correct |
|---|---|---|---|---|---|
| **Discovery peer** `3186/peer.cpp` | map uuid → endpoint; `dataSub`'s connections; end time | one pass of the `while(1)` loop per `zmq_poll`; messages `W`, `C`, `D`; start, three ways out | publishes on `proxyPub`, reads `proxySub`; connects `dataSub` to other peers' `dataPub` | no message is acknowledged; publishes are dropped before the proxy's subscription is there; answers cross with goodbyes; kills | everybody gets connected; nobody who left stays in a map; the map and the socket agree; leaving ends; the chatter ends |
| **Discovery proxy** `3186/proxy.c` | subscriptions, queues | welcome, forward, restart | XSUB/XPUB | restart loses queues and subscriptions | (assumed FIFO per publisher) |
| **Reconnect peer and proxy** `reconnect/peer.cpp`, `proxy.cpp` | as above, no `D` | `W`, `C`; heartbeats, `ZMQ_RECONNECT_STOP` | as above | restart of proxy and peers, refused connections | a peer that comes back is heard of |
| **Inter-thread signalling** `threads/*.cpp`, `common.h` | `keepGoing`, the sequence numbers sent and received per thread, one sending socket per thread | send a ping, process a ping, shut down, join, check the results | inproc sockets (PUSH/PULL, PUB/SUB, PAIR, CLIENT/SERVER), one shared flag, two shared maps | first messages lost (PUB/SUB), deadlock (PAIR), the exit command overtaking pings | every ping is received once and in order, the program ends |
| **Monitor thread** `3186/monitor.cpp`, `reconnect/`, `connect/` | three sockets monitored, a control socket | start, poll loop, stop and join | inproc PAIRs | a loop that never looks at its stop socket | stopping ends |
| **Ping-pong** `pingpong/` | counters | request, answer | two PUB/SUB pairs | slow joiner: a lost request stops both; restarts | each request is answered once |
| **Modified socket** `libzmq/4.2.5/mods/src/socket_base.cpp` | pipes, endpoints, `inprocs`, `ctx_terminated`, `destroyed`, monitor socket | bind, connect, `term_endpoint`, send, recv, close and reaping, monitor | commands in a mailbox; reaper thread | commands processed only inside calls, and throttled; stale pipe pointers; termination handshake | a closed socket is reaped once, after its last pipe |
| **dataPub clean-up** `3186/peer.cpp:129-132,174-188`, `common.c` (`kickSocket`) | pipes of sockets that went away | poll or send to make the socket process its commands | mailbox of `dataPub` | `dataPub` is never used, so its commands pile up | pending commands are bounded |

How they interact: `threads/*.cpp` and the peers are clients of libzmq sockets; the
monitor thread and `socket_base.cpp` share the PAIR of each monitored socket; every connection that
discovery makes and cuts is a pipe that a `socket_base_t` of both peers has to attach and give up, which is
where the clean-up of `dataPub` comes from. Section 6 says what is not modelled and why.

## 2. Modules

| Module | What it is |
|---|---|
| `Discovery` | The discovery protocol: every peer process, the proxy, and the queues between them. Checked and proved about. |
| `Membership` | What discovery promises, without messages: processes join, learn of each other, forget those that decided to leave. |
| `MCDiscovery` | Constants for the runs of `Discovery`. |
| `DiscoveryProofs` | TLAPS proofs about `Discovery`, one of them that it implements `Membership`. |
| `MeshProofs` | More proofs about `Discovery`, on top of those: who stays is connected, nobody keeps a peer that left. |
| `Signaling` | The programs `threads/pushpull.cpp`, `pubsub.cpp` and `clientserver.cpp`: control threads, main loop, `main()` and the pipes between them. |
| `Pinging` | What those programs are there to show: pings are sent, received once and in order, and then the program ends. |
| `MCSignaling` | Constants for the runs of `Signaling`. |
| `SignalingProofs` | TLAPS proofs about `Signaling`, among them that PUSH/PULL and CLIENT/SERVER implement `Pinging`, and what PUB can lose. |
| `Monitor` | The monitor thread of `3186/`, `reconnect/` and `connect/`, the I/O thread and `main()` as senders of events, and the monitor's sending end in `socket_base.cpp`. |
| `MonitorProofs` | TLAPS proofs about `Monitor`. |
| `Pairs` | The program `threads/pairs.cpp`, with the PAIR sockets and the ends of their pipes. |
| `PairPipeProofs`, `PairProofs` | TLAPS proofs about `Pairs`, the second extending the first: the inductive invariant and what a step does to a pipe; that every step keeps the invariant, and what follows. |
| `SocketBase` | One socket of the modified libzmq, its mailbox, its listeners and sessions, and the pipes that connect it to them and to other sockets. |
| `MCSocketBase` | Symmetry for the runs of `SocketBase`. |
| `SocketProofs`, `SocketCountProofs` | TLAPS proofs about `SocketBase`, the second extending the first: its tables and its pipes; its counters. |

### Discovery and the code

An element of `Peer` is one run of the program, that is one uuid: `repeat`
restarts a peer under a new uuid, and the model has another element for it.

- `pc[p]`: `off`, `poll` (inside the call of `zmq_poll`, `peer.cpp:127`), `exited`, `crashed`.
- `ended[p]`: `time(NULL) > endTime` was true once (`peer.cpp:113`); it stays true.
- `advert[p]`: `pubEndpoint`, read back after the bind (`peer.cpp:62-64`), or the
  empty string when the bind failed, which `CALL_INT_FUNC` only logs.
- `peers[p]`: the keys of the map. The endpoint stored with a key is the one its
  messages carry, and that never changes: it is `advert[key]`.
- `conns[p]`: the endpoints `dataSub` is connected to.
- `link[p]`, `fromPeer[p]`: the connection of `proxyPub` to the proxy's XSUB, and
  what has been published on it and the proxy has not read.
- `toPeer[p]`, `subs`: what the proxy's XPUB has sent to `proxySub` and `peer.cpp:141`
  has not read, and the subscriptions the XPUB has.
- `proxyId`: which run of the proxy this is. A welcome message of an earlier run
  names a frontend that is not there any more.

One action is one pass of the loop, from the return of `zmq_poll` round to the next
call: the pass announces the peer if it has not heard itself, deals with at most
one message of `proxySub`, and looks at the clock at the head of the loop. All of
that is local to the process, except what it publishes, which the model appends to
`fromPeer` in the order of the code. `NextPass` is the head of the loop:
`KeepPolling` before the end time, `SayGoodbye` after it, and `LeaveAtOnce` with
`-immediate-exit`; each receiving action ends with it, `ReceiveOwnDisconnect`
excepted, which breaks out of the loop. When a peer exits, what `close()` does not
flush of `proxyPub` is lost: any prefix of the queue survives, all of it with a
linger that is long enough (`Linger`). The default linger is 0 (`params.c`).

Outside the process, `ProxySubscribe`, `ProxyPubUp` and `ProxyForward` happen when
they like, so every delay of a connection, a subscription or a delivery is
covered. Messages of one publisher stay in order; messages of different
publishers are interleaved as the proxy pleases, the same for all subscribers.

Abstracted: the data channel (what arrives on `dataSub` is read and thrown away,
`peer.cpp:193-196`, which is `PollTimeout`'s second reason), the monitor thread,
the experiments with `dataPub` (`-fix1256`, `-poll-after-disconnect`,
`-send-after-disconnect`, `-duplicate-disconnect`, whose second `zmq_disconnect` fails and
is logged; `SocketBase` says what they are for), high water marks, and the context's termination, which the model takes
to return; `SocketBase` shows when it does not.

### Signaling and the code

`transport` is the program that runs: PUSH/PULL, PUB/SUB or CLIENT/SERVER. Three kinds of
thread, each with its program counter:

- `threadPc[t]`: `commandLoop` (`common.h:94`). `NextPing` is the test of `keepGoing` and the
  increment of `maxControlMsgSent`, which happens before the send; `SendPing` is the
  send and the test at the bottom of the loop. The two are separate actions because
  a send may block, and because the main loop may read between them.
- `loopPc`: `mainLoop`. `Bind` ends its set-up; `ReceivePing` and `ReceiveExit` are one pass of
  the loop with `processControlMsg` (`common.h:119`) inlined. `keepGoing` is tested at the head of
  the loop, so the pass that clears it is the last, and closes the sockets.
- `mainPc`: `main()`, from the join of the control threads through the sleep, the
  exit command and the join of the main loop, to `checkResults`.

`sent`, `received`, `keepGoing` and `failed` are the globals of `common.h`. `pipe[s]` is what socket `s`
has sent and the main loop has not received. In PUSH/PULL and PUB/SUB each thread has a
socket of its own in thread-local storage, the thread of `shutdownFunc` too; in
CLIENT/SERVER all share one (`SocketOf`), which is thread-safe, so a send is one step. The
receiving socket takes from its pipes in any order, each pipe being FIFO.
libzmq is modelled by what the programs rely on: PUSH and CLIENT block at the high water
mark, PUB drops there, and drops everything until the subscription has arrived
(`Subscribe`). inproc sockets may connect before the other side binds; in
`clientserver.cpp` `main()` binds before anything else runs, where `Bind` is merely the start of the main loop.

Abstracted: the data socket (its messages are read and thrown away), `-rate` (a
thread may be slow at any point), `-poll` (which makes a subscription more likely to be in time,
not certain), and SIGINT, which prints and exits.

### Monitor and the code

Three threads share the PAIR of each monitored socket, which `zmq_socket_monitor` creates:

- `main()` (`mainPc`): opens and monitors its sockets, binds some of them, and at the end
  stops monitoring them one after the other, sends `X` and joins the monitor thread.
- the I/O thread (`io`): calls `event()` when something happens to a connection.
- the monitor thread (`monPc`): connects a PAIR to each, polls them all and
  `monitorSub`, reads one event from each that was reported, and leaves when `monitorSub` was.

`at` and `io` are the sockets whose `monitor_sync` `main()` and the I/O thread hold. The lock
is held while `monitor_event` waits in `zmq_sendmsg`, for the monitor thread to connect or for
room in the pipe; `MonitorEvent` has that wait as its guard, so a thread that waits is one that is inside
`event()` or `stop_monitor()` and has no enabled action. The two frames of an event are one message
to the pipe. `StopPolled` tells `monitorFunc` of `3186/` and `reconnect/` from that of `connect/` and from
`connectMonitor` of `reconnect/connect.cpp`, which do not poll `monitorSub`.

`main()` closes its sockets in a fixed order, of which the model allows any.
What libzmq sends on behalf of a socket that is not monitored any more goes nowhere
(`monitor_events` is 0), so the model has no such step. Not modelled: the error returns of `monitor()` (bad address,
terminated context), a second `zmq_socket_monitor` on the same socket, and `socketMonitor == 0`, where
none of this exists.

### Pairs and the code

A PAIR has one connection at a time, so `sendCommand` (`pairs.cpp:40-56`) connects, sends and disconnects
for every message. `pc[s]` is where thread `s` is in `commandLoop` and `sendCommand`, one action per libzmq
call; a call first processes the commands in the socket's mailbox (`Drained` and the `Process...` actions), a
send only now and then. `flags` are `-mutex`, `-poll` and `-nowait`. A pipe is named by the thread and the message that it
was made for, and has two ends, at the thread (`s`) and at the loop; `end`, `unread`, `attached` and
`mailbox` are what `pipe_t` and `pair_t` keep. Those two classes are not in the repository; they are modelled
from how the program and `socket_base.cpp` use them (`hiccuped`, `pipe_terminated`, `process_commands`, `term_endpoint`), and
marked external in `PROJECT.json`. What is connected before the main loop binds waits in the loop's mailbox, as
it would wait in the context (`Bind`). What follows the loop's `close` is left to `SocketBase`, whose `CloseEnds` is about it.
The message over the data socket, which does not meet the PAIRs, is left out.

### SocketBase and the code

One `socket_base_t` that is not thread-safe. Its variables are those of the class and of `own_t`:
`terminating`, `destroyed`, `termAcks`, `owned`, `pipes`, `endpoints`, `inprocs`, `ctxTerminated`; `unseen` is
`sent_seqnum - processed_seqnum`; `registered` is what the context knows of it.

- A call is three steps: `Call` (it finds the context alive), the commands it processes
  (`CommandStep`) until `Drained`, and its body (`BindListener`, `ConnectSession`, `Disconnect`, ...), of which each is one handler from the return
  of `process_commands` to its own return, with its error paths in `Refuse`. Other threads may
  put commands in the mailbox between any two of them. A `recv` or `send` may skip the mailbox
  (the time-stamp throttle of `process_commands`) and may wait and try again.
- `linger` is the socket's `ZMQ_LINGER`, infinite until `SetLinger` (`EarlyLinger` is the program's `-early`). Others keep copies of
  it: a listener from the bind on (`bound` are those with an infinite one), a child that is told to go from then on (`patient`).
  `sent` are the pipes that hold something the application has sent, so far as it matters, and `lost` those
  of accepted connections that were lost before it went out, whose sessions go by their listener's copy (`Lose`).
- `Reads` says that the socket's type reads; a PUB or PUSH never reads a delimiter (`set_nodelay`).
- `Close`, `StartReaping`, `CheckDestroy` are the way to the reaper and out. The reaper's
  processing of commands is `CommandStep` again (`in_event`).
- `state` and `kind` are the life of a listener or session (`Child`): launched, wanting to go (`asking`), told to go, without pipes, gone. A
  session is `eager` or `lazy`, as `ZMQ_IMMEDIATE` was when it was made.
- `l[p]` and `r[p]` are the two ends of the pipe at address `p`, `toR[p]` what the socket has sent to the other end. Both ends are
  deallocated separately; an address may be used again when both are. A handler that reaches an end
  that is free, or in a state `pipe_t` asserts against, makes it `corrupt`, a hiccup included.
- `Attach`, `ProtocolError`, `Hiccup`, `TerminateOther`, `Lose`, `Delivered`, `OtherEnd`, `HandleTerm`, `Finish`, `Find`, `SendBind`, `Adopt` are the
  other threads: what sessions, listeners and sockets connected over inproc do to this one. They are external, modelled
  by the commands that `socket_base.cpp` gets and by what it asks of them.

Left out: thread-safe sockets, UDP and multicast transports, groups, `process_term_endpoint`, a
socket that connects to an address it has itself bound over inproc, the options other than
`ZMQ_IMMEDIATE` and `ZMQ_LINGER`, multi-part messages, and the monitor (which is in `Monitor`). Distribution of messages to
pipes (`xsend`, `xrecv`) is a matter of the socket's type and not of this file: of messages, only the
delimiter that ends a pipe is there, and whether something was sent through it.

## 3. What is checked

| Run | Instance | Shows |
|---|---|---|
| `mesh` | 3 peers, 2 of them long-lived, the third may leave at any time; queues of 2 ahead of the reader (3.8 million states) | `DirectConnections`: whenever nothing is in flight and everyone has heard itself, everyone is connected to everyone that stays; `NoGhosts`: whatever a peer has heard or will hear of one that left, a `D` follows it; `TypeOK` |
| `faults` | 2 short-lived, one of them `-immediate-exit` with a linger of 0, the other with one that flushes; one kill, one proxy restart, fairness (148 thousand states) | `MeshForms`, `DepartureCompletes`, `GhostsVanish`, `ChatterEnds`, `PeersConnected`, `Honest`, the refinement `KeepsMembership` |
| `proxy_restart` | 2 long-lived, one proxy restart | violates `DirectConnections`: see Findings |
| `signaling` | PUSH with a sleep long enough, and CLIENT with any; 3 threads, 4 pings each, pipes of 2, fairness | the refinement `KeepsPinging`, `Terminates`, `InOrder`, `FlagUnshared`, `SendsAsAsked`, `TypeOK` |
| `sig_pub` | PUB, 3 threads, 3 pings, pipes that hold them all | `OnlyInitialLost`, `FlagUnshared` |
| `pairs` | 2 threads, 2 pings each; with `-poll`, with `-mutex`, with all three flags; fairness (414 thousand states) | `EndsUnlessStuck`, `StuckForEver`: the deadlock of `threads/README.md:155`, and that it is the only one; `RefusedByOthers`, `FailsOnlyRefused`, `ExitIsLast`: what a refused connection costs, and that nothing else costs anything; `DisconnectFinds`, `TypeOK` |
| `monitor` | 3 sockets, one of them bound, pipes of 2 events, 2 reports each, fairness | `SendsAlone`, `StoppedIsLast`, `ReadsWhatIsThere`, `Exits`, `TypeOK` |
| `monitor_connect` | 1 socket, a loop that does not poll its stop socket, fairness | violates `Exits`: see Findings |
| `socket` | 2 sessions or listeners, 2 pipe addresses, 1 address to bind and connect, any calls (3.2 million states) | `NothingLeft`, `NoUseAfterFree`, `NoneForgotten`, `InHandshake`, `TypeOK` |
| `socket_close` | an inproc address and another, a socket that connects over inproc, 1 child, 1 pipe address, linger set at any time or never, fairness (778 thousand states) | `CloseEnds`, `EndsUnlessKept`, `PipesReleased`, `NothingLeft` |
| `socket_late` | 1 address that is not inproc, 1 child, 1 pipe address, a socket that does not read, fairness | violates `LateLingerEnds`: see Findings |
| `socket_alias` | 2 addresses, 2 sessions, 1 pipe address | violates `CutsItsOwn`: see Findings |

Bounds of discovery. `MaxBacklog` limits the messages in flight when a poll times out, so that
repetitions of `C` and `D` do not fill the queues: with 0 and 1 a peer still
repeats itself before its first message came back. `MaxUnread` is how far the
proxy may be ahead of a subscriber; with 2
a `C` and a `D` of two peers are side by side in one queue while answers to them cross on others; with 1, in `faults`, they
wait in the queues of their publishers, in any order. `MaxCrashes` and
`MaxProxyRestarts` count kills; `MeshForms` and `GhostsVanish` ask nothing after a restart of the proxy (finding 1), `GhostsVanish`
only of peers whose `close()` flushes, and `DepartureCompletes` and `ChatterEnds` hold in any case. Three peers are enough for the cases the
properties are about: one that leaves, one that arrives while it does, and one
that hears of both; nothing in a pass depends on more than two uuids. The proofs
have none of these limits, apart from the guards that mention the bounds.

Bounds of signalling. `NumMsgs` is larger than `Hwm` by one or two, enough for a pipe to fill, to drain and to
carry what follows;
three threads mix their pings in every order. `sig_pub` uses a pipe as long as
`NumMsgs`, so that the only losses are those before the subscription.
`Patient` says that `-sleep` is long enough ("to allow time for messages to be received and
processed", `threads/README.md:63`): without it the PUSH program may take the exit command
before pings that wait in other pipes, and `KeepsPinging` does not hold; `InOrder` and
`FlagUnshared` still do, which the proofs show. CLIENT does
not need the assumption: there is one pipe.

Bounds of the monitor. `MaxEvents` limits what the I/O thread has to report of a
socket; 2 with pipes of 2 events makes senders wait, together with the
LISTENING event of a bound socket and MONITOR_STOPPED. Nothing relates two monitored sockets
but the I/O thread and the pass of the monitor thread, so three suffice.

Bounds of PAIR. Two threads and the shutdown thread are three sockets that compete for
the one pipe of the main loop, and with two pings a thread's own second connection meets its first, too. The
three sets of flags are the ones `threads/README.md` discusses; the handshakes make each further set or
ping several times larger.

Bounds of the socket. `MaxMailbox` limits what other threads do of their own accord: they do it
only while the mailbox is shorter than that. Answers that the socket waits for are never
held back. `MaxFound` is how many inproc sockets may be about to connect. Two
addresses for pipes are enough for one to be used again while another is in the middle of its
handshake; two children, for a disconnect to find one that is owned and one whose `own` is
still on its way. Two calls are never in progress at once, so nothing is lost with the one application
thread. The proofs have none of these limits but the guards that mention them.

Deadlock checking is off in the runs of discovery, since when all peers have
exited the system may stop, and in `sig_pub`, since the exit command may be lost and
`main()` then waits for ever (`threads/README.md:70` reports it), and in `pairs`, where a deadlock is the subject. It is off in
`socket_close` and `socket_late`, too: a message that is kept for ever stops everything, which is what these runs are about.
It is on in the other runs, where `Finished` or `Freed` is the only way to stop.

Fairness of discovery (`Fairness`): a running process keeps going round its loop, since
`zmq_poll` returns after at most a second (weak fairness of `PollTimeout`, asked
only of passes that leave the end time where it was, so that a peer may also run on for ever);
a message that stays readable is found by some later poll (strong fairness of
`PollMessage`, because the model's choice between a timeout and a message is free,
while the code's poll reports a message that is there); TCP connections that can be
made are made and the proxy forwards. Starts, kills and restarts have none, and
neither has the moment when a short-lived peer's time is up: `DepartureCompletes`
starts from a peer that has noticed it.

Fairness of signalling: threads are scheduled (weak fairness of their steps). A send
that waits for room in a pipe gets it when room keeps appearing (strong fairness
of `SendPing` and `SendExit`: threads that share the CLIENT socket compete for one pipe, and a
waiting thread is woken). The main loop's socket serves its pipes in turn (weak
fairness for each pipe, as libzmq's fair queueing does).

Fairness of the monitor: the three threads are scheduled, and `main()` gets `monitor_sync` of a
socket if the I/O thread keeps releasing it (strong fairness of `StopMonitoring`). The
moment the program wants to end has none.

Fairness of PAIR: threads are scheduled, a thread that waits for the mutex gets it, and
`zmq_poll` with a timeout returns.

Fairness of the socket (`Fairness`): calls return, the reaper and the I/O threads run, and `zmq_ctx_term` ends what still waits for a
bind. Nobody is obliged to make a call, to close the socket or to terminate the context. What was sent is assumed to be delivered
or dropped only where somebody sees to it (`Linger`): by a session that was told to go, when its linger is over, and by another socket of the
process once the context is terminated. It is not assumed of what is `Kept`, where the session was told to keep it without a limit:
because the socket's linger was infinite then (`patient`), or because it goes by the copy of its listener (`lost`).
`CloseEnds` is therefore about a socket whose linger was set before it bound or connected anything, and `EndsUnlessKept` about any.

`PipesReleased` has its hypotheses in the formula and not in the fairness: that `ZMQ_EVENTS` is asked for infinitely often, and that no
end waits for ever for its delimiter to be read. `kickSocket` (`3186/common.c:9`, with `-poll-after-disconnect`) asks once for
every `D` that the peer acts on, so this is a peer among others that keep coming and going, and with `-fix1256` every peer, which asks on
every pass. `dataPub` does not read, so none of its ends waits at all. After the last `D` nothing need ask any
more, and a pipe may stay.

Each property has a mutant of the code it depends on (`PROJECT.json`), a definition
that stands before the original, with a comment that says what is wrong with it.

## 4. What is proved

`DiscoveryProofs`, for any set of peers, any flags, any number of kills and
restarts, from `DiscoveryAssumption` alone (the constants have their types):

- `TypeCorrect`: `Spec => []TypeOK`. `TypeOK` is inductive. The work is in
  `PassTyped`: whatever way a pass ends, queues remain queues of messages.
- `AlwaysHonest`: `Spec => []Honest`. No message says of a peer what is not so: it
  has started, and if the message is `D` it has decided to leave. `Honest` covers all
  queues and all maps, which makes it inductive relative to `TypeOK`; it needs
  that a process neither un-starts nor changes its mind (`Irrevocable`), so that
  what was sayable when sent is so when read (`SayableGrows`).
- `MapMatchesSocket`: `PortsDistinct /\ Spec => []PeersConnected`. If no two processes
  ask for one port, `dataSub` is connected to exactly the endpoints of the map.
  `PeersConnected` needs two strengthenings: the map names started peers only (`Honest`),
  and a started peer advertises its own port (`Advertised`), so two keys never
  share an endpoint that a `D` for one would take from the other. Section 5 says what
  happens without the assumption.
- `ImplementsMembership`: `Spec => KeepsMembership`, the refinement. Each pass maps to
  `Learn`, `Forget`, `Quit` or `Depart`, or to nothing; `Honest` supplies the guards of
  `Learn` (the peer joined) and `Forget` (the peer decided to leave).

`MeshProofs` extends `DiscoveryProofs` with the two promises about who is in whose map. Both need that the proxy keeps
running (`Steady`: `MaxProxyRestarts = 0`); they hold for any number of peers and kills and any backlog:

- `NobodyKeepsGhosts`: `Steady /\ Flushes /\ Spec => []NoGhosts`, if `close()` flushes (`Flushes`: `Linger = Peer`). `MeshInv` has
  three parts. `Attached`: the proxy knows running peers only, and who it does not know has an empty map and queue.
  `Silent`: a peer whose `proxyPub` is not connected is in no map and no queue. `Departing`: of a peer that has decided to leave, the last message the
  proxy has not read is `D`, and once the proxy has read all, every `C` in a queue has a `D` behind it, as has every entry of a map. The step
  that could break it is an answer to a newcomer after the `D`; the `D` that every pass of a leaving peer ends with restores it.
- `EveryoneIsConnected`: `Steady /\ PortsDistinct /\ Spec => []DirectConnections`. `Meets(p, q)` is the argument why two
  publishers without acknowledgements find each other: if the proxy got the subscription of `p` before it passed on a `C` of `q`, `p` hears of `q`;
  if not, then a `C` of `p` is still to reach `q`, who answers, and can, because who was heard is connected (`HeardLinked`). It needs `Linked`:
  a process connects `proxyPub` only after it has subscribed, because it learns where from the welcome message.

`SignalingProofs`, for any number of threads, messages and any pipe length, from
`SignalingAssumption`:

- `TypeCorrect`: `Spec => []TypeOK`.
- `FlagNeverShared`: `Spec => []FlagUnshared`, for every transport. The inductive invariant
  `ExitLast` follows the exit command: until `main()` has joined all threads there is none in any
  pipe and the flag is set.
- `PushInOrder`: `Transports = {"push"} /\ Spec => []InOrder`. `Consecutive` is the
  invariant: the pings in a thread's pipe continue what was received from it without a gap, up to
  what it has sent, less the ping it is about to send; the exit command is in the
  shutdown thread's pipe only. `PushAppends` and `NextReceived` say what a send and a receive do to it.
- `PushKeepsPinging`: `PatientPush /\ Spec => KeepsPinging`, the refinement. `Settled` adds that a
  thread that is done has sent exactly `NumMsgs`, and that the pipes are empty from `Wake` on,
  which with `Consecutive` makes sent and received equal at the end.

And of the other transports, for any number of threads and messages:

- `EachSendsAsAsked`: `NumMsgs > 0 /\ Spec => []SendsAsAsked`, for every transport. `Sending` ties the control thread's place
  to its flag and its counter; that nobody else clears the flag while it sends is `FlagNeverShared` again.
- `ClientInOrder`: `OnlyClient /\ Spec => []InOrder`. The pings of all threads mix in one pipe, so `Consecutive` does not
  fit. `Chained` follows each thread's pings through that pipe: two of them with none between differ by
  one, the first is the one expected next, the last is the last one sent, and nothing comes after the exit command.
- `ClientKeepsPinging`: `OnlyClient /\ Spec => KeepsPinging`, the refinement, without patience: the exit command
  enters the pipe when all pings have (`ExitAtEnd`), so the receiver has read them all when it stops.
- `PubLosesOnlyFirst`: `RoomyPub /\ Spec => []OnlyInitialLost`. `OnlyRest` says that the pings in a thread's pipe are always the last
  ones it sent, which needs that the pipe is never full (`RoomyPub`: it holds `NumMsgs` messages) and that a subscription is not taken back.

`MonitorProofs`, for any number of sockets and reports and any capacity, from `MonitorAssumption`:

- `TypeCorrect`; `AlwaysAlone`: `Spec => []SendsAlone`, that `monitor_sync` keeps senders apart and
  the PAIR open while somebody sends. `SendsAlone` is inductive given the types.
- `NothingFollows`: `Spec => []StoppedIsLast`, which follows from `SendsAlone`: an event can be
  appended only to the pipe of a PAIR that is on, and that has no MONITOR_STOPPED yet.
- `NeverWaitsInPass`: `Spec => []ReadsWhatIsThere`. Others only add to pipes, and a read takes its
  socket off the list. It is why the monitor thread keeps reading, on which
  everybody who waits in a send depends.

The two modules about `SocketBase` prove its safety properties, but the one that the code does not
have, for any number of children, pipes and addresses, from `SocketAssumption`:

- `SocketProofs`: `SetsCorrect` (`Spec => []Shapes`, the types without the counters, inductive by itself) and
  `NobodyForgotten` (`Spec => []NoneForgotten`). Its inductive invariant `Tracked` adds that while a call
  works, no `own` command is on its way, which is what makes it safe that `process_term_req` leaves out the children that are
  not owned.
  `HandshakesAgree` (`Spec => []InHandshake`) and `NothingUsedAfterFree` (`Spec => []NoUseAfterFree`).
  `InHandshake` says which combinations of the two ends, the commands in the mailbox and those on their way to the other end occur, but not
  in which order the commands in the mailbox are, and a handshake in which the acknowledgement overtook the request, or
  either overtook `bind`, would break, and a hiccup that came after `pipe_term` would reach an end that does not expect it. `Fitting` adds that order (`InOrder`, by `Ordered`, with lemmas for what an
  append and a receive do to it), that a pipe is attached exactly while its end lives and its `bind` has been processed (`Known`), and that `inprocs` names only attached pipes.
- `SocketCountProofs`: `TypeCorrect` (`Spec => []TypeOK`, that neither counter becomes negative) and `DestroyedWithNothingLeft`
  (`Spec => []NothingLeft`). `Counted` says what the counters count: `unseen` the `own` and `bind` commands in the
  mailbox and the sockets that are about to send one, `termAcks` the children told to go and, once the socket is closed, its pipes. With it
  go what is known of each child (`ChildFit`), and that a socket being closed owns and registers nothing. The proofs count with the
  library's theorems on cardinalities.

`PairPipeProofs` and `PairProofs`, for any number of threads and messages and any set of flags, from `PairsAssumption`
(the threads are finitely many and are neither the main loop nor `None`): all the safety and action properties of `Pairs`.
They rest on one inductive invariant, `IInv` (`PairsInvariant`: `Spec => []IInv`), which TLC had checked before it was proved, with two threads and two pings
each, one thread and three, and `-msgs` 0 and 1. None of the properties is inductive alone, and most parts of `IInv` need most of the others:

- `Places`: where the program is. A thread ends after its last ping, the shutdown thread starts when all have ended, and the main loop
  does not end before. `Connected`, `WasSent` and `Past` say how far a pipe's thread has come with it.
- `Handshake`: `Talk(p, x)` says which states the two ends of a pipe can have together (`Agree`), and that `pipe_term` and
  `pipe_term_ack` are on their way to an end exactly when the states call for it (`TermDue`, `AckDue`), `bind` before
  the first and the first before the second. Without the order a request could be taken after the answer, and without "exactly" an end could wait for
  ever or be told twice. No mailbox holds a command twice (`Boxes`), so taking one leaves none like it.
- `Tidy`: a thread's PAIR has the pipe that its thread is to disconnect, and an end that still lives after its thread has sent is the
  one that is attached.
- `Data`: what the main loop's end holds is nothing, the ping, the delimiter, or both in that order; a ping that was sent is there or was received
  unless the pipe was refused; and the PAIR has a pipe exactly while its end lives and its `bind` was taken.
- `Binds`: the `bind` commands come in the order of the connections of a thread, and the exit command's last. `Freed`: if a thread's PAIR
  had room for a connection, the acknowledgement that ended the one before is in the main loop's mailbox ahead of its `bind`.
- `GotSent`, `ExitIsLast`, `Orderly`: what the received numbers mean.

Every step is one of five kinds (`Kinds`): it does nothing to the pipes, or it is `Connect`, `Send` or a reception, or it
is a `Shift`: one end of one pipe goes to another state, having taken a command or not, and the other end is told. The six actions of the
handshake are shifts (`ReadDelimiterShifts`, `ProcessBindShifts`, ...), so that `Due`, `MoveMail` and `TalkMove` go through the transitions of the handshake once.

- `PairsFailsOnlyRefused`: with at least one message to send, nothing fails unless a connection is refused. `Settled` is the step that
  matters: when the PAIR has a pipe, it is done with all those connected before, and what was sent to them was received or they were refused.
- `PairsExitIsLast`: the exit command is received after everything else that is not refused, by `Settled` again, without `main()`'s sleep.
- `PairsDisconnectFinds`, from `Tidy`; `PairsTypeCorrect`.
- `PairsRefusedByOthers`: an earlier pipe of the same thread that is still attached when a `bind` is at the head of the mailbox would need an
  acknowledgement ahead of it (`Freed`, `AckDue`), so the thread's PAIR had no room for the new one.
- `PairsStuckForEver`: only a thread's own `Connect` gives its PAIR a pipe it can write to, and no shift makes an end
  active (`NoPipeComes`).

Only model-checked, because it is out of TLAPS's reach: the liveness properties (`MeshForms`, `DepartureCompletes`, `GhostsVanish`,
`ChatterEnds`, `Terminates`, `Exits`, `EndsUnlessStuck`, `CloseEnds`, `EndsUnlessKept`, `PipesReleased`).

## 5. Findings

1. *A proxy restart can leave peers apart* (`proxy_restart`). `3186/Readme.md:7` says that
   each process connects to every other process. A peer stops announcing itself
   when it has heard itself (`peer.cpp:135`), and answers each newcomer once
   (`peer.cpp:160`). If the proxy is killed while such a message is on its way, both
   peers reconnect to the new proxy in silence.
2. *A monitor that cannot be stopped* (`monitor_connect`). `connectMonitor` (`reconnect/connect.cpp:28`)
   and `monitorFunc` of `connect/monitor.cpp:227` do not poll `monitorSub`, so `stopMonitor` waits in
   `pthread_join` for ever and "Exiting normally" (`reconnect/connect.cpp:88`) is never logged.
3. *A disconnect can cut another connection* (`socket_alias`). `term_endpoint` of the modified libzmq looks whether the pipe
   that the endpoints map names is still one of the socket's (`socket_base.cpp:1069-1077`), which makes
   the use after free of the original impossible, but compares addresses only. The socket connects to x; the session ends by itself
   on a protocol error, and its pipe is deallocated; a connect to y gets its pipe at the same address; the disconnect of x then
   terminates the pipe of y, which stays in the endpoints map with a session that has none.
4. *A linger set late leaves `zmq_ctx_term` waiting* (`socket_late`). linger is infinite when a socket is made
   (`socket_base.cpp:207`), and `peer.cpp:205-206` sets it only before the close. A listener has copied it at the bind. If something was
   sent to an accepted connection and the connection is lost before it is out, the listener tells the session to go with the infinite
   linger, the session keeps its pipe, and the socket is never deallocated ("Ultimately, the socket will be destroyed",
   `socket_base.cpp:1498`). It fits what `3186/Readme.md:138-147` and `205-216` report of `-send`: an intermittent hang that needs a message sent
   and a linger set immediately before the close, and that `-early` avoids. With `-early` the listener's copy is finite, and `CloseEnds` holds.
   `EndsUnlessKept` adds that in the instance of `socket_close` no other order of sending, setting linger, closing and terminating hangs.

Not findings, but worth knowing:

- With the default linger of 0 the last `D` may never leave the process, so `NoGhosts` is checked
  with a linger that flushes; no property is about what peers keep otherwise. A killed peer stays in every map for ever, with `dataSub`
  reconnecting to it: the code has nothing that would notice, and `KeepsMembership` allows it.
- Peers are known by uuid and disconnected by endpoint (`peer.cpp:169`). With `-port`, a process may start on the port of one that has just
  left. Who hears of it before the `D` of the first finds the connect a repetition (`socket_base.cpp:785-797`), and the `D` then cuts the
  connection to both: the second stays in the map and is never connected again. `MapMatchesSocket` and `EveryoneIsConnected` therefore assume
  distinct ports (`PortsDistinct`), and the runs have them. With them no bind fails, so the failing bind that is only logged (`peer.cpp:62`)
  does not occur there; a peer that has one announces an empty endpoint, and nothing could connect to it.
- `peer.cpp:129` says that asking for `ZMQ_EVENTS` "doesn't work", and `3186/Readme.md:136` that "in testing that does not appear to be the
  case". By this source it does clean up: `getsockopt` of `ZMQ_EVENTS` calls `process_commands` without throttling it (`socket_base.cpp:412`), and
  `PipesReleased` holds. But a query acknowledges the `pipe_term` of a peer, and only a later one finds the answer and deallocates
  the pipe: one query per disconnect stays behind, which may be what the test saw. What libzmq 4.2.3, with which the author tested, does
  is not in the repository.
- `-msgs 0` sends one ping (`commandLoop` tests the limit after sending, `common.h:110`), and `checkResults` then makes the
  program fail; `SendsAsAsked` is for one message and more.
- Where a connect of a socket type with a single connection finds a stale entry of the endpoints map, it returns 0 and does
  nothing (`socket_base.cpp:785-797`).
- The vector of `term_endpoint` at `socket_base.cpp:1067` is created with as many null pointers as there are entries, and then
  appended to. No pipe is null, so all the harm is that the loop over the pipes never stops early.

## 6. Not modelled

- The experiments of `3186/peer.cpp` with `dataPub` (`-fix1256`, `-poll-after-disconnect`, `-send-after-disconnect`, `-duplicate-disconnect`) as
  parts of the peer: they are calls on a socket, and what such a call does to the pipes that peers have left
  is `PipesReleased` of `SocketBase`.
- `reconnect/peer.cpp` and `proxy.cpp`: an earlier form of the program in `3186/`, without goodbyes; what is different is
  `ZMQ_RECONNECT_STOP`, an option of a libzmq that is not in the repository.
- `pingpong/`: two programs whose steps follow one another. What can go wrong is that a message is dropped before the
  subscription arrives, after which both wait for ever; there is nothing in the code that deals with it. The dropping is modelled in
  `Discovery` and `Signaling`.
- `threads/sample.c`, the two-message example of the ZeroMQ guide.
- `connect/dummy.cpp`, which sleeps for a day and terminates the context.
- Of `socket_base.cpp`: see the end of "SocketBase and the code".
- Parsing of command lines (`params.c`), logging, `zhelpers.h`, build and administration scripts: no state that a
  property is about. Flags are constants or initial states of the models.
