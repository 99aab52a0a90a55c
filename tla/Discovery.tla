----------------------------- MODULE Discovery -----------------------------
(***************************************************************************)
(* The peer discovery protocol of 3186/peer.cpp over 3186/proxy.c.         *)
(*                                                                         *)
(* A peer process has a PUB socket of its own (dataPub) and a SUB socket   *)
(* (dataSub) that it connects to the dataPub of every peer it knows.  It   *)
(* learns of peers through a forwarder, the proxy: it subscribes to the    *)
(* proxy's XPUB with proxySub, gets a welcome message 'W' that names the   *)
(* XSUB endpoint, connects proxyPub to it, and publishes 'C' (connect) and *)
(* 'D' (disconnect) messages which the proxy hands to every subscriber,    *)
(* the sender included.                                                    *)
(*                                                                         *)
(* An element of Peer is one run of the program: `repeat' starts a new     *)
(* process with a new uuid, so a restart is another element of Peer,       *)
(* perhaps with the Port of an earlier one.                                *)
(***************************************************************************)
EXTENDS Naturals, Sequences

CONSTANTS
  Peer,             \* process instances, identified by their uuid
  Endpoint,         \* the addresses a dataPub can be bound to
  NoEndpoint,       \* the empty string a peer advertises when its bind failed
  Port,             \* Port[p]: the endpoint p asks for
  LongLived,        \* peers started with -long-lived, or without -seconds
  ImmediateExit,    \* peers started with -immediate-exit
  Linger,           \* peers whose -linger lets close() flush proxyPub
  MaxCrashes,       \* bound: how many peers are killed
  MaxProxyRestarts, \* bound: how often the proxy is killed and started again
  MaxBacklog,       \* bound: messages in flight when a poll times out
  MaxUnread         \* bound: messages the proxy keeps for one subscriber

ASSUME DiscoveryAssumption ==
  /\ NoEndpoint \notin Endpoint
  /\ Port \in [Peer -> Endpoint]
  /\ LongLived \subseteq Peer /\ ImmediateExit \subseteq Peer /\ Linger \subseteq Peer
  /\ MaxCrashes \in Nat /\ MaxProxyRestarts \in Nat /\ MaxBacklog \in Nat /\ MaxUnread \in Nat

VARIABLES
  pc,         \* where a process is in main()
  ended,      \* it has seen time(NULL) > endTime
  advert,     \* the endpoint its messages carry (pubEndpoint)
  peers,      \* the keys of its map uuid -> endpoint
  conns,      \* the endpoints its dataSub is connected to
  link,       \* its proxyPub's connection to the running proxy
  fromPeer,   \* messages published by it that the proxy has not read
  toPeer,     \* messages of the proxy that it has not read from proxySub
  subs,       \* the peers whose subscription the proxy's XPUB holds
  proxyId,    \* which run of the proxy this is
  crashes     \* how many peers were killed

vars == <<pc, ended, advert, peers, conns, link, fromPeer, toPeer, subs, proxyId, crashes>>

-----------------------------------------------------------------------------

\* Mutant of Welcome: the welcome message carries the wrong command.
WelcomeAsConnect(n) == [command |-> "C", uuid |-> n]

\* A connectMsg.  The endpoint field is advert[uuid] for 'C' and 'D', and for
\* 'W' it is the frontend of the proxy run named in the uuid field.
Welcome(n)    == [command |-> "W", uuid |-> n]
Connect(p)    == [command |-> "C", uuid |-> p]
Disconnect(p) == [command |-> "D", uuid |-> p]

Msg == [command : {"W"}, uuid : Nat] \cup [command : {"C", "D"}, uuid : Peer]

Running  == {p \in Peer : pc[p] = "poll"}
KnowsSelf(p) == p \in peers[p]

\* What is left of a queue whose owner goes away before everything is sent.
Prefixes(s) == {SubSeq(s, 1, n) : n \in 0 .. Len(s)}

Init ==
  /\ pc = [p \in Peer |-> "off"]
  /\ ended = [p \in Peer |-> FALSE]
  /\ advert = [p \in Peer |-> NoEndpoint]
  /\ peers = [p \in Peer |-> {}]
  /\ conns = [p \in Peer |-> {}]
  /\ link = [p \in Peer |-> "none"]
  /\ fromPeer = [p \in Peer |-> <<>>]
  /\ toPeer = [p \in Peer |-> <<>>]
  /\ subs = {}
  /\ proxyId = 0
  /\ crashes = 0

-----------------------------------------------------------------------------

\* zmq_send on proxyPub.  A PUB socket drops what no subscription asks for, so
\* nothing is kept until the proxy's subscription has reached proxyPub.
SendConnectMsg(p, msgs) == IF link[p] = "up" THEN fromPeer[p] \o msgs ELSE fromPeer[p]

\* "keep sending a connect msg until we connect to our own pub"
SelfAnnouncement(p) == IF KnowsSelf(p) THEN <<>> ELSE <<Connect(p)>>

\* The process starts: it binds dataPub (a bind that fails is only logged, and
\* the last endpoint read back is then empty), connects proxySub and polls.
Start(p) ==
  /\ pc[p] = "off"
  /\ pc' = [pc EXCEPT ![p] = "poll"]
  /\ advert' = [advert EXCEPT ![p] =
        IF \E q \in Running : advert[q] = Port[p] THEN NoEndpoint ELSE Port[p]]
  /\ UNCHANGED <<ended, peers, conns, link, fromPeer, toPeer, subs, proxyId, crashes>>

\* The process is gone: proxySub's queue with it, and of what proxyPub has
\* queued what close() does not flush.
Gone(p, queue) ==
  /\ \E kept \in IF p \in Linger THEN {queue} ELSE Prefixes(queue) :
        fromPeer' = [fromPeer EXCEPT ![p] = kept]
  /\ toPeer' = [toPeer EXCEPT ![p] = <<>>]
  /\ subs' = subs \ {p}

\* Mutant of KeepPolling: the test of the end time is lost.
KeepPollingButSayGoodbye(p, msgs, rest) ==
  /\ ~ended[p]
  /\ fromPeer' = [fromPeer EXCEPT ![p] = SendConnectMsg(p, msgs \o <<Disconnect(p)>>)]
  /\ toPeer' = [toPeer EXCEPT ![p] = rest]
  /\ UNCHANGED <<pc, ended, subs>>

\* From a return of zmq_poll to the next call: the pass has sent msgs and left
\* rest to be read, then the head of the loop looks at the time.
\* Before the end time there is nothing to do there.
KeepPolling(p, msgs, rest) ==
  /\ ~ended[p]
  /\ fromPeer' = [fromPeer EXCEPT ![p] = SendConnectMsg(p, msgs)]
  /\ toPeer' = [toPeer EXCEPT ![p] = rest]
  /\ UNCHANGED <<pc, ended, subs>>

\* Mutant of SayGoodbye: 'D' is sent only the first time round.
SayGoodbyeOnce(p, msgs, rest) ==
  /\ p \notin LongLived \cup ImmediateExit
  /\ ended' = [ended EXCEPT ![p] = TRUE]
  /\ fromPeer' = [fromPeer EXCEPT ![p] =
        SendConnectMsg(p, IF ended[p] THEN msgs ELSE msgs \o <<Disconnect(p)>>)]
  /\ toPeer' = [toPeer EXCEPT ![p] = rest]
  /\ UNCHANGED <<pc, subs>>

\* After the end time: say 'D', every time round.
SayGoodbye(p, msgs, rest) ==
  /\ p \notin LongLived \cup ImmediateExit
  /\ ended' = [ended EXCEPT ![p] = TRUE]
  /\ fromPeer' = [fromPeer EXCEPT ![p] = SendConnectMsg(p, msgs \o <<Disconnect(p)>>)]
  /\ toPeer' = [toPeer EXCEPT ![p] = rest]
  /\ UNCHANGED <<pc, subs>>

\* With -immediate-exit: "dont wait for disconnect msg".
LeaveAtOnce(p, msgs) ==
  /\ p \in ImmediateExit \ LongLived
  /\ ended' = [ended EXCEPT ![p] = TRUE]
  /\ Gone(p, SendConnectMsg(p, msgs \o <<Disconnect(p)>>))
  /\ pc' = [pc EXCEPT ![p] = "exited"]

NextPass(p, msgs, rest) ==
  KeepPolling(p, msgs, rest) \/ SayGoodbye(p, msgs, rest) \/ LeaveAtOnce(p, msgs)

\* zmq_poll returns with nothing on proxySub: a second passed, or only dataSub
\* had something, which is read and thrown away.  What the peer has published and
\* what it is to read may be late then, but (bound) by no more than MaxBacklog
\* messages each.
PollTimeout(p) ==
  /\ pc[p] = "poll"
  /\ Len(fromPeer[p]) <= MaxBacklog /\ Len(toPeer[p]) <= MaxBacklog
  /\ NextPass(p, SelfAnnouncement(p), toPeer[p])
  /\ UNCHANGED <<advert, peers, conns, link, proxyId, crashes>>

\* zmq_poll returns with a message on proxySub, which is read.
Received(p, command) ==
  pc[p] = "poll" /\ toPeer[p] # <<>> /\ Head(toPeer[p]).command = command

\* 'W': connect proxyPub to the frontend the proxy names.  The frontend of an
\* earlier run of the proxy is not there any more.
ReceiveWelcome(p) ==
  /\ Received(p, "W")
  /\ link' = IF Head(toPeer[p]).uuid = proxyId /\ link[p] = "none"
               THEN [link EXCEPT ![p] = "connecting"] ELSE link
  /\ NextPass(p, SelfAnnouncement(p), Tail(toPeer[p]))
  /\ UNCHANGED <<advert, peers, conns, proxyId, crashes>>

\* zmq_connect and zmq_disconnect on dataSub: a second connect to the same
\* endpoint does nothing, and both only log an endpoint they cannot use.
DataSubConnect(p, endpoint) ==
  conns' = [conns EXCEPT ![p] = @ \cup ({endpoint} \ {NoEndpoint})]

\* Mutant of DataSubDisconnect: the zmq_disconnect is forgotten.
DataSubStaysConnected(p, endpoint) == UNCHANGED conns

DataSubDisconnect(p, endpoint) ==
  conns' = [conns EXCEPT ![p] = @ \ {endpoint}]

\* Mutant of Reply: newcomers are not answered.
NoReply(p, q) == <<>>

\* What a peer answers a new peer with; its own 'C' needs no answer.
Reply(p, q) == IF q = p THEN <<>> ELSE <<Connect(p)>>

\* 'C' from a peer not in the map (possibly us): add it, connect, answer.
ReceiveConnectNew(p) ==
  LET q == Head(toPeer[p]).uuid IN
  /\ Received(p, "C")
  /\ q \notin peers[p]
  /\ peers' = [peers EXCEPT ![p] = @ \cup {q}]
  /\ DataSubConnect(p, advert[q])
  /\ NextPass(p, SelfAnnouncement(p) \o Reply(p, q), Tail(toPeer[p]))
  /\ UNCHANGED <<advert, link, proxyId, crashes>>

\* Mutant of ReceiveKnown: every message is answered.
ReceiveKnownAndReply(p) ==
  LET q == Head(toPeer[p]).uuid IN
  /\ \/ Received(p, "C") /\ q \in peers[p]
     \/ Received(p, "D") /\ q \notin peers[p]
  /\ NextPass(p, SelfAnnouncement(p) \o Reply(p, q), Tail(toPeer[p]))
  /\ UNCHANGED <<advert, peers, conns, link, proxyId, crashes>>

\* 'C' from a peer in the map, 'D' from one that is not: nothing more to do.
ReceiveKnown(p) ==
  LET q == Head(toPeer[p]).uuid IN
  /\ \/ Received(p, "C") /\ q \in peers[p]
     \/ Received(p, "D") /\ q \notin peers[p]
  /\ NextPass(p, SelfAnnouncement(p), Tail(toPeer[p]))
  /\ UNCHANGED <<advert, peers, conns, link, proxyId, crashes>>

\* Mutant of ReceiveDisconnect: the entry stays in the map.
ReceiveDisconnectKeepEntry(p) ==
  LET q == Head(toPeer[p]).uuid IN
  /\ Received(p, "D")
  /\ q \in peers[p] \ {p}
  /\ DataSubDisconnect(p, advert[q])
  /\ NextPass(p, SelfAnnouncement(p), Tail(toPeer[p]))
  /\ UNCHANGED <<advert, peers, link, proxyId, crashes>>

\* 'D' from another peer in the map: forget it and disconnect.
ReceiveDisconnect(p) ==
  LET q == Head(toPeer[p]).uuid IN
  /\ Received(p, "D")
  /\ q \in peers[p] \ {p}
  /\ peers' = [peers EXCEPT ![p] = @ \ {q}]
  /\ DataSubDisconnect(p, advert[q])
  /\ NextPass(p, SelfAnnouncement(p), Tail(toPeer[p]))
  /\ UNCHANGED <<advert, link, proxyId, crashes>>

\* "if we got our own disconnect msg, quit": leave the loop, close the sockets
\* and terminate the context.
ReceiveOwnDisconnect(p) ==
  /\ Received(p, "D")
  /\ Head(toPeer[p]).uuid = p
  /\ KnowsSelf(p)
  /\ peers' = [peers EXCEPT ![p] = @ \ {p}]
  /\ DataSubDisconnect(p, advert[p])
  /\ Gone(p, fromPeer[p])
  /\ pc' = [pc EXCEPT ![p] = "exited"]
  /\ UNCHANGED <<ended, advert, link, proxyId, crashes>>

-----------------------------------------------------------------------------

\* The proxy's XPUB gets the subscription of proxySub, and sends it the welcome
\* message then and there.
ProxySubscribe(p) ==
  /\ p \in Running \ subs
  /\ subs' = subs \cup {p}
  /\ toPeer' = [toPeer EXCEPT ![p] = Append(@, Welcome(proxyId))]
  /\ UNCHANGED <<pc, ended, advert, peers, conns, link, fromPeer, proxyId, crashes>>

\* The connection of proxyPub is made and the XSUB's subscription reaches it.
ProxyPubUp(p) ==
  /\ p \in Running
  /\ link[p] = "connecting"
  /\ link' = [link EXCEPT ![p] = "up"]
  /\ UNCHANGED <<pc, ended, advert, peers, conns, fromPeer, toPeer, subs, proxyId, crashes>>

\* zmq_proxy moves one message of a publisher to all subscribers.  It may be any
\* number of messages ahead of a subscriber; the model's bound is MaxUnread.
ProxyForward(p) ==
  /\ \A q \in subs : Len(toPeer[q]) < MaxUnread
  /\ fromPeer[p] # <<>>
  /\ fromPeer' = [fromPeer EXCEPT ![p] = Tail(@)]
  /\ toPeer' = [q \in Peer |->
        IF q \in subs THEN Append(toPeer[q], Head(fromPeer[p])) ELSE toPeer[q]]
  /\ UNCHANGED <<pc, ended, advert, peers, conns, link, subs, proxyId, crashes>>

\* The proxy is killed and started again: a new frontend, no subscriptions, and
\* what it had not passed on is lost.
ProxyRestart ==
  /\ proxyId < MaxProxyRestarts
  /\ proxyId' = proxyId + 1
  /\ subs' = {}
  /\ link' = [p \in Peer |-> "none"]
  /\ fromPeer' = [p \in Peer |-> <<>>]
  /\ \E kept \in [Peer -> UNION {Prefixes(toPeer[p]) : p \in Peer}] :
        /\ \A p \in Peer : kept[p] \in Prefixes(toPeer[p])
        /\ toPeer' = kept
  /\ UNCHANGED <<pc, ended, advert, peers, conns, crashes>>

\* A peer is killed: it says nothing, and what it had queued may be lost.
Crash(p) ==
  /\ p \in Running
  /\ crashes < MaxCrashes
  /\ crashes' = crashes + 1
  /\ pc' = [pc EXCEPT ![p] = "crashed"]
  /\ \E kept \in Prefixes(fromPeer[p]) : fromPeer' = [fromPeer EXCEPT ![p] = kept]
  /\ toPeer' = [toPeer EXCEPT ![p] = <<>>]
  /\ subs' = subs \ {p}
  /\ UNCHANGED <<ended, advert, peers, conns, link, proxyId>>

-----------------------------------------------------------------------------

\* One pass of the while(1) loop that finds a message on proxySub.
PollMessage(p) ==
  \/ ReceiveWelcome(p) \/ ReceiveConnectNew(p) \/ ReceiveKnown(p)
  \/ ReceiveDisconnect(p) \/ ReceiveOwnDisconnect(p)

Next ==
  \/ \E p \in Peer :
        \/ Start(p) \/ PollTimeout(p) \/ PollMessage(p)
        \/ ProxySubscribe(p) \/ ProxyPubUp(p) \/ ProxyForward(p)
        \/ Crash(p)
  \/ ProxyRestart

\* A running process keeps going round its loop (zmq_poll returns after at most
\* a second), connections that can be made are made, the proxy keeps forwarding
\* and what it forwards arrives and is found by a later zmq_poll.  Nothing is
\* assumed of starts, kills and restarts of the proxy, nor of end times: the
\* -seconds of a peer may be longer than any behaviour.
Fairness ==
  \A p \in Peer :
    /\ WF_vars(PollTimeout(p) /\ ended'[p] = ended[p])
    /\ SF_vars(PollMessage(p))
    /\ WF_vars(ProxySubscribe(p))
    /\ WF_vars(ProxyPubUp(p))
    /\ WF_vars(ProxyForward(p))

Spec == Init /\ [][Next]_vars
FairSpec == Spec /\ Fairness

-----------------------------------------------------------------------------

\* The sets the variables range over.
TypeOK ==
  /\ pc \in [Peer -> {"off", "poll", "exited", "crashed"}]
  /\ ended \in [Peer -> BOOLEAN]
  /\ advert \in [Peer -> Endpoint \cup {NoEndpoint}]
  /\ peers \in [Peer -> SUBSET Peer]
  /\ conns \in [Peer -> SUBSET Endpoint]
  /\ link \in [Peer -> {"none", "connecting", "up"}]
  /\ fromPeer \in [Peer -> Seq(Msg)]
  /\ toPeer \in [Peer -> Seq(Msg)]
  /\ subs \in SUBSET Peer
  /\ proxyId \in Nat
  /\ crashes \in Nat

\* The messages a peer may have sent so far, and those a peer may have been sent.
Sayable(p) == {m \in {Connect(p), Disconnect(p)} :
                 pc[p] # "off" /\ (m.command = "D" => ended[p])}
Hearable == [command : {"W"}, uuid : Nat] \cup UNION {Sayable(p) : p \in Peer}

\* Nobody speaks for another peer, nothing is said of one that has not started,
\* and 'D' only of one that has decided to leave - in whatever order, and after
\* whatever losses, the messages arrive (3186/peer.cpp:113-137 and 152-191).
Honest ==
  /\ \A p \in Peer : fromPeer[p] \in Seq(Sayable(p)) /\ toPeer[p] \in Seq(Hearable)
  /\ \A p \in Peer : \A q \in peers[p] : pc[q] # "off"

\* A peer that left is not kept alive by the order in which its messages are
\* dealt with.  What a running peer p has yet to hear of it is what the proxy has
\* sent p, then what it has sent the proxy: if p has it in the map there is a 'D'
\* among that, and after every 'C' of it comes a 'D'.  At issue are the answers a
\* peer gives to newcomers after it has said 'D' itself, and the 'D's that arrive
\* before the 'C' they cancel (3186/peer.cpp:113-197).
NoGhosts ==
  \A p \in Running, q \in Peer :
    LET todo == toPeer[p] \o fromPeer[q]
        GoodbyeFrom(i) == \E j \in i .. Len(todo) : todo[j] = Disconnect(q)
    IN  pc[q] = "exited" =>
          /\ q \in peers[p] => GoodbyeFrom(1)
          /\ \A i \in 1 .. Len(todo) : todo[i] = Connect(q) => GoodbyeFrom(i)

\* Nothing is on its way, every running peer is connected to the proxy in both
\* directions and has heard itself, and nobody wants to leave.
AtRest ==
  /\ \A p \in Peer : fromPeer[p] = <<>> /\ toPeer[p] = <<>>
  /\ \A p \in Running : p \in subs /\ link[p] = "up" /\ KnowsSelf(p) /\ ~ended[p]

\* "Each process also creates a direct connection (i.e., no proxy) to every
\* other process, using the endpoint addresses carried in the discovery
\* messages" (3186/Readme.md:7): once all is quiet, every running peer knows
\* every other one and its dataSub is connected to it, although what is
\* published before proxyPub is connected is lost, and a peer announces itself
\* only until it hears itself and once to each newcomer
\* (3186/peer.cpp:135-137 and 152-163).
DirectConnections ==
  AtRest => \A p, q \in Running :
    p # q /\ advert[q] # NoEndpoint => q \in peers[p] /\ advert[q] \in conns[p]

\* With every process on a port of its own (the default, port 0, asks for one
\* nobody has), no bind fails.
PortsDistinct == \A p, q \in Peer : Port[p] = Port[q] => p = q

\* The map and the SUB socket agree: dataSub is connected to the endpoints of
\* the peers in the map and to nothing else (3186/peer.cpp:156-169).
PeersConnected ==
  \A p \in Peer : conns[p] = {advert[q] : q \in peers[p]} \ {NoEndpoint}

\* Two peers that keep running and do not want to leave come to know each other while the
\* proxy runs, although what either publishes may be dropped (3186/peer.cpp:134-161).
MeshForms ==
  \A p, q \in Peer :
    {p, q} \subseteq Running
      ~> (q \in peers[p] \/ proxyId # 0 \/ \E r \in {p, q} : r \notin Running \/ ended[r])

\* A peer whose time is up gets its own 'D' back and exits, also if the proxy is restarted
\* before that (3186/peer.cpp:113-120 and 164-182).
DepartureCompletes ==
  \A p \in Peer : (p \in Running /\ ended[p]) ~> p \notin Running

\* A peer that left, and whose close() flushed, is forgotten in the end by everyone who stays,
\* while the proxy runs (3186/peer.cpp:113-197).
GhostsVanish ==
  \A p \in Peer, q \in Linger :
    pc[q] = "exited" ~> (q \notin peers[p] \/ p \notin Running \/ proxyId # 0)

\* Peers do not answer each other's announcements for ever: with nobody left
\* to come or go the discovery channel falls silent.
ChatterEnds == <>[](\A p \in Running : KnowsSelf(p) => fromPeer[p] = <<>>)

\* The protocol keeps the promises of Membership: whatever messages are lost or
\* reordered, a peer is added only after it started and dropped only after it
\* decided to leave, and a peer that leaves by its own 'D' had announced it.
M == INSTANCE Membership WITH
  joined <- {p \in Peer : pc[p] # "off"},
  up <- Running,
  leaving <- {p \in Peer : ended[p]},
  view <- peers

KeepsMembership == M!Spec
=============================================================================
