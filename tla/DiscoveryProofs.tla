-------------------------- MODULE DiscoveryProofs --------------------------
(***************************************************************************)
(* Proofs about Discovery, for any set of peers, any ports, any choice of  *)
(* command-line flags, and any number of kills and proxy restarts.         *)
(***************************************************************************)
EXTENDS Discovery, SequenceTheorems, TLAPS

-----------------------------------------------------------------------------
(***************************************************************************)
(* Queues.                                                                 *)
(***************************************************************************)

\* What close() leaves of a queue is a queue of the same messages.
LEMMA PrefixIsQueue ==
  ASSUME NEW S, NEW s \in Seq(S), NEW t \in Prefixes(s)
  PROVE  t \in Seq(S)
<1>1. PICK n \in 0 .. Len(s) : t = SubSeq(s, 1, n)
  BY DEF Prefixes
<1>2. \A i \in 1 .. n : s[i] \in S
  BY ElementOfSeq, LenProperties
<1> QED
  BY <1>1, <1>2, SubSeqProperties, LenProperties

\* Closing the sockets leaves proxyPub with some of the messages it had, and
\* proxySub with none (peer.cpp:205-257).
LEMMA GoneQueues ==
  ASSUME NEW S, NEW p \in Peer, NEW queue \in Seq(S), Gone(p, queue)
  PROVE  /\ \E s \in Seq(S) : fromPeer' = [fromPeer EXCEPT ![p] = s]
         /\ toPeer' = [toPeer EXCEPT ![p] = <<>>]
         /\ subs' = subs \ {p}
<1>1. PICK kept \in IF p \in Linger THEN {queue} ELSE Prefixes(queue) :
        fromPeer' = [fromPeer EXCEPT ![p] = kept]
  BY DEF Gone
<1>2. kept \in Seq(S)
  BY PrefixIsQueue
<1> QED
  BY <1>1, <1>2 DEF Gone

\* What a pass of the loop leaves in proxyPub: messages it may send (those of S).
LEMMA PassSends ==
  ASSUME NEW S, NEW p \in Peer, NEW msgs \in Seq(S), NEW rest,
         fromPeer \in [Peer -> Seq(Msg)], fromPeer[p] \in Seq(S),
         ended \in [Peer -> BOOLEAN], ended'[p] => Disconnect(p) \in S,
         NextPass(p, msgs, rest)
  PROVE  /\ fromPeer' = [fromPeer EXCEPT ![p] = fromPeer'[p]]
         /\ fromPeer'[p] \in Seq(S)
<1>1. CASE KeepPolling(p, msgs, rest)
  <2>1. SendConnectMsg(p, msgs) \in Seq(S)
    BY ConcatProperties DEF SendConnectMsg
  <2> QED
    BY <1>1, <2>1 DEF KeepPolling
<1>2. ASSUME ended' = [ended EXCEPT ![p] = TRUE]
      PROVE  SendConnectMsg(p, msgs \o <<Disconnect(p)>>) \in Seq(S)
  <2>1. <<Disconnect(p)>> \in Seq(S)
    BY <1>2
  <2>2. msgs \o <<Disconnect(p)>> \in Seq(S)
    BY <2>1, ConcatProperties
  <2> QED
    BY <2>2, ConcatProperties DEF SendConnectMsg
<1>3. CASE SayGoodbye(p, msgs, rest)
  BY <1>2, <1>3 DEF SayGoodbye
<1>4. CASE LeaveAtOnce(p, msgs)
  <2>1. Gone(p, SendConnectMsg(p, msgs \o <<Disconnect(p)>>))
    BY <1>4 DEF LeaveAtOnce
  <2>2. SendConnectMsg(p, msgs \o <<Disconnect(p)>>) \in Seq(S)
    BY <1>2, <1>4 DEF LeaveAtOnce
  <2>3. \E s \in Seq(S) : fromPeer' = [fromPeer EXCEPT ![p] = s]
    BY <2>1, <2>2, GoneQueues
  <2> QED
    BY <2>3
<1> QED
  BY <1>1, <1>3, <1>4 DEF NextPass

\* What a pass of the loop leaves in proxySub: what it did not read, or nothing.
LEMMA PassReads ==
  ASSUME NEW p \in Peer, NEW msgs, NEW rest, NextPass(p, msgs, rest)
  PROVE  toPeer' \in {[toPeer EXCEPT ![p] = rest], [toPeer EXCEPT ![p] = <<>>]}
BY DEF NextPass, KeepPolling, SayGoodbye, LeaveAtOnce, Gone

\* What a pass of the loop does to the process itself.
LEMMA PassState ==
  ASSUME NEW p \in Peer, NEW msgs, NEW rest, NextPass(p, msgs, rest)
  PROVE  /\ \/ pc' = pc
            \/ pc' = [pc EXCEPT ![p] = "exited"] /\ ended' = [ended EXCEPT ![p] = TRUE]
         /\ ended' \in {ended, [ended EXCEPT ![p] = TRUE]}
         /\ subs' \in {subs, subs \ {p}}
BY DEF NextPass, KeepPolling, SayGoodbye, LeaveAtOnce, Gone

-----------------------------------------------------------------------------
(***************************************************************************)
(* Type correctness.                                                       *)
(***************************************************************************)

\* Queues of one message or none.
LEMMA ShortQueues ==
  ASSUME NEW m
  PROVE  <<>> \in Seq({m}) /\ <<m>> \in Seq({m})
BY EmptySeq

\* The messages a pass may send are messages.
LEMMA OwnMessages ==
  ASSUME NEW p \in Peer
  PROVE  /\ Connect(p) \in Msg /\ Disconnect(p) \in Msg
         /\ SelfAnnouncement(p) \in Seq({Connect(p)})
         /\ \A q \in Peer : Reply(p, q) \in Seq({Connect(p)})
         /\ \A q \in Peer : SelfAnnouncement(p) \o Reply(p, q) \in Seq({Connect(p)})
<1>1. Connect(p) \in Msg /\ Disconnect(p) \in Msg
  BY DEF Connect, Disconnect, Msg
<1>2. SelfAnnouncement(p) \in Seq({Connect(p)})
  BY ShortQueues DEF SelfAnnouncement
<1>3. ASSUME NEW q \in Peer PROVE Reply(p, q) \in Seq({Connect(p)})
  BY ShortQueues DEF Reply
<1> QED
  BY <1>1, <1>2, <1>3, ConcatProperties

\* A pass keeps the variables it touches in their sets.
LEMMA PassTyped ==
  ASSUME TypeOK, NEW p \in Peer, NEW msgs \in Seq({Connect(p)}), NEW rest \in Seq(Msg),
         NextPass(p, msgs, rest)
  PROVE  /\ pc' \in [Peer -> {"off", "poll", "exited", "crashed"}]
         /\ ended' \in [Peer -> BOOLEAN]
         /\ fromPeer' \in [Peer -> Seq(Msg)]
         /\ toPeer' \in [Peer -> Seq(Msg)]
         /\ subs' \in SUBSET Peer
<1>1. msgs \in Seq(Msg) /\ Disconnect(p) \in Msg
  <2>1. {Connect(p)} \subseteq Msg /\ Disconnect(p) \in Msg
    BY OwnMessages
  <2> QED
    BY <2>1, SeqMonotonic
<1>2. /\ fromPeer \in [Peer -> Seq(Msg)] /\ toPeer \in [Peer -> Seq(Msg)]
      /\ ended \in [Peer -> BOOLEAN] /\ subs \in SUBSET Peer
      /\ pc \in [Peer -> {"off", "poll", "exited", "crashed"}]
  BY DEF TypeOK
<1>3. /\ fromPeer' = [fromPeer EXCEPT ![p] = fromPeer'[p]]
      /\ fromPeer'[p] \in Seq(Msg)
  <2>1. fromPeer[p] \in Seq(Msg)
    BY <1>2
  <2> QED
    BY <1>1, <1>2, <2>1, PassSends
<1>5. toPeer' \in {[toPeer EXCEPT ![p] = rest], [toPeer EXCEPT ![p] = <<>>]}
  BY PassReads
<1>4. /\ \/ pc' = pc
         \/ pc' = [pc EXCEPT ![p] = "exited"]
      /\ ended' \in {ended, [ended EXCEPT ![p] = TRUE]}
      /\ subs' \in {subs, subs \ {p}}
  BY PassState
<1>6. fromPeer' \in [Peer -> Seq(Msg)]
  BY <1>2, <1>3
<1>7. toPeer' \in [Peer -> Seq(Msg)]
  <2>1. <<>> \in Seq(Msg)
    BY EmptySeq
  <2> QED
    BY <1>2, <1>5, <2>1
<1> QED
  BY <1>2, <1>4, <1>6, <1>7

\* What a received message is.
LEMMA ReceivedMessage ==
  ASSUME TypeOK, NEW p \in Peer, NEW command, Received(p, command)
  PROVE  /\ Tail(toPeer[p]) \in Seq(Msg)
         /\ command \in {"C", "D"} => Head(toPeer[p]).uuid \in Peer
<1>1. toPeer[p] \in Seq(Msg) /\ toPeer[p] # <<>>
  BY DEF TypeOK, Received
<1>2. Head(toPeer[p]) \in Msg /\ Tail(toPeer[p]) \in Seq(Msg)
  BY <1>1, HeadTailProperties
<1> QED
  BY <1>2 DEF Msg, Received

\* Every step keeps the variables in their sets.
LEMMA TypeStep == TypeOK /\ [Next]_vars => TypeOK'
<1> SUFFICES ASSUME TypeOK, [Next]_vars PROVE TypeOK'
  OBVIOUS
<1> USE DiscoveryAssumption
<1>1. ASSUME NEW p \in Peer, Start(p) PROVE TypeOK'
  BY <1>1 DEF Start, TypeOK
<1>2. ASSUME NEW p \in Peer, PollTimeout(p) PROVE TypeOK'
  <2>1. toPeer[p] \in Seq(Msg) /\ SelfAnnouncement(p) \in Seq({Connect(p)})
    BY OwnMessages DEF TypeOK
  <2> QED
    BY <1>2, <2>1, PassTyped DEF PollTimeout, TypeOK
<1>3. ASSUME NEW p \in Peer, ReceiveWelcome(p) PROVE TypeOK'
  <2>1. Tail(toPeer[p]) \in Seq(Msg) /\ SelfAnnouncement(p) \in Seq({Connect(p)})
    BY <1>3, OwnMessages, ReceivedMessage DEF ReceiveWelcome
  <2>2. NextPass(p, SelfAnnouncement(p), Tail(toPeer[p]))
    BY <1>3 DEF ReceiveWelcome
  <2>3. link' \in [Peer -> {"none", "connecting", "up"}]
    BY <1>3 DEF ReceiveWelcome, TypeOK
  <2> QED
    BY <1>3, <2>1, <2>2, <2>3, PassTyped DEF ReceiveWelcome, TypeOK
<1>4. ASSUME NEW p \in Peer, ReceiveConnectNew(p) PROVE TypeOK'
  <2> DEFINE q == Head(toPeer[p]).uuid
  <2>1. q \in Peer /\ Tail(toPeer[p]) \in Seq(Msg)
    BY <1>4, ReceivedMessage DEF ReceiveConnectNew
  <2>2. SelfAnnouncement(p) \o Reply(p, q) \in Seq({Connect(p)})
    BY <2>1, OwnMessages
  <2>3. NextPass(p, SelfAnnouncement(p) \o Reply(p, q), Tail(toPeer[p]))
    BY <1>4 DEF ReceiveConnectNew
  <2>4. peers' \in [Peer -> SUBSET Peer] /\ conns' \in [Peer -> SUBSET Endpoint]
    BY <1>4, <2>1 DEF ReceiveConnectNew, DataSubConnect, TypeOK
  <2> QED
    BY <1>4, <2>1, <2>2, <2>3, <2>4, PassTyped DEF ReceiveConnectNew, TypeOK
<1>5. ASSUME NEW p \in Peer, ReceiveKnown(p) PROVE TypeOK'
  <2>1. Tail(toPeer[p]) \in Seq(Msg) /\ SelfAnnouncement(p) \in Seq({Connect(p)})
    BY <1>5, OwnMessages, ReceivedMessage DEF ReceiveKnown
  <2> QED
    BY <1>5, <2>1, PassTyped DEF ReceiveKnown, TypeOK
<1>6. ASSUME NEW p \in Peer, ReceiveDisconnect(p) PROVE TypeOK'
  <2>1. Tail(toPeer[p]) \in Seq(Msg) /\ SelfAnnouncement(p) \in Seq({Connect(p)})
    BY <1>6, OwnMessages, ReceivedMessage DEF ReceiveDisconnect
  <2>2. peers' \in [Peer -> SUBSET Peer] /\ conns' \in [Peer -> SUBSET Endpoint]
    BY <1>6 DEF ReceiveDisconnect, DataSubDisconnect, TypeOK
  <2>3. NextPass(p, SelfAnnouncement(p), Tail(toPeer[p]))
    BY <1>6 DEF ReceiveDisconnect
  <2> QED
    BY <1>6, <2>1, <2>2, <2>3, PassTyped DEF ReceiveDisconnect, TypeOK
<1>7. ASSUME NEW p \in Peer, ReceiveOwnDisconnect(p) PROVE TypeOK'
  <2>1. Gone(p, fromPeer[p]) /\ fromPeer[p] \in Seq(Msg)
    BY <1>7 DEF ReceiveOwnDisconnect, TypeOK
  <2>2. /\ \E s \in Seq(Msg) : fromPeer' = [fromPeer EXCEPT ![p] = s]
        /\ toPeer' = [toPeer EXCEPT ![p] = <<>>]
        /\ subs' = subs \ {p}
    BY <2>1, <1>7, GoneQueues, Zenon
  <2>3. /\ fromPeer' \in [Peer -> Seq(Msg)] /\ toPeer' \in [Peer -> Seq(Msg)]
        /\ subs' \in SUBSET Peer
    BY <2>2, EmptySeq DEF TypeOK
  <2> QED
    BY <1>7, <2>3 DEF ReceiveOwnDisconnect, DataSubDisconnect, TypeOK
<1>8. ASSUME NEW p \in Peer, ProxySubscribe(p) PROVE TypeOK'
  <2>1. Welcome(proxyId) \in Msg
    BY DEF Welcome, Msg, TypeOK
  <2> QED
    BY <1>8, <2>1 DEF ProxySubscribe, TypeOK
<1>9. ASSUME NEW p \in Peer, ProxyPubUp(p) PROVE TypeOK'
  BY <1>9 DEF ProxyPubUp, TypeOK
<1>10. ASSUME NEW p \in Peer, ProxyForward(p) PROVE TypeOK'
  <2>1. Head(fromPeer[p]) \in Msg /\ Tail(fromPeer[p]) \in Seq(Msg)
    BY <1>10, HeadTailProperties DEF ProxyForward, TypeOK
  <2>2. toPeer' \in [Peer -> Seq(Msg)] /\ fromPeer' \in [Peer -> Seq(Msg)]
    BY <1>10, <2>1 DEF ProxyForward, TypeOK
  <2> QED
    BY <1>10, <2>2 DEF ProxyForward, TypeOK
<1>11. ASSUME NEW p \in Peer, Crash(p) PROVE TypeOK'
  <2>1. fromPeer' \in [Peer -> Seq(Msg)]
    BY <1>11, PrefixIsQueue DEF Crash, TypeOK
  <2> QED
    BY <1>11, <2>1 DEF Crash, TypeOK
<1>12. ASSUME ProxyRestart PROVE TypeOK'
  <2>1. \A p \in Peer : toPeer'[p] \in Seq(Msg)
    BY <1>12, PrefixIsQueue DEF ProxyRestart, TypeOK
  <2>2. toPeer' \in [Peer -> Seq(Msg)]
    BY <1>12, <2>1 DEF ProxyRestart
  <2> QED
    BY <1>12, <2>2 DEF ProxyRestart, TypeOK
<1>13. CASE UNCHANGED vars
  BY <1>13 DEF vars, TypeOK
<1> QED
  BY <1>1, <1>2, <1>3, <1>4, <1>5, <1>6, <1>7, <1>8, <1>9, <1>10, <1>11, <1>12, <1>13
     DEF Next, PollMessage

\* Type correctness of every reachable state.
THEOREM TypeCorrect == Spec => []TypeOK
<1>1. Init => TypeOK
  BY DiscoveryAssumption DEF Init, TypeOK
<1> QED
  BY <1>1, TypeStep, PTL DEF Spec

-----------------------------------------------------------------------------
(***************************************************************************)
(* Honest: the messages on their way say only what is so.                  *)
(***************************************************************************)

\* A process never un-starts and never changes its mind about leaving.
LEMMA Irrevocable ==
  ASSUME TypeOK, [Next]_vars, NEW r \in Peer
  PROVE  /\ pc[r] # "off" => pc'[r] # "off"
         /\ ended[r] => ended'[r]
<1> USE DEF TypeOK
<1>1. ASSUME NEW p \in Peer, NEW msgs, NEW rest, NextPass(p, msgs, rest)
      PROVE  /\ pc[r] # "off" => pc'[r] # "off"
             /\ ended[r] => ended'[r]
  BY <1>1, PassState
<1>2. ASSUME NEW p \in Peer,
             PollTimeout(p) \/ ReceiveWelcome(p) \/ ReceiveConnectNew(p)
               \/ ReceiveKnown(p) \/ ReceiveDisconnect(p)
      PROVE  \E msgs, rest : NextPass(p, msgs, rest)
  BY <1>2 DEF PollTimeout, ReceiveWelcome, ReceiveConnectNew, ReceiveKnown, ReceiveDisconnect
<1>3. ASSUME NEW p \in Peer,
             Start(p) \/ ReceiveOwnDisconnect(p) \/ ProxySubscribe(p) \/ ProxyPubUp(p)
               \/ ProxyForward(p) \/ Crash(p) \/ ProxyRestart \/ UNCHANGED vars
      PROVE  /\ pc[r] # "off" => pc'[r] # "off"
             /\ ended[r] => ended'[r]
  BY <1>3 DEF Start, ReceiveOwnDisconnect, ProxySubscribe, ProxyPubUp, ProxyForward,
              Crash, ProxyRestart, vars
<1> QED
  BY <1>1, <1>2, <1>3 DEF Next, PollMessage

\* So what may be said stays sayable, and a queue of it stays one.
LEMMA SayableGrows ==
  ASSUME TypeOK, [Next]_vars
  PROVE  /\ \A p \in Peer : \A s \in Seq(Sayable(p)) : s \in Seq(Sayable(p)')
         /\ \A s \in Seq(Hearable) : s \in Seq(Hearable')
<1>1. ASSUME NEW p \in Peer PROVE Sayable(p) \subseteq Sayable(p)'
  BY Irrevocable DEF Sayable, Connect, Disconnect
<1>2. Hearable \subseteq Hearable'
  BY <1>1 DEF Hearable
<1> QED
  BY <1>1, <1>2, SeqMonotonic

\* What a started peer announces may be said.
LEMMA AnnouncementSayable ==
  ASSUME NEW p \in Peer, NEW msgs \in Seq({Connect(p)}), pc[p] # "off"
  PROVE  msgs \in Seq(Sayable(p))
<1>1. {Connect(p)} \subseteq Sayable(p)
  BY DEF Sayable, Connect, Disconnect
<1> QED
  BY <1>1, SeqMonotonic

\* The queues after a pass: the peer's own part of Honest.
LEMMA PassHonest ==
  ASSUME TypeOK, Honest, [Next]_vars,
         NEW p \in Peer, NEW msgs \in Seq({Connect(p)}), NEW rest \in Seq(Hearable),
         pc[p] = "poll", NextPass(p, msgs, rest)
  PROVE  \A q \in Peer : fromPeer'[q] \in Seq(Sayable(q)') /\ toPeer'[q] \in Seq(Hearable')
<1>1. /\ fromPeer \in [Peer -> Seq(Msg)] /\ toPeer \in [Peer -> Seq(Msg)]
      /\ ended \in [Peer -> BOOLEAN] /\ pc \in [Peer -> {"off", "poll", "exited", "crashed"}]
  BY DEF TypeOK
<1>2. ASSUME NEW q \in Peer
      PROVE  fromPeer[q] \in Seq(Sayable(q)') /\ toPeer[q] \in Seq(Hearable')
  BY SayableGrows DEF Honest
<1>3. pc'[p] # "off"
  BY Irrevocable
<1>4. ended'[p] => Disconnect(p) \in Sayable(p)'
  BY <1>3 DEF Sayable, Disconnect
<1>5. msgs \in Seq(Sayable(p)')
  <2>1. msgs \in Seq(Sayable(p))
    BY AnnouncementSayable
  <2> QED
    BY <2>1, SayableGrows
<1>6. /\ fromPeer' = [fromPeer EXCEPT ![p] = fromPeer'[p]]
      /\ fromPeer'[p] \in Seq(Sayable(p)')
  <2>1. fromPeer[p] \in Seq(Sayable(p)')
    BY <1>2
  <2> QED
    BY <1>1, <1>4, <1>5, <2>1, PassSends
<1>7. toPeer' \in {[toPeer EXCEPT ![p] = rest], [toPeer EXCEPT ![p] = <<>>]}
  BY PassReads
<1>8. rest \in Seq(Hearable') /\ <<>> \in Seq(Hearable')
  BY SayableGrows, EmptySeq
<1>9. ASSUME NEW q \in Peer PROVE fromPeer'[q] \in Seq(Sayable(q)')
  BY <1>1, <1>2, <1>6
<1>10. ASSUME NEW q \in Peer PROVE toPeer'[q] \in Seq(Hearable')
  BY <1>1, <1>2, <1>7, <1>8
<1> QED
  BY <1>9, <1>10

\* What a received message says is so.
LEMMA ReceivedSayable ==
  ASSUME TypeOK, Honest, NEW p \in Peer, NEW command, Received(p, command)
  PROVE  /\ pc[p] = "poll"
         /\ Tail(toPeer[p]) \in Seq(Hearable)
         /\ command \in {"C", "D"} =>
              /\ Head(toPeer[p]).uuid \in Peer
              /\ pc[Head(toPeer[p]).uuid] # "off"
         /\ command = "D" => ended[Head(toPeer[p]).uuid]
<1>1. /\ toPeer[p] \in Seq(Hearable) /\ toPeer[p] # <<>> /\ pc[p] = "poll"
      /\ Head(toPeer[p]).command = command
  BY DEF Honest, Received
<1>2. Head(toPeer[p]) \in Hearable /\ Tail(toPeer[p]) \in Seq(Hearable)
  BY <1>1, HeadTailProperties
<1>3. CASE Head(toPeer[p]) \in [command : {"W"}, uuid : Nat]
  BY <1>1, <1>2, <1>3
<1>4. ASSUME NEW q \in Peer, Head(toPeer[p]) \in Sayable(q)
      PROVE  /\ Head(toPeer[p]).uuid = q /\ pc[q] # "off"
             /\ Head(toPeer[p]).command = "D" => ended[q]
  BY <1>4 DEF Sayable, Connect, Disconnect
<1> QED
  BY <1>1, <1>2, <1>3, <1>4 DEF Hearable

\* Every step keeps the messages honest.
LEMMA HonestStep == TypeOK /\ Honest /\ [Next]_vars => Honest'
<1> SUFFICES ASSUME TypeOK, Honest, [Next]_vars PROVE Honest'
  OBVIOUS
<1> DEFINE Queues == \A q \in Peer :
             fromPeer'[q] \in Seq(Sayable(q)') /\ toPeer'[q] \in Seq(Hearable')
           Known == \A q \in Peer : \A r \in peers'[q] : pc'[r] # "off"
<1>0. SUFFICES Queues /\ Known
  BY DEF Honest
<1>a. ASSUME NEW q \in Peer
      PROVE  /\ fromPeer[q] \in Seq(Sayable(q)') /\ toPeer[q] \in Seq(Hearable')
             /\ \A r \in peers[q] : pc'[r] # "off"
  BY SayableGrows, Irrevocable DEF Honest, TypeOK
<1>b. ASSUME peers' = peers PROVE Known
  BY <1>a, <1>b
<1>c. ASSUME fromPeer' = fromPeer, toPeer' = toPeer PROVE Queues
  BY <1>a, <1>c
<1> HIDE DEF Queues, Known
<1>1. ASSUME NEW p \in Peer, Start(p) PROVE Queues /\ Known
  BY <1>1, <1>b, <1>c DEF Start
<1>2. ASSUME NEW p \in Peer, PollTimeout(p) PROVE Queues /\ Known
  <2>1. toPeer[p] \in Seq(Hearable) /\ SelfAnnouncement(p) \in Seq({Connect(p)})
    BY OwnMessages DEF Honest
  <2>2. NextPass(p, SelfAnnouncement(p), toPeer[p]) /\ pc[p] = "poll" /\ peers' = peers
    BY <1>2 DEF PollTimeout
  <2> QED
    BY <2>1, <2>2, <1>b, PassHonest DEF Queues
<1>3. ASSUME NEW p \in Peer, ReceiveWelcome(p) PROVE Queues /\ Known
  <2>1. /\ Tail(toPeer[p]) \in Seq(Hearable) /\ SelfAnnouncement(p) \in Seq({Connect(p)})
        /\ pc[p] = "poll"
    BY <1>3, OwnMessages, ReceivedSayable DEF ReceiveWelcome
  <2>2. NextPass(p, SelfAnnouncement(p), Tail(toPeer[p])) /\ peers' = peers
    BY <1>3 DEF ReceiveWelcome
  <2> QED
    BY <2>1, <2>2, <1>b, PassHonest DEF Queues
<1>4. ASSUME NEW p \in Peer, ReceiveConnectNew(p) PROVE Queues /\ Known
  <2> DEFINE q == Head(toPeer[p]).uuid
  <2>1. /\ q \in Peer /\ pc[q] # "off" /\ Tail(toPeer[p]) \in Seq(Hearable)
        /\ pc[p] = "poll"
    BY <1>4, ReceivedSayable DEF ReceiveConnectNew
  <2>2. SelfAnnouncement(p) \o Reply(p, q) \in Seq({Connect(p)})
    BY <2>1, OwnMessages
  <2>3. NextPass(p, SelfAnnouncement(p) \o Reply(p, q), Tail(toPeer[p]))
    BY <1>4 DEF ReceiveConnectNew
  <2>4. peers' = [peers EXCEPT ![p] = @ \cup {q}]
    BY <1>4 DEF ReceiveConnectNew
  <2>5. pc'[q] # "off"
    BY <2>1, Irrevocable
  <2> HIDE DEF q
  <2>6. Known
    BY <2>4, <2>5, <1>a DEF Known, TypeOK
  <2> QED
    BY <2>1, <2>2, <2>3, <2>6, PassHonest DEF Queues
<1>5. ASSUME NEW p \in Peer, ReceiveKnown(p) PROVE Queues /\ Known
  <2>1. /\ Tail(toPeer[p]) \in Seq(Hearable) /\ SelfAnnouncement(p) \in Seq({Connect(p)})
        /\ pc[p] = "poll"
    BY <1>5, OwnMessages, ReceivedSayable DEF ReceiveKnown
  <2>2. NextPass(p, SelfAnnouncement(p), Tail(toPeer[p])) /\ peers' = peers
    BY <1>5 DEF ReceiveKnown
  <2> QED
    BY <2>1, <2>2, <1>b, PassHonest DEF Queues
<1>6. ASSUME NEW p \in Peer, ReceiveDisconnect(p) PROVE Queues /\ Known
  <2>1. /\ Tail(toPeer[p]) \in Seq(Hearable) /\ SelfAnnouncement(p) \in Seq({Connect(p)})
        /\ pc[p] = "poll"
    BY <1>6, OwnMessages, ReceivedSayable DEF ReceiveDisconnect
  <2>2. NextPass(p, SelfAnnouncement(p), Tail(toPeer[p]))
    BY <1>6 DEF ReceiveDisconnect
  <2>3. Known
    BY <1>6, <1>a DEF Known, ReceiveDisconnect, TypeOK
  <2> QED
    BY <2>1, <2>2, <2>3, PassHonest DEF Queues
<1>7. ASSUME NEW p \in Peer, ReceiveOwnDisconnect(p) PROVE Queues /\ Known
  <2>1. Gone(p, fromPeer[p]) /\ fromPeer[p] \in Seq(Sayable(p)')
    BY <1>7, <1>a DEF ReceiveOwnDisconnect
  <2>2. /\ \E s \in Seq(Sayable(p)') : fromPeer' = [fromPeer EXCEPT ![p] = s]
        /\ toPeer' = [toPeer EXCEPT ![p] = <<>>]
    BY <2>1, GoneQueues
  <2>3. <<>> \in Seq(Hearable')
    BY EmptySeq
  <2>4. Queues
    BY <2>2, <2>3, <1>a DEF Queues, TypeOK
  <2>5. Known
    BY <1>7, <1>a DEF Known, ReceiveOwnDisconnect, TypeOK
  <2> QED
    BY <2>4, <2>5
<1>8. ASSUME NEW p \in Peer, ProxySubscribe(p) PROVE Queues /\ Known
  <2>1. Welcome(proxyId) \in Hearable'
    BY DEF Welcome, Hearable, TypeOK
  <2>2. toPeer' = [toPeer EXCEPT ![p] = Append(toPeer[p], Welcome(proxyId))]
    BY <1>8 DEF ProxySubscribe
  <2>3. Append(toPeer[p], Welcome(proxyId)) \in Seq(Hearable')
    BY <2>1, <1>a, AppendProperties
  <2>4. Queues
    BY <1>8, <2>2, <2>3, <1>a DEF Queues, ProxySubscribe, TypeOK
  <2> QED
    BY <1>8, <2>4, <1>b DEF ProxySubscribe
<1>9. ASSUME NEW p \in Peer, ProxyPubUp(p) PROVE Queues /\ Known
  BY <1>9, <1>b, <1>c DEF ProxyPubUp
<1>10. ASSUME NEW p \in Peer, ProxyForward(p) PROVE Queues /\ Known
  <2>1. /\ fromPeer[p] # <<>> /\ peers' = peers
        /\ fromPeer' = [fromPeer EXCEPT ![p] = Tail(@)]
        /\ toPeer' = [q \in Peer |->
              IF q \in subs THEN Append(toPeer[q], Head(fromPeer[p])) ELSE toPeer[q]]
    BY <1>10 DEF ProxyForward
  <2>2. Head(fromPeer[p]) \in Sayable(p)' /\ Tail(fromPeer[p]) \in Seq(Sayable(p)')
    BY <2>1, <1>a, HeadTailProperties
  <2>3. Head(fromPeer[p]) \in Hearable'
    BY <2>2 DEF Hearable
  <2>4. ASSUME NEW q \in Peer PROVE Append(toPeer[q], Head(fromPeer[p])) \in Seq(Hearable')
    BY <2>3, <1>a, AppendProperties
  <2>5. Queues
    BY <2>1, <2>2, <2>4, <1>a DEF Queues, TypeOK
  <2> QED
    BY <2>1, <2>5, <1>b
<1>11. ASSUME NEW p \in Peer, Crash(p) PROVE Queues /\ Known
  <2>1. PICK kept \in Prefixes(fromPeer[p]) : fromPeer' = [fromPeer EXCEPT ![p] = kept]
    BY <1>11 DEF Crash
  <2>2. kept \in Seq(Sayable(p)') /\ <<>> \in Seq(Hearable')
    BY <1>a, PrefixIsQueue, EmptySeq
  <2>3. toPeer' = [toPeer EXCEPT ![p] = <<>>] /\ peers' = peers
    BY <1>11 DEF Crash
  <2>4. Queues
    BY <2>1, <2>2, <2>3, <1>a DEF Queues, TypeOK
  <2> QED
    BY <2>3, <2>4, <1>b
<1>12. ASSUME ProxyRestart PROVE Queues /\ Known
  <2>1. /\ \A q \in Peer : fromPeer'[q] = <<>> /\ toPeer'[q] \in Prefixes(toPeer[q])
        /\ peers' = peers
    BY <1>12 DEF ProxyRestart
  <2>2. ASSUME NEW q \in Peer
        PROVE  fromPeer'[q] \in Seq(Sayable(q)') /\ toPeer'[q] \in Seq(Hearable')
    BY <2>1, <1>a, PrefixIsQueue, EmptySeq
  <2> QED
    BY <2>1, <2>2, <1>b DEF Queues
<1>13. CASE UNCHANGED vars
  BY <1>13, <1>b, <1>c DEF vars
<1> QED
  BY <1>1, <1>2, <1>3, <1>4, <1>5, <1>6, <1>7, <1>8, <1>9, <1>10, <1>11, <1>12, <1>13
     DEF Next, PollMessage

\* Nobody is spoken for by another, or before it starts; and 'D' is said only of
\* those that decided to leave.
THEOREM AlwaysHonest == Spec => []Honest
<1>1. Init => Honest
  <2> SUFFICES ASSUME Init PROVE Honest
    OBVIOUS
  <2>1. \A S : <<>> \in Seq(S)
    BY EmptySeq
  <2> QED
    BY <2>1 DEF Init, Honest
<1> QED
  BY <1>1, TypeCorrect, HonestStep, PTL DEF Spec

-----------------------------------------------------------------------------
(***************************************************************************)
(* The map and dataSub.                                                    *)
(***************************************************************************)

\* A started peer advertises the port it asked for, if nobody else asks for it.
Advertised == \A q \in Peer : pc[q] # "off" => advert[q] = Port[q]

\* Nobody but Start writes the endpoint a peer advertises.
LEMMA AdvertisedStep ==
  ASSUME PortsDistinct, TypeOK, Advertised, [Next]_vars
  PROVE  /\ Advertised'
         /\ \A q \in Peer : pc[q] # "off" => advert'[q] = advert[q]
<1> USE DEF TypeOK, Advertised
<1>1. ASSUME NEW p \in Peer, NEW msgs, NEW rest, NextPass(p, msgs, rest), pc[p] = "poll",
             advert' = advert
      PROVE  Advertised'
  BY <1>1, PassState
<1>2. ASSUME NEW p \in Peer,
             PollTimeout(p) \/ ReceiveWelcome(p) \/ ReceiveConnectNew(p)
               \/ ReceiveKnown(p) \/ ReceiveDisconnect(p)
      PROVE  /\ \E msgs, rest : NextPass(p, msgs, rest)
             /\ pc[p] = "poll" /\ advert' = advert
  BY <1>2 DEF PollTimeout, ReceiveWelcome, ReceiveConnectNew, ReceiveKnown,
              ReceiveDisconnect, Received
<1>3. ASSUME NEW p \in Peer, Start(p)
      PROVE  /\ Advertised'
             /\ \A q \in Peer : pc[q] # "off" => advert'[q] = advert[q]
  <2>1. ~ \E q \in Running : advert[q] = Port[p]
    BY <1>3 DEF Start, Running, PortsDistinct
  <2> QED
    BY <1>3, <2>1 DEF Start
<1>4. ASSUME NEW p \in Peer,
             ReceiveOwnDisconnect(p) \/ ProxySubscribe(p) \/ ProxyPubUp(p)
               \/ ProxyForward(p) \/ Crash(p)
      PROVE  Advertised' /\ advert' = advert
  BY <1>4 DEF ReceiveOwnDisconnect, ProxySubscribe, ProxyPubUp, ProxyForward,
              Crash, Running, Received
<1>5. CASE ProxyRestart \/ UNCHANGED vars
  BY <1>5 DEF ProxyRestart, vars
<1> QED
  BY <1>1, <1>2, <1>3, <1>4, <1>5 DEF Next, PollMessage

\* One step keeps the map and the socket together: 'C' adds to both, and 'D' may
\* drop the endpoint because no other peer of the map has it.
LEMMA PeersConnectedStep ==
  ASSUME PortsDistinct, TypeOK, Honest, Advertised, PeersConnected, [Next]_vars
  PROVE  PeersConnected'
<1> USE DiscoveryAssumption
<1>1. ASSUME NEW p \in Peer, NEW q \in peers[p]
      PROVE  q \in Peer /\ advert'[q] = advert[q] /\ advert[q] = Port[q]
  BY AdvertisedStep DEF TypeOK, Honest, Advertised
<1>2. ASSUME peers' = peers, conns' = conns PROVE PeersConnected'
  BY <1>1, <1>2 DEF PeersConnected
<1>3. ASSUME NEW p \in Peer, ReceiveConnectNew(p) PROVE PeersConnected'
  <2> DEFINE q == Head(toPeer[p]).uuid
  <2>1. q \in Peer /\ pc[q] # "off"
    BY <1>3, ReceivedSayable DEF ReceiveConnectNew
  <2>2. /\ peers' = [peers EXCEPT ![p] = @ \cup {q}]
        /\ conns' = [conns EXCEPT ![p] = @ \cup ({advert[q]} \ {NoEndpoint})]
        /\ advert' = advert
    BY <1>3 DEF ReceiveConnectNew, DataSubConnect
  <2> HIDE DEF q
  <2>3. ASSUME NEW r \in Peer
        PROVE  conns'[r] = {advert'[t] : t \in peers'[r]} \ {NoEndpoint}
    <3>1. CASE r = p
      BY <2>1, <2>2, <3>1 DEF PeersConnected, TypeOK
    <3>2. CASE r # p
      BY <2>2, <3>2 DEF PeersConnected, TypeOK
    <3> QED
      BY <3>1, <3>2
  <2> QED
    BY <2>3 DEF PeersConnected
<1>4. ASSUME NEW p \in Peer, NEW q \in peers[p],
             peers' = [peers EXCEPT ![p] = @ \ {q}],
             DataSubDisconnect(p, advert[q]), advert' = advert
      PROVE  PeersConnected'
  <2>1. \A t \in peers[p] : advert[t] = advert[q] => t = q
    BY <1>1, <1>4 DEF PortsDistinct
  <2>2. conns' = [conns EXCEPT ![p] = @ \ {advert[q]}]
    BY <1>4 DEF DataSubDisconnect
  <2>3. ASSUME NEW r \in Peer
        PROVE  conns'[r] = {advert'[t] : t \in peers'[r]} \ {NoEndpoint}
    <3>1. CASE r = p
      BY <1>4, <2>1, <2>2, <3>1 DEF PeersConnected, TypeOK
    <3>2. CASE r # p
      BY <1>4, <2>2, <3>2 DEF PeersConnected, TypeOK
    <3> QED
      BY <3>1, <3>2
  <2> QED
    BY <2>3 DEF PeersConnected
<1>5. ASSUME NEW p \in Peer, ReceiveDisconnect(p) \/ ReceiveOwnDisconnect(p)
      PROVE  PeersConnected'
  BY <1>4, <1>5 DEF ReceiveDisconnect, ReceiveOwnDisconnect, KnowsSelf
<1>6. ASSUME NEW p \in Peer,
             Start(p) \/ PollTimeout(p) \/ ReceiveWelcome(p) \/ ReceiveKnown(p)
               \/ ProxySubscribe(p) \/ ProxyPubUp(p) \/ ProxyForward(p) \/ Crash(p)
      PROVE  PeersConnected'
  BY <1>2, <1>6 DEF Start, PollTimeout, ReceiveWelcome, ReceiveKnown, ProxySubscribe,
                    ProxyPubUp, ProxyForward, Crash
<1>7. CASE ProxyRestart \/ UNCHANGED vars
  BY <1>2, <1>7 DEF ProxyRestart, vars
<1> QED
  BY <1>3, <1>5, <1>6, <1>7 DEF Next, PollMessage

\* With a port for every peer, dataSub is at all times connected to the peers of
\* the map and to nobody else.
THEOREM MapMatchesSocket == PortsDistinct /\ Spec => []PeersConnected
<1>1. Init => Advertised /\ PeersConnected
  BY DEF Init, Advertised, PeersConnected
<1>2. /\ PortsDistinct /\ TypeOK /\ Honest /\ Advertised /\ PeersConnected /\ [Next]_vars
      => PortsDistinct' /\ Advertised' /\ PeersConnected'
  BY AdvertisedStep, PeersConnectedStep DEF PortsDistinct
<1> QED
  BY <1>1, <1>2, TypeCorrect, AlwaysHonest, PTL DEF Spec

-----------------------------------------------------------------------------
(***************************************************************************)
(* Discovery implements Membership.                                        *)
(***************************************************************************)

\* The values Membership's sets are given.
Joined  == {p \in Peer : pc[p] # "off"}
Leaving == {p \in Peer : ended[p]}

\* A pass of the loop, to an observer of the membership: nothing, or the decision
\* to leave, with the process gone at once or not.
LEMMA PassMembership ==
  ASSUME TypeOK, NEW p \in Peer, NEW msgs, NEW rest, NextPass(p, msgs, rest), pc[p] = "poll"
  PROVE  /\ p \in Running /\ Joined' = Joined
         /\ \/ Leaving' = Leaving /\ Running' = Running
            \/ Leaving' = Leaving \cup {p} /\ Running' \in {Running, Running \ {p}}
<1> USE DEF TypeOK, Joined, Leaving, Running
<1>1. p \in Running
  OBVIOUS
<1>2. CASE pc' = pc
  <2>1. Joined' = Joined /\ Running' = Running
    BY <1>2
  <2>2. ended' = ended => Leaving' = Leaving
    OBVIOUS
  <2>3. ended' = [ended EXCEPT ![p] = TRUE] => Leaving' = Leaving \cup {p}
    OBVIOUS
  <2> QED
    BY <1>1, <2>1, <2>2, <2>3, PassState
<1>3. CASE pc' = [pc EXCEPT ![p] = "exited"] /\ ended' = [ended EXCEPT ![p] = TRUE]
  <2>1. Joined' = Joined
    BY <1>3
  <2>2. Leaving' = Leaving \cup {p}
    BY <1>3
  <2>3. Running' = Running \ {p}
    BY <1>3
  <2> QED
    BY <1>1, <2>1, <2>2, <2>3
<1> QED
  BY <1>2, <1>3, PassState

\* Every step of the protocol is a step of Membership or leaves it alone.
LEMMA MembershipStep ==
  ASSUME TypeOK, Honest, [Next]_vars
  PROVE  [M!Next]_<<Joined, Running, Leaving, peers>>
<1> DEFINE Refines == [M!Next]_<<Joined, Running, Leaving, peers>>
<1> USE DEF TypeOK
<1>1. ASSUME NEW p \in Peer, Start(p) PROVE Refines
  <2>1. /\ Joined' = Joined \cup {p} /\ p \notin Joined
        /\ Running' = Running \cup {p}
        /\ Leaving' = Leaving /\ peers' = peers
    BY <1>1 DEF Start, Joined, Running, Leaving
  <2> QED
    BY <2>1 DEF M!Next, M!Join, Joined, Leaving
<1>2. ASSUME NEW p \in Peer, PollTimeout(p) \/ ReceiveWelcome(p) \/ ReceiveKnown(p)
      PROVE  Refines
  <2>1. PICK msgs, rest : NextPass(p, msgs, rest) /\ pc[p] = "poll" /\ peers' = peers
    BY <1>2 DEF PollTimeout, ReceiveWelcome, ReceiveKnown, Received
  <2>2. /\ p \in Running /\ Joined' = Joined
        /\ \/ Leaving' = Leaving /\ Running' = Running
           \/ Leaving' = Leaving \cup {p} /\ Running' \in {Running, Running \ {p}}
    BY <2>1, PassMembership
  <2> QED
    BY <2>1, <2>2 DEF M!Next, M!Quit, Joined, Leaving
<1>3. ASSUME NEW p \in Peer, ReceiveConnectNew(p) PROVE Refines
  <2>1. PICK q \in Peer : q = Head(toPeer[p]).uuid /\ pc[q] # "off" /\ pc[p] = "poll"
    BY <1>3, ReceivedSayable DEF ReceiveConnectNew
  <2>2. PICK msgs, rest : NextPass(p, msgs, rest)
    BY <1>3 DEF ReceiveConnectNew
  <2>3. q \notin peers[p] /\ peers' = [peers EXCEPT ![p] = @ \cup {q}]
    BY <1>3, <2>1 DEF ReceiveConnectNew
  <2>4. /\ p \in Running /\ Joined' = Joined
        /\ \/ Leaving' = Leaving /\ Running' = Running
           \/ Leaving' = Leaving \cup {p} /\ Running' \in {Running, Running \ {p}}
    BY <2>1, <2>2, PassMembership
  <2>5. Running' \in {Running, Running \ (Leaving' \cap {p})}
    BY <2>4
  <2>6. M!Learn(p, q)
    BY <2>1, <2>3, <2>4, <2>5 DEF M!Learn, M!Decide, Joined, Leaving
  <2> QED
    BY <2>1, <2>6 DEF M!Next
<1>4. ASSUME NEW p \in Peer, ReceiveDisconnect(p) PROVE Refines
  <2>1. PICK q \in Peer : q = Head(toPeer[p]).uuid /\ ended[q] /\ pc[p] = "poll"
    BY <1>4, ReceivedSayable DEF ReceiveDisconnect
  <2>2. PICK msgs, rest : NextPass(p, msgs, rest)
    BY <1>4 DEF ReceiveDisconnect
  <2>3. q \in peers[p] \ {p} /\ peers' = [peers EXCEPT ![p] = @ \ {q}]
    BY <1>4, <2>1 DEF ReceiveDisconnect
  <2>4. /\ p \in Running /\ Joined' = Joined
        /\ \/ Leaving' = Leaving /\ Running' = Running
           \/ Leaving' = Leaving \cup {p} /\ Running' \in {Running, Running \ {p}}
    BY <2>1, <2>2, PassMembership
  <2>5. Running' \in {Running, Running \ (Leaving' \cap {p})}
    BY <2>4
  <2>6. M!Forget(p, q)
    BY <2>1, <2>3, <2>4, <2>5 DEF M!Forget, M!Decide, Joined, Leaving
  <2> QED
    BY <2>1, <2>6 DEF M!Next
<1>5. ASSUME NEW p \in Peer, ReceiveOwnDisconnect(p) PROVE Refines
  <2>1. pc[p] = "poll" /\ ended[p] /\ p \in peers[p]
    BY <1>5, ReceivedSayable DEF ReceiveOwnDisconnect, KnowsSelf
  <2>2. /\ peers' = [peers EXCEPT ![p] = @ \ {p}]
        /\ pc' = [pc EXCEPT ![p] = "exited"] /\ ended' = ended
    BY <1>5 DEF ReceiveOwnDisconnect
  <2>3. /\ p \in Running \cap Leaving \cap peers[p]
        /\ Joined' = Joined /\ Leaving' = Leaving /\ Running' = Running \ {p}
    BY <2>1, <2>2 DEF Joined, Running, Leaving
  <2>4. M!Depart(p)
    BY <2>2, <2>3 DEF M!Depart, Joined, Leaving
  <2> QED
    BY <2>4 DEF M!Next
<1>6. ASSUME NEW p \in Peer, Crash(p) PROVE Refines
  <2>1. /\ p \in Running /\ Running' = Running \ {p}
        /\ Joined' = Joined /\ Leaving' = Leaving /\ peers' = peers
    BY <1>6 DEF Crash, Joined, Running, Leaving
  <2>2. M!Kill(p)
    BY <2>1 DEF M!Kill, Joined, Leaving
  <2> QED
    BY <2>2 DEF M!Next
<1>7. ASSUME NEW p \in Peer, ProxySubscribe(p) \/ ProxyPubUp(p) \/ ProxyForward(p)
      PROVE  Refines
  <2>1. pc' = pc /\ ended' = ended /\ peers' = peers
    BY <1>7 DEF ProxySubscribe, ProxyPubUp, ProxyForward
  <2> QED
    BY <2>1 DEF Joined, Running, Leaving
<1>8. CASE ProxyRestart \/ UNCHANGED vars
  <2>1. pc' = pc /\ ended' = ended /\ peers' = peers
    BY <1>8 DEF ProxyRestart, vars
  <2> QED
    BY <2>1 DEF Joined, Running, Leaving
<1> QED
  BY <1>1, <1>2, <1>3, <1>4, <1>5, <1>6, <1>7, <1>8 DEF Next, PollMessage

\* Whatever is lost, delayed or reordered, killed or restarted: a peer is added
\* to a map only after it started, and removed only after it decided to leave.
THEOREM ImplementsMembership == Spec => KeepsMembership
<1>1. Init => M!Init
  BY DEF Init, M!Init, Running
<1>2. TypeOK /\ Honest /\ [Next]_vars => [M!Next]_M!mvars
  BY MembershipStep DEF M!mvars, Joined, Leaving
<1> QED
  BY <1>1, <1>2, TypeCorrect, AlwaysHonest, PTL DEF Spec, KeepsMembership, M!Spec
=============================================================================
