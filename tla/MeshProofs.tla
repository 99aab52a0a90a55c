---------------------------- MODULE MeshProofs ----------------------------
(***************************************************************************)
(* Proofs about Discovery while the proxy is not restarted: who stays is   *)
(* connected to all who stay, and nobody keeps a peer that left.           *)
(***************************************************************************)
EXTENDS DiscoveryProofs

-----------------------------------------------------------------------------
(***************************************************************************)
(* What a queue of the proxy has to say of one peer.                       *)
(***************************************************************************)

\* Nothing at all.
Absent(s, q) == \A i \in 1 .. Len(s) : s[i] # Connect(q) /\ s[i] # Disconnect(q)

\* 'D', at place i or after it.
GoodbyeIn(s, i, q) == \E j \in i .. Len(s) : s[j] = Disconnect(q)

\* 'D' after every 'C'.
Followed(s, q) == \A i \in 1 .. Len(s) : s[i] = Connect(q) => GoodbyeIn(s, i, q)

\* 'C' and 'D' differ, and so do what two peers say.
LEMMA Different ==
  ASSUME NEW p, NEW q
  PROVE  /\ Connect(p) # Disconnect(q)
         /\ p # q => Connect(p) # Connect(q) /\ Disconnect(p) # Disconnect(q)
BY DEF Connect, Disconnect

\* A queue that says nothing of q lacks no 'D', and the empty one says nothing.
LEMMA NothingSaid ==
  ASSUME NEW s, NEW q
  PROVE  /\ Absent(s, q) => Followed(s, q)
         /\ s = <<>> => Absent(s, q)
BY DEF Absent, Followed

\* What reading its first message leaves in a queue.
LEMMA Reading ==
  ASSUME NEW s \in Seq(Msg), s # <<>>, NEW q
  PROVE  /\ Absent(s, q) => Absent(Tail(s), q) /\ Head(s) # Connect(q)
         /\ Followed(s, q) => Followed(Tail(s), q)
         /\ Followed(s, q) /\ Head(s) = Connect(q) => GoodbyeIn(Tail(s), 1, q)
         /\ GoodbyeIn(s, 1, q) /\ Head(s) # Disconnect(q) => GoodbyeIn(Tail(s), 1, q)
<1> DEFINE t == Tail(s)  n == Len(s)
<1>1. /\ n \in Nat /\ n > 0 /\ Len(t) = n - 1
      /\ \A i \in 1 .. n - 1 : t[i] = s[i + 1]
      /\ Head(s) = s[1]
  BY HeadTailProperties, EmptySeq, LenProperties
<1> HIDE DEF t
<1>2. 1 \in 1 .. n /\ \A i \in 1 .. n - 1 : i + 1 \in 1 .. n
  BY <1>1
<1>3. ASSUME NEW i \in 1 .. n, NEW j \in i .. n, j # 1, s[j] = Disconnect(q)
      PROVE  j - 1 \in 1 .. n - 1 /\ t[j - 1] = Disconnect(q)
  <2>1. j - 1 \in 1 .. n - 1 /\ (j - 1) + 1 = j
    BY <1>1, <1>3
  <2> QED
    BY <1>1, <1>3, <2>1
<1>4. ASSUME Absent(s, q) PROVE Absent(t, q) /\ Head(s) # Connect(q)
  BY <1>1, <1>2, <1>4 DEF Absent
<1>5. ASSUME Followed(s, q) PROVE Followed(t, q)
  <2> SUFFICES ASSUME NEW i \in 1 .. n - 1, t[i] = Connect(q) PROVE GoodbyeIn(t, i, q)
    BY <1>1 DEF Followed
  <2>1. i + 1 \in 1 .. n /\ s[i + 1] = Connect(q)
    BY <1>1, <1>2
  <2>2. PICK j \in i + 1 .. n : s[j] = Disconnect(q)
    BY <1>5, <2>1 DEF Followed, GoodbyeIn
  <2>3. j # 1 /\ j - 1 \in i .. n - 1
    BY <1>1, <2>2
  <2>4. t[j - 1] = Disconnect(q)
    BY <1>3, <2>1, <2>2, <2>3
  <2> QED
    BY <1>1, <2>3, <2>4 DEF GoodbyeIn
<1>6. ASSUME GoodbyeIn(s, 1, q), Head(s) # Disconnect(q) PROVE GoodbyeIn(t, 1, q)
  <2>1. PICK j \in 1 .. n : s[j] = Disconnect(q)
    BY <1>6 DEF GoodbyeIn
  <2>2. j # 1
    BY <1>1, <1>6, <2>1
  <2> QED
    BY <1>1, <1>2, <1>3, <2>1, <2>2 DEF GoodbyeIn
<1>7. ASSUME Followed(s, q), Head(s) = Connect(q) PROVE GoodbyeIn(t, 1, q)
  <2>1. GoodbyeIn(s, 1, q)
    BY <1>1, <1>2, <1>7 DEF Followed
  <2> QED
    BY <1>6, <1>7, <2>1, Different
<1> QED
  BY <1>4, <1>5, <1>6, <1>7 DEF t

\* What one more message at the end does to a queue.
LEMMA Arriving ==
  ASSUME NEW s \in Seq(Msg), NEW m \in Msg, NEW q
  PROVE  /\ Absent(s, q) /\ m # Connect(q) /\ m # Disconnect(q) => Absent(Append(s, m), q)
         /\ GoodbyeIn(s, 1, q) => GoodbyeIn(Append(s, m), 1, q)
         /\ Followed(s, q) /\ m # Connect(q) => Followed(Append(s, m), q)
         /\ m = Disconnect(q) => /\ Followed(Append(s, m), q)
                                 /\ GoodbyeIn(Append(s, m), 1, q)
<1> DEFINE a == Append(s, m)  n == Len(s)
<1>1. /\ n \in Nat /\ Len(a) = n + 1 /\ a[n + 1] = m
      /\ \A i \in 1 .. n : a[i] = s[i]
  BY LenProperties, AppendProperties
<1> HIDE DEF a, n
<1>2. /\ \A i \in 1 .. n + 1 : i \in 1 .. n \/ i = n + 1
      /\ \A i \in 1 .. n : \A j \in i .. n : j \in i .. n + 1 /\ j \in 1 .. n
      /\ \A i \in 1 .. n + 1 : n + 1 \in i .. n + 1
      /\ n + 1 \in 1 .. n + 1
  BY <1>1
<1>3. ASSUME Absent(s, q), m # Connect(q), m # Disconnect(q) PROVE Absent(a, q)
  BY <1>1, <1>2, <1>3 DEF Absent, n
<1>4. ASSUME GoodbyeIn(s, 1, q) PROVE GoodbyeIn(a, 1, q)
  <2>1. PICK j \in 1 .. n : s[j] = Disconnect(q)
    BY <1>4 DEF GoodbyeIn, n
  <2>2. j \in 1 .. n + 1 /\ a[j] = Disconnect(q)
    BY <1>1, <2>1
  <2> QED
    BY <1>1, <2>2 DEF GoodbyeIn
<1>5. ASSUME Followed(s, q), m # Connect(q) PROVE Followed(a, q)
  <2> SUFFICES ASSUME NEW i \in 1 .. n + 1, a[i] = Connect(q) PROVE GoodbyeIn(a, i, q)
    BY <1>1 DEF Followed
  <2>1. i \in 1 .. n /\ s[i] = Connect(q)
    BY <1>1, <1>2, <1>5
  <2>2. PICK j \in i .. n : s[j] = Disconnect(q)
    BY <1>5, <2>1 DEF Followed, GoodbyeIn, n
  <2>3. j \in i .. n + 1 /\ a[j] = Disconnect(q)
    BY <1>1, <1>2, <2>1, <2>2
  <2> QED
    BY <1>1, <2>3 DEF GoodbyeIn
<1>6. ASSUME m = Disconnect(q) PROVE Followed(a, q) /\ GoodbyeIn(a, 1, q)
  BY <1>1, <1>2, <1>6 DEF Followed, GoodbyeIn
<1> QED
  BY <1>3, <1>4, <1>5, <1>6 DEF a

-----------------------------------------------------------------------------
(***************************************************************************)
(* The invariant.                                                          *)
(***************************************************************************)

\* The proxy keeps running.
Steady == MaxProxyRestarts = 0

\* close() flushes what a peer has said.
Flushes == Linger = Peer

\* The proxy knows running peers only, and one it does not know has heard nothing.
Attached ==
  \A p \in Peer :
    /\ p \in subs => pc[p] = "poll"
    /\ p \notin subs => toPeer[p] = <<>>
    /\ p \notin subs /\ pc[p] \in {"off", "poll"} => peers[p] = {}

\* A peer that does not reach the proxy has never been heard of.
Silent(q) ==
  link[q] # "up" =>
    fromPeer[q] = <<>> /\ \A p \in Peer : q \notin peers[p] /\ Absent(toPeer[p], q)

\* What p has yet to read of q ends in 'D', if there is something to take back.
Forgets(p, q) ==
  Followed(toPeer[p], q) /\ (q \in peers[p] => GoodbyeIn(toPeer[p], 1, q))

\* A peer that has decided to leave has said so last, if close() flushes what it says.
Departing(q) ==
  /\ pc[q] = "exited" => ended[q]
  /\ Flushes /\ ended[q] /\ pc[q] # "crashed" =>
       /\ fromPeer[q] # <<>> => fromPeer[q][Len(fromPeer[q])] = Disconnect(q)
       /\ fromPeer[q] = <<>> => \A p \in Running : Forgets(p, q)

MeshInv == Attached /\ \A q \in Peer : Silent(q) /\ Departing(q)

\* close() leaves nothing of nothing.
LEMMA NothingKept == Prefixes(<<>>) = {<<>>}
<1>1. Len(<<>>) = 0 /\ SubSeq(<<>>, 1, 0) = <<>>
  BY EmptySeq
<1>2. 0 .. 0 = {0}
  OBVIOUS
<1> QED
  BY <1>1, <1>2 DEF Prefixes

\* Of a peer that has never been heard of there is nothing to forget.
LEMMA SilentForgotten ==
  ASSUME NEW q \in Peer, Silent(q), link[q] # "up"
  PROVE  fromPeer[q] = <<>> /\ \A p \in Peer : Forgets(p, q)
BY NothingSaid DEF Silent, Forgets

\* The last message of what is said after something else.
LEMMA LastSaid ==
  ASSUME NEW a \in Seq(Msg), NEW b \in Seq(Msg), b # <<>>
  PROVE  /\ a \o b \in Seq(Msg) /\ a \o b # <<>>
         /\ (a \o b)[Len(a \o b)] = b[Len(b)]
<1> DEFINE ab == a \o b  k == Len(a)  n == Len(b)
<1>1. k \in Nat /\ n \in Nat /\ n # 0
  BY LenProperties, EmptySeq
<1>2. ab \in Seq(Msg) /\ Len(ab) = k + n
  BY ConcatProperties
<1>3. k + n \in k + 1 .. k + n /\ (k + n) - k = n
  BY <1>1
<1>4. \A i \in k + 1 .. k + n : ab[i] = b[i - k]
  BY <1>1, ConcatProperties
<1>5. ab[k + n] = b[n]
  BY <1>3, <1>4
<1>6. ab # <<>>
  BY <1>1, <1>2, EmptySeq
<1> QED
  BY <1>2, <1>5, <1>6

\* What a pass of the loop does.
LEMMA PassEffect ==
  ASSUME TypeOK, NEW p \in Peer, NEW msgs \in Seq({Connect(p)}), NEW rest \in Seq(Msg),
         pc[p] = "poll", NextPass(p, msgs, rest)
  PROVE  /\ \A r \in Peer \ {p} :
              /\ pc'[r] = pc[r] /\ ended'[r] = ended[r]
              /\ fromPeer'[r] = fromPeer[r] /\ toPeer'[r] = toPeer[r]
              /\ r \in subs' <=> r \in subs
         /\ link[p] # "up" /\ fromPeer[p] = <<>> => fromPeer'[p] = <<>>
         /\ pc'[p] = "poll" /\ ~ended'[p] => fromPeer'[p] = SendConnectMsg(p, msgs) /\ ~ended[p]
         /\ Flushes /\ link[p] = "up" /\ ended'[p] =>
              /\ fromPeer'[p] # <<>>
              /\ fromPeer'[p][Len(fromPeer'[p])] = Disconnect(p)
         /\ \/ /\ pc'[p] = "poll" /\ toPeer'[p] = rest
               /\ p \in subs' <=> p \in subs
            \/ /\ pc'[p] = "exited" /\ ended'[p] /\ toPeer'[p] = <<>> /\ p \notin subs'
<1> DEFINE said == SendConnectMsg(p, msgs \o <<Disconnect(p)>>)
<1>1. /\ fromPeer[p] \in Seq(Msg) /\ msgs \in Seq(Msg) /\ <<Disconnect(p)>> \in Seq(Msg)
      /\ fromPeer \in [Peer -> Seq(Msg)] /\ toPeer \in [Peer -> Seq(Msg)]
      /\ ended \in [Peer -> BOOLEAN] /\ pc \in [Peer -> {"off", "poll", "exited", "crashed"}]
  <2>1. {Connect(p)} \subseteq Msg /\ Disconnect(p) \in Msg
    BY OwnMessages
  <2>2. msgs \in Seq(Msg)
    BY <2>1, SeqMonotonic
  <2> QED
    BY <2>1, <2>2 DEF TypeOK
<1>2. link[p] = "up" => said # <<>> /\ said[Len(said)] = Disconnect(p)
  <2> SUFFICES ASSUME link[p] = "up" PROVE said # <<>> /\ said[Len(said)] = Disconnect(p)
    OBVIOUS
  <2> DEFINE d == <<Disconnect(p)>>  m == msgs \o d
  <2>1. said = fromPeer[p] \o m
    BY DEF SendConnectMsg
  <2>2. d \in Seq(Msg) /\ d # <<>> /\ Len(d) = 1 /\ d[1] = Disconnect(p)
    BY <1>1
  <2> HIDE DEF d
  <2>3. msgs \in Seq(Msg)
    BY <1>1
  <2>4. m \in Seq(Msg) /\ m # <<>> /\ m[Len(m)] = d[Len(d)]
    BY <2>2, <2>3, LastSaid
  <2> HIDE DEF m, said
  <2>5. fromPeer[p] \in Seq(Msg)
    BY <1>1
  <2>6. said # <<>> /\ said[Len(said)] = m[Len(m)]
    BY <2>1, <2>4, <2>5, LastSaid
  <2> QED
    BY <2>2, <2>4, <2>6
<1>3. link[p] # "up" => said = fromPeer[p]
  BY DEF SendConnectMsg
<1>4. CASE KeepPolling(p, msgs, rest)
  BY <1>1, <1>4 DEF KeepPolling, SendConnectMsg
<1> HIDE DEF said
<1>5. CASE SayGoodbye(p, msgs, rest)
  BY <1>1, <1>2, <1>3, <1>5 DEF SayGoodbye, said
<1>6. CASE LeaveAtOnce(p, msgs)
  <2>1. /\ toPeer' = [toPeer EXCEPT ![p] = <<>>]
        /\ subs' = subs \ {p}
        /\ ended' = [ended EXCEPT ![p] = TRUE]
        /\ pc' = [pc EXCEPT ![p] = "exited"]
    BY <1>6 DEF LeaveAtOnce, Gone
  <2>2. PICK kept \in IF p \in Linger THEN {said} ELSE Prefixes(said) :
          fromPeer' = [fromPeer EXCEPT ![p] = kept]
    BY <1>6 DEF LeaveAtOnce, Gone, said
  <2>3. said = <<>> => kept = <<>>
    BY <2>2, NothingKept
  <2>4. Flushes => kept = said
    BY <2>2 DEF Flushes
  <2> QED
    BY <1>1, <1>2, <1>3, <2>1, <2>2, <2>3, <2>4
<1> QED
  BY <1>4, <1>5, <1>6 DEF NextPass

\* A pass of the loop keeps the invariant, if what it leaves to be read and in the map
\* is what reading a message leaves.
LEMMA PassKeeps ==
  ASSUME TypeOK, MeshInv,
         NEW p \in Peer, NEW msgs \in Seq({Connect(p)}), NEW rest \in Seq(Msg),
         pc[p] = "poll", NextPass(p, msgs, rest),
         \A q \in Peer : link'[q] = "up" <=> link[q] = "up",
         \A r \in Peer \ {p} : peers'[r] = peers[r],
         p \notin subs => rest = <<>> /\ peers'[p] = {},
         \A q \in Peer :
           q \notin peers[p] /\ Absent(toPeer[p], q) => q \notin peers'[p] /\ Absent(rest, q),
         \A q \in Peer :
           Forgets(p, q) => Followed(rest, q) /\ (q \in peers'[p] => GoodbyeIn(rest, 1, q))
  PROVE  MeshInv'
<1>1. /\ \A r \in Peer \ {p} :
           /\ pc'[r] = pc[r] /\ ended'[r] = ended[r]
           /\ fromPeer'[r] = fromPeer[r] /\ toPeer'[r] = toPeer[r]
           /\ r \in subs' <=> r \in subs
      /\ link[p] # "up" /\ fromPeer[p] = <<>> => fromPeer'[p] = <<>>
      /\ Flushes /\ link[p] = "up" /\ ended'[p] =>
           /\ fromPeer'[p] # <<>>
           /\ fromPeer'[p][Len(fromPeer'[p])] = Disconnect(p)
      /\ \/ /\ pc'[p] = "poll" /\ toPeer'[p] = rest
            /\ p \in subs' <=> p \in subs
         \/ /\ pc'[p] = "exited" /\ ended'[p] /\ toPeer'[p] = <<>> /\ p \notin subs'
  BY PassEffect
<1>2. Attached'
  BY <1>1 DEF MeshInv, Attached
<1>3. ASSUME NEW q \in Peer PROVE Silent(q)'
  <2> SUFFICES ASSUME link'[q] # "up"
               PROVE  fromPeer'[q] = <<>> /\ \A r \in Peer : q \notin peers'[r] /\ Absent(toPeer'[r], q)
    BY DEF Silent
  <2>1. fromPeer[q] = <<>> /\ \A r \in Peer : q \notin peers[r] /\ Absent(toPeer[r], q)
    BY DEF MeshInv, Silent
  <2>2. fromPeer'[q] = <<>>
    BY <1>1, <2>1
  <2>3. q \notin peers'[p] /\ Absent(toPeer'[p], q)
    BY <1>1, <2>1, NothingSaid
  <2> QED
    BY <1>1, <2>1, <2>2, <2>3
<1>4. ASSUME NEW q \in Peer PROVE Departing(q)'
  <2>1. CASE q = p
    <3>1. CASE link[p] = "up"
      BY <1>1, <2>1, <3>1 DEF Departing
    <3>2. CASE link[p] # "up"
      <4>1. fromPeer'[p] = <<>> /\ \A r \in Peer : Forgets(r, p)'
        <5>1. Silent(p)' /\ link'[p] # "up"
          BY <1>3, <3>2
        <5>2. fromPeer'[p] = <<>> /\ \A r \in Peer : p \notin peers'[r] /\ Absent(toPeer'[r], p)
          BY <5>1 DEF Silent
        <5> QED
          BY <5>2, NothingSaid DEF Forgets
      <4> QED
        BY <1>1, <2>1, <4>1 DEF Departing, Running
    <3> QED
      BY <3>1, <3>2
  <2>2. CASE q # p
    <3>1. pc'[q] = pc[q] /\ ended'[q] = ended[q] /\ fromPeer'[q] = fromPeer[q]
      BY <1>1, <2>2
    <3>2. ASSUME NEW r \in Running', r \in Peer, r # p, Forgets(r, q) PROVE Forgets(r, q)'
      BY <1>1, <3>2 DEF Forgets
    <3>3. ASSUME p \in Running', Forgets(p, q) PROVE Forgets(p, q)'
      BY <1>1, <3>3 DEF Forgets, Running
    <3>4. \A r \in Running' : r \in Running /\ r \in Peer
      BY <1>1 DEF Running
    <3> QED
      BY <3>1, <3>2, <3>3, <3>4 DEF Departing, MeshInv
  <2> QED
    BY <2>1, <2>2
<1> QED
  BY <1>2, <1>3, <1>4 DEF MeshInv

\* A received message, and who receives one.
LEMMA ReceivedIs ==
  ASSUME TypeOK, Attached, NEW p \in Peer, NEW command, Received(p, command)
  PROVE  /\ pc[p] = "poll" /\ p \in subs
         /\ toPeer[p] \in Seq(Msg) /\ toPeer[p] # <<>> /\ Tail(toPeer[p]) \in Seq(Msg)
         /\ command = "C" => Head(toPeer[p]) = Connect(Head(toPeer[p]).uuid)
         /\ command = "D" => Head(toPeer[p]) = Disconnect(Head(toPeer[p]).uuid)
         /\ command = "W" => \A q : Head(toPeer[p]) # Connect(q) /\ Head(toPeer[p]) # Disconnect(q)
         /\ command \in {"C", "D"} => Head(toPeer[p]).uuid \in Peer
<1>1. /\ toPeer[p] \in Seq(Msg) /\ toPeer[p] # <<>> /\ pc[p] = "poll" /\ p \in subs
      /\ Head(toPeer[p]).command = command
  BY DEF TypeOK, Received, Attached
<1>2. Head(toPeer[p]) \in Msg /\ Tail(toPeer[p]) \in Seq(Msg)
  BY <1>1, HeadTailProperties
<1>3. ASSUME NEW m \in Msg
      PROVE  /\ m.command = "C" => m = Connect(m.uuid) /\ m.uuid \in Peer
             /\ m.command = "D" => m = Disconnect(m.uuid) /\ m.uuid \in Peer
             /\ m.command = "W" => \A q : m # Connect(q) /\ m # Disconnect(q)
  BY DEF Msg, Connect, Disconnect
<1> QED
  BY <1>1, <1>2, <1>3

\* Every pass of the loop that does not leave it keeps the invariant
\* (3186/peer.cpp:96-191).
LEMMA PassesKeep ==
  ASSUME TypeOK, MeshInv, NEW p \in Peer,
         PollTimeout(p) \/ ReceiveWelcome(p) \/ ReceiveConnectNew(p)
           \/ ReceiveKnown(p) \/ ReceiveDisconnect(p)
  PROVE  MeshInv'
<1> DEFINE h == Head(toPeer[p])  t == Tail(toPeer[p])  u == h.uuid
<1>1. /\ SelfAnnouncement(p) \in Seq({Connect(p)})
      /\ \A q \in Peer : SelfAnnouncement(p) \o Reply(p, q) \in Seq({Connect(p)})
  BY OwnMessages
<1>2. Attached /\ toPeer[p] \in Seq(Msg) /\ peers \in [Peer -> SUBSET Peer]
      /\ link \in [Peer -> {"none", "connecting", "up"}]
  BY DEF TypeOK, MeshInv
<1>3. ASSUME toPeer[p] # <<>>, NEW q
      PROVE  /\ Absent(toPeer[p], q) => Absent(t, q) /\ h # Connect(q)
             /\ Followed(toPeer[p], q) => Followed(t, q)
             /\ Followed(toPeer[p], q) /\ h = Connect(q) => GoodbyeIn(t, 1, q)
             /\ GoodbyeIn(toPeer[p], 1, q) /\ h # Disconnect(q) => GoodbyeIn(t, 1, q)
  BY <1>2, <1>3, Reading
<1> HIDE DEF t, h
<1>4. CASE PollTimeout(p)
  <2>1. /\ NextPass(p, SelfAnnouncement(p), toPeer[p]) /\ pc[p] = "poll"
        /\ peers' = peers /\ link' = link
    BY <1>4 DEF PollTimeout
  <2>2. p \notin subs => toPeer[p] = <<>> /\ peers[p] = {}
    BY <1>2, <2>1 DEF Attached
  <2>3. \A q \in Peer :
          Forgets(p, q) => Followed(toPeer[p], q) /\ (q \in peers[p] => GoodbyeIn(toPeer[p], 1, q))
    BY DEF Forgets
  <2> QED
    BY <1>1, <1>2, <2>1, <2>2, <2>3, PassKeeps
<1>5. CASE ReceiveWelcome(p)
  <2>1. Received(p, "W") /\ NextPass(p, SelfAnnouncement(p), t) /\ peers' = peers
    BY <1>5 DEF ReceiveWelcome, t
  <2>2. \A q \in Peer : link'[q] = "up" <=> link[q] = "up"
    BY <1>2, <1>5 DEF ReceiveWelcome
  <2>3. /\ pc[p] = "poll" /\ p \in subs /\ toPeer[p] # <<>> /\ t \in Seq(Msg)
        /\ \A q : h # Connect(q) /\ h # Disconnect(q)
    BY <1>2, <2>1, ReceivedIs DEF t, h
  <2>4. \A q \in Peer : Forgets(p, q) => Followed(t, q) /\ (q \in peers[p] => GoodbyeIn(t, 1, q))
    BY <1>3, <2>3 DEF Forgets
  <2> QED
    BY <1>1, <1>3, <2>1, <2>2, <2>3, <2>4, PassKeeps
<1>6. CASE ReceiveConnectNew(p)
  <2>1. /\ Received(p, "C") /\ NextPass(p, SelfAnnouncement(p) \o Reply(p, u), t)
        /\ peers' = [peers EXCEPT ![p] = @ \cup {u}] /\ link' = link
    BY <1>6 DEF ReceiveConnectNew, t, h
  <2>2. /\ pc[p] = "poll" /\ p \in subs /\ toPeer[p] # <<>> /\ t \in Seq(Msg)
        /\ h = Connect(u) /\ u \in Peer
    BY <1>2, <2>1, ReceivedIs DEF t, h
  <2> HIDE DEF u
  <2>3. \A r \in Peer : r # p => peers'[r] = peers[r]
    BY <1>2, <2>1
  <2>4. peers'[p] = peers[p] \cup {u}
    BY <1>2, <2>1
  <2>5. ASSUME NEW q \in Peer, Forgets(p, q)
        PROVE  Followed(t, q) /\ (q \in peers'[p] => GoodbyeIn(t, 1, q))
    <3>1. Followed(t, q)
      BY <1>3, <2>2, <2>5 DEF Forgets
    <3>2. CASE q = u
      BY <1>3, <2>2, <2>5, <3>1, <3>2 DEF Forgets
    <3>3. CASE q # u
      BY <1>3, <2>2, <2>4, <2>5, <3>1, <3>3, Different DEF Forgets
    <3> QED
      BY <3>2, <3>3
  <2>6. ASSUME NEW q \in Peer, q \notin peers[p], Absent(toPeer[p], q)
        PROVE  q \notin peers'[p] /\ Absent(t, q)
    BY <1>3, <2>2, <2>4, <2>6
  <2>7. SelfAnnouncement(p) \o Reply(p, u) \in Seq({Connect(p)})
    BY <1>1, <2>2
  <2> QED
    BY <2>1, <2>2, <2>3, <2>5, <2>6, <2>7, PassKeeps
<1>7. CASE ReceiveKnown(p)
  <2>1. /\ \/ Received(p, "C") /\ u \in peers[p]
           \/ Received(p, "D") /\ u \notin peers[p]
        /\ NextPass(p, SelfAnnouncement(p), t) /\ peers' = peers /\ link' = link
    BY <1>7 DEF ReceiveKnown, t, h
  <2>2. /\ pc[p] = "poll" /\ p \in subs /\ toPeer[p] # <<>> /\ t \in Seq(Msg) /\ u \in Peer
        /\ h = Connect(u) \/ (h = Disconnect(u) /\ u \notin peers[p])
    BY <1>2, <2>1, ReceivedIs DEF t, h
  <2> HIDE DEF u
  <2>3. ASSUME NEW q \in Peer, Forgets(p, q)
        PROVE  Followed(t, q) /\ (q \in peers[p] => GoodbyeIn(t, 1, q))
    <3>1. Followed(t, q)
      BY <1>3, <2>2, <2>3 DEF Forgets
    <3>2. q \in peers[p] => h # Disconnect(q)
      BY <2>2, Different
    <3> QED
      BY <1>3, <2>2, <2>3, <3>1, <3>2 DEF Forgets
  <2> QED
    BY <1>1, <1>3, <2>1, <2>2, <2>3, PassKeeps
<1>8. CASE ReceiveDisconnect(p)
  <2>1. /\ Received(p, "D") /\ NextPass(p, SelfAnnouncement(p), t)
        /\ peers' = [peers EXCEPT ![p] = @ \ {u}] /\ link' = link
    BY <1>8 DEF ReceiveDisconnect, t, h
  <2>2. /\ pc[p] = "poll" /\ p \in subs /\ toPeer[p] # <<>> /\ t \in Seq(Msg) /\ u \in Peer
        /\ h = Disconnect(u)
    BY <1>2, <2>1, ReceivedIs DEF t, h
  <2> HIDE DEF u
  <2>3. (\A r \in Peer : r # p => peers'[r] = peers[r]) /\ peers'[p] = peers[p] \ {u}
    BY <1>2, <2>1
  <2>4. ASSUME NEW q \in Peer, Forgets(p, q)
        PROVE  Followed(t, q) /\ (q \in peers'[p] => GoodbyeIn(t, 1, q))
    <3>1. Followed(t, q)
      BY <1>3, <2>2, <2>4 DEF Forgets
    <3>2. q \in peers'[p] => q \in peers[p] /\ h # Disconnect(q)
      BY <2>2, <2>3, Different
    <3> QED
      BY <1>3, <2>2, <2>4, <3>1, <3>2 DEF Forgets
  <2> QED
    BY <1>1, <1>3, <2>1, <2>2, <2>3, <2>4, PassKeeps
<1> QED
  BY <1>4, <1>5, <1>6, <1>7, <1>8

\* The proxy passes on a message: what a peer has yet to read of the sender is the same,
\* only nearer (3186/proxy.c).
LEMMA ForwardKeeps ==
  ASSUME TypeOK, Honest, MeshInv, NEW p \in Peer, ProxyForward(p)
  PROVE  MeshInv'
<1> DEFINE f == fromPeer[p]  h == Head(f)
<1>1. /\ f # <<>> /\ fromPeer' = [fromPeer EXCEPT ![p] = Tail(f)]
      /\ toPeer' = [r \in Peer |-> IF r \in subs THEN Append(toPeer[r], h) ELSE toPeer[r]]
      /\ UNCHANGED <<pc, ended, peers, link, subs>>
  BY DEF ProxyForward
<1>2. f \in Seq(Msg) /\ f \in Seq(Sayable(p)) /\ fromPeer \in [Peer -> Seq(Msg)]
      /\ \A r \in Peer : toPeer[r] \in Seq(Msg)
  BY DEF TypeOK, Honest
<1>3. h \in Msg /\ h \in {Connect(p), Disconnect(p)}
  BY <1>1, <1>2, HeadTailProperties DEF Sayable
<1>4. Tail(f) # <<>> => Tail(f)[Len(Tail(f))] = f[Len(f)]
  <2>1. /\ Len(f) \in Nat /\ Len(Tail(f)) = Len(f) - 1
        /\ \A i \in 1 .. Len(f) - 1 : Tail(f)[i] = f[i + 1]
    BY <1>1, <1>2, HeadTailProperties, LenProperties
  <2>2. Tail(f) # <<>> => Len(Tail(f)) # 0
    BY <1>1, <1>2, HeadTailProperties, EmptySeq
  <2>3. Tail(f) # <<>> => Len(f) - 1 \in 1 .. Len(f) - 1 /\ (Len(f) - 1) + 1 = Len(f)
    BY <2>1, <2>2, LenProperties, <1>1, <1>2, EmptySeq
  <2> QED
    BY <2>1, <2>3
<1>5. Tail(f) = <<>> => h = f[Len(f)]
  <2>1. Len(f) \in Nat /\ Len(Tail(f)) = Len(f) - 1 /\ h = f[1]
    BY <1>1, <1>2, HeadTailProperties, LenProperties
  <2>2. Tail(f) = <<>> => Len(Tail(f)) = 0
    <3>1. Len(<<>>) = 0
      BY EmptySeq
    <3> DEFINE t == Tail(f)
    <3> HIDE DEF t, f
    <3>2. t = <<>> => Len(t) = 0
      BY <3>1
    <3> QED
      BY <3>2 DEF t
  <2>3. Tail(f) = <<>> => Len(f) = 1
    BY <2>1, <2>2
  <2> QED
    BY <2>1, <2>3
<1> HIDE DEF f, h
<1>6. Attached'
  BY <1>1 DEF MeshInv, Attached
<1>7. \A r \in Peer : r # p => fromPeer'[r] = fromPeer[r]
  BY <1>1, <1>2
<1>8. fromPeer'[p] = Tail(f)
  BY <1>1, <1>2
<1>9. ASSUME NEW q \in Peer PROVE Silent(q)'
  <2> SUFFICES ASSUME link[q] # "up"
               PROVE  fromPeer'[q] = <<>> /\ \A r \in Peer : q \notin peers[r] /\ Absent(toPeer'[r], q)
    BY <1>1 DEF Silent
  <2>1. fromPeer[q] = <<>> /\ \A r \in Peer : q \notin peers[r] /\ Absent(toPeer[r], q)
    BY DEF MeshInv, Silent
  <2>2. q # p
    BY <1>1, <2>1 DEF f
  <2>3. h # Connect(q) /\ h # Disconnect(q)
    BY <1>3, <2>2, Different
  <2>4. ASSUME NEW r \in Peer PROVE Absent(toPeer'[r], q)
    <3>1. CASE r \in subs
      <4>1. Absent(Append(toPeer[r], h), q)
        BY <1>2, <1>3, <2>1, <2>3, Arriving
      <4> QED
        BY <1>1, <3>1, <4>1
    <3>2. CASE r \notin subs
      BY <1>1, <2>1, <3>2
    <3> QED
      BY <3>1, <3>2
  <2> QED
    BY <1>7, <2>1, <2>2, <2>4
<1>10. ASSUME NEW q \in Peer PROVE Departing(q)'
  <2> SUFFICES ASSUME Flushes, ended[q], pc[q] # "crashed"
               PROVE  /\ fromPeer'[q] # <<>> => fromPeer'[q][Len(fromPeer'[q])] = Disconnect(q)
                      /\ fromPeer'[q] = <<>> => \A r \in Running : Forgets(r, q)'
    BY <1>1 DEF MeshInv, Departing, Running
  <2>1. /\ fromPeer[q] # <<>> => fromPeer[q][Len(fromPeer[q])] = Disconnect(q)
        /\ fromPeer[q] = <<>> => \A r \in Running : Forgets(r, q)
    BY DEF MeshInv, Departing
  <2>2. ASSUME NEW r \in Peer, r \in Running, r \notin subs PROVE Forgets(r, q)'
    <3>1. toPeer[r] = <<>> /\ peers[r] = {}
      BY <2>2 DEF MeshInv, Attached, Running
    <3>2. toPeer'[r] = <<>> /\ peers'[r] = {}
      BY <1>1, <2>2, <3>1
    <3> QED
      BY <3>2, NothingSaid DEF Forgets
  <2>3. CASE q = p
    <3>1. f[Len(f)] = Disconnect(p)
      BY <1>1, <2>1, <2>3 DEF f
    <3>2. ASSUME Tail(f) = <<>>, NEW r \in Peer, r \in subs PROVE Forgets(r, p)'
      <4>1. Followed(Append(toPeer[r], h), p) /\ GoodbyeIn(Append(toPeer[r], h), 1, p)
        BY <1>2, <1>3, <1>5, <3>1, <3>2, Arriving
      <4> QED
        BY <1>1, <3>2, <4>1 DEF Forgets
    <3> QED
      BY <1>4, <1>8, <2>2, <2>3, <3>1, <3>2 DEF Running
  <2>4. CASE q # p
    <3>1. ASSUME NEW r \in Peer, r \in subs, Forgets(r, q) PROVE Forgets(r, q)'
      <4>1. h # Connect(q)
        BY <1>3, <2>4, Different
      <4>2. toPeer[r] \in Seq(Msg) /\ h \in Msg
        BY <1>2, <1>3
      <4>3. Followed(Append(toPeer[r], h), q)
        BY <3>1, <4>1, <4>2, Arriving DEF Forgets
      <4>4. q \in peers[r] => GoodbyeIn(Append(toPeer[r], h), 1, q)
        BY <3>1, <4>2, Arriving DEF Forgets
      <4> QED
        BY <1>1, <3>1, <4>3, <4>4 DEF Forgets
    <3> QED
      BY <1>7, <2>1, <2>2, <2>4, <3>1 DEF Running
  <2> QED
    BY <2>3, <2>4
<1> QED
  BY <1>6, <1>9, <1>10 DEF MeshInv

\* The proxy gets a subscription and answers it with the welcome message.
LEMMA SubscribeKeeps ==
  ASSUME TypeOK, MeshInv, NEW p \in Peer, ProxySubscribe(p)
  PROVE  MeshInv'
<1> DEFINE m == Welcome(proxyId)
<1>1. /\ p \in Running /\ subs' = subs \cup {p}
      /\ toPeer' = [toPeer EXCEPT ![p] = Append(@, m)]
      /\ UNCHANGED <<pc, ended, peers, link, fromPeer>>
  BY DEF ProxySubscribe
<1>2. m \in Msg /\ \A q : m # Connect(q) /\ m # Disconnect(q)
  BY DEF TypeOK, Msg, Welcome, Connect, Disconnect
<1> HIDE DEF m
<1>3. /\ toPeer[p] \in Seq(Msg) /\ toPeer'[p] = Append(toPeer[p], m)
      /\ \A r \in Peer : r # p => toPeer'[r] = toPeer[r]
  BY <1>1 DEF TypeOK
<1>4. Attached'
  BY <1>1, <1>3 DEF MeshInv, Attached, Running
<1>5. ASSUME NEW q \in Peer, Absent(toPeer[p], q) PROVE Absent(toPeer'[p], q)
  BY <1>2, <1>3, <1>5, Arriving
<1>6. ASSUME NEW q \in Peer, Forgets(p, q) PROVE Forgets(p, q)'
  <2>1. Followed(Append(toPeer[p], m), q)
    BY <1>2, <1>3, <1>6, Arriving DEF Forgets
  <2>2. q \in peers[p] => GoodbyeIn(Append(toPeer[p], m), 1, q)
    BY <1>2, <1>3, <1>6, Arriving DEF Forgets
  <2> QED
    BY <1>1, <1>3, <2>1, <2>2 DEF Forgets
<1>7. ASSUME NEW q \in Peer PROVE Silent(q)'
  BY <1>1, <1>3, <1>5 DEF MeshInv, Silent
<1>8. ASSUME NEW q \in Peer, NEW r \in Peer, r # p, Forgets(r, q) PROVE Forgets(r, q)'
  BY <1>1, <1>3, <1>8 DEF Forgets
<1>9. ASSUME NEW q \in Peer PROVE Departing(q)'
  BY <1>1, <1>6, <1>8 DEF MeshInv, Departing, Running
<1> QED
  BY <1>4, <1>7, <1>9 DEF MeshInv

\* Every step keeps the invariant.
LEMMA MeshStep ==
  ASSUME TypeOK, Honest, Steady, MeshInv, [Next]_vars
  PROVE  MeshInv'
<1>1. /\ peers \in [Peer -> SUBSET Peer] /\ pc \in [Peer -> {"off", "poll", "exited", "crashed"}]
      /\ link \in [Peer -> {"none", "connecting", "up"}] /\ toPeer \in [Peer -> Seq(Msg)]
      /\ fromPeer \in [Peer -> Seq(Msg)]
  BY DEF TypeOK
<1>2. CASE UNCHANGED vars
  BY <1>2 DEF vars, MeshInv, Attached, Silent, Departing, Forgets, Running
<1>3. ASSUME NEW p \in Peer, Start(p) PROVE MeshInv'
  <2>1. /\ pc[p] = "off" /\ pc' = [pc EXCEPT ![p] = "poll"]
        /\ UNCHANGED <<ended, peers, link, fromPeer, toPeer, subs>>
    BY <1>3 DEF Start
  <2>2. p \notin subs /\ toPeer[p] = <<>> /\ peers[p] = {}
    BY <2>1 DEF MeshInv, Attached
  <2>3. Attached'
    BY <1>1, <2>1, <2>2 DEF MeshInv, Attached
  <2>4. ASSUME NEW q \in Peer PROVE Silent(q)'
    BY <2>1 DEF MeshInv, Silent
  <2>5. ASSUME NEW q \in Peer PROVE Forgets(p, q)
    BY <2>2, NothingSaid DEF Forgets
  <2>6. ASSUME NEW q \in Peer, NEW r \in Peer, Forgets(r, q) PROVE Forgets(r, q)'
    BY <2>1, <2>6 DEF Forgets
  <2>7. Running' = Running \cup {p}
    BY <1>1, <2>1 DEF Running
  <2>8. ASSUME NEW q \in Peer PROVE Departing(q)'
    <3>1. CASE q # p
      <4>1. pc'[q] = pc[q]
        BY <1>1, <2>1, <3>1
      <4> QED
        BY <2>1, <2>5, <2>6, <2>7, <4>1 DEF MeshInv, Departing, Running
    <3>2. CASE q = p
      BY <1>1, <2>1, <2>5, <2>6, <2>7, <3>2 DEF MeshInv, Departing, Running
    <3> QED
      BY <3>1, <3>2
  <2> QED
    BY <2>3, <2>4, <2>8 DEF MeshInv
<1>4. ASSUME NEW p \in Peer, ReceiveOwnDisconnect(p) PROVE MeshInv'
  <2>1. /\ Received(p, "D") /\ Head(toPeer[p]).uuid = p
        /\ peers' = [peers EXCEPT ![p] = @ \ {p}] /\ link' = link /\ ended' = ended
        /\ pc' = [pc EXCEPT ![p] = "exited"]
        /\ toPeer' = [toPeer EXCEPT ![p] = <<>>] /\ subs' = subs \ {p}
    BY <1>4 DEF ReceiveOwnDisconnect, Gone
  <2>2. ended[p] /\ pc[p] = "poll"
    BY <2>1, ReceivedSayable
  <2>3. PICK kept \in IF p \in Linger THEN {fromPeer[p]} ELSE Prefixes(fromPeer[p]) :
          fromPeer' = [fromPeer EXCEPT ![p] = kept]
    BY <1>4 DEF ReceiveOwnDisconnect, Gone
  <2>10. /\ Flushes => fromPeer' = fromPeer
         /\ fromPeer[p] = <<>> => fromPeer'[p] = <<>>
         /\ \A r \in Peer : r # p => fromPeer'[r] = fromPeer[r]
    BY <1>1, <2>3, NothingKept DEF Flushes
  <2>4. /\ toPeer'[p] = <<>> /\ pc'[p] = "exited"
        /\ \A r \in Peer : r # p => toPeer'[r] = toPeer[r] /\ peers'[r] = peers[r] /\ pc'[r] = pc[r]
        /\ \A r \in Peer : peers'[r] \subseteq peers[r]
    BY <1>1, <2>1
  <2>5. Attached'
    BY <2>1, <2>4 DEF MeshInv, Attached
  <2>6. ASSUME NEW q \in Peer PROVE Silent(q)'
    BY <2>1, <2>4, <2>10, NothingSaid DEF MeshInv, Silent
  <2>7. ASSUME NEW q \in Peer, NEW r \in Peer, r # p, Forgets(r, q) PROVE Forgets(r, q)'
    BY <2>4, <2>7 DEF Forgets
  <2>8. Running' = Running \ {p}
    BY <1>1, <2>1 DEF Running
  <2>9. ASSUME NEW q \in Peer PROVE Departing(q)'
    <3>1. pc'[q] = pc[q] \/ (q = p /\ ended'[q] /\ pc[q] # "crashed")
      BY <2>1, <2>2, <2>4
    <3> QED
      BY <2>1, <2>7, <2>8, <2>10, <3>1 DEF MeshInv, Departing, Running
  <2> QED
    BY <2>5, <2>6, <2>9 DEF MeshInv
<1>5. ASSUME NEW p \in Peer, ProxyPubUp(p) PROVE MeshInv'
  <2>1. /\ p \in Running /\ link[p] = "connecting" /\ link' = [link EXCEPT ![p] = "up"]
        /\ UNCHANGED <<pc, ended, peers, fromPeer, toPeer, subs>>
    BY <1>5 DEF ProxyPubUp
  <2>2. ASSUME NEW q \in Peer PROVE Silent(q)'
    BY <1>1, <2>1 DEF MeshInv, Silent
  <2>3. Attached' /\ \A q \in Peer : Departing(q)'
    BY <2>1 DEF MeshInv, Attached, Departing, Forgets, Running
  <2> QED
    BY <2>2, <2>3 DEF MeshInv
<1>6. ASSUME NEW p \in Peer, Crash(p) PROVE MeshInv'
  <2>1. /\ p \in Running /\ pc' = [pc EXCEPT ![p] = "crashed"]
        /\ toPeer' = [toPeer EXCEPT ![p] = <<>>] /\ subs' = subs \ {p}
        /\ UNCHANGED <<ended, peers, link>>
    BY <1>6 DEF Crash
  <2>2. PICK kept \in Prefixes(fromPeer[p]) : fromPeer' = [fromPeer EXCEPT ![p] = kept]
    BY <1>6 DEF Crash
  <2>3. fromPeer[p] = <<>> => kept = <<>>
    BY <2>2 DEF Prefixes
  <2>4. /\ toPeer'[p] = <<>> /\ pc'[p] = "crashed" /\ fromPeer'[p] = kept
        /\ \A r \in Peer : r # p => toPeer'[r] = toPeer[r] /\ pc'[r] = pc[r] /\ fromPeer'[r] = fromPeer[r]
    BY <1>1, <2>1, <2>2
  <2>5. Attached'
    BY <2>1, <2>4 DEF MeshInv, Attached
  <2>6. ASSUME NEW q \in Peer PROVE Silent(q)'
    BY <2>1, <2>3, <2>4, NothingSaid DEF MeshInv, Silent
  <2>7. ASSUME NEW q \in Peer, NEW r \in Peer, r # p, Forgets(r, q) PROVE Forgets(r, q)'
    BY <2>1, <2>4, <2>7 DEF Forgets
  <2>8. Running' = Running \ {p}
    BY <1>1, <2>1 DEF Running
  <2>9. ASSUME NEW q \in Peer PROVE Departing(q)'
    <3>1. CASE q = p
      BY <2>4, <3>1 DEF Departing
    <3>2. CASE q # p
      BY <2>1, <2>4, <2>7, <2>8, <3>2 DEF MeshInv, Departing, Running
    <3> QED
      BY <3>1, <3>2
  <2> QED
    BY <2>5, <2>6, <2>9 DEF MeshInv
<1>7. ~ProxyRestart
  BY DEF ProxyRestart, Steady, TypeOK
<1> QED
  BY <1>2, <1>3, <1>4, <1>5, <1>6, <1>7, PassesKeep, ForwardKeeps, SubscribeKeeps
     DEF Next, PollMessage

\* At the start nobody has said or heard anything.
LEMMA MeshInit == Init => MeshInv
<1>1. ASSUME Init, NEW q \in Peer
      PROVE  /\ link[q] = "none" /\ fromPeer[q] = <<>> /\ ended[q] = FALSE /\ pc[q] = "off"
             /\ \A p \in Peer : peers[p] = {} /\ toPeer[p] = <<>> /\ p \notin subs
  BY <1>1 DEF Init
<1>2. ASSUME Init PROVE Attached
  BY <1>1, <1>2 DEF Attached
<1>3. ASSUME Init, NEW q \in Peer PROVE Silent(q) /\ Departing(q)
  BY <1>1, <1>3, NothingSaid DEF Silent, Departing
<1> QED
  BY <1>2, <1>3 DEF MeshInv

-----------------------------------------------------------------------------

\* What a running peer has yet to hear of one that left ends in 'D', if there is anything
\* to take back, in whatever order the goodbyes, the answers to newcomers and the
\* deliveries come (3186/peer.cpp:113-197).
THEOREM NobodyKeepsGhosts == Steady /\ Flushes /\ Spec => []NoGhosts
<1>1. Init => MeshInv
  BY MeshInit
<1>2. /\ Steady /\ Flushes /\ TypeOK /\ Honest /\ MeshInv /\ [Next]_vars
      => Steady' /\ Flushes' /\ MeshInv'
  BY MeshStep DEF Steady, Flushes
<1>3. Flushes /\ TypeOK /\ MeshInv => NoGhosts
  <2> SUFFICES ASSUME Flushes, TypeOK, MeshInv, NEW p \in Running, p \in Peer,
                      NEW q \in Peer, pc[q] = "exited"
               PROVE  LET todo == toPeer[p] \o fromPeer[q]
                      IN  /\ q \in peers[p] => GoodbyeIn(todo, 1, q)
                          /\ Followed(todo, q)
    BY DEF NoGhosts, GoodbyeIn, Followed, Running
  <2> DEFINE a == toPeer[p]  b == fromPeer[q]  todo == a \o b
  <2>1. a \in Seq(Msg) /\ b \in Seq(Msg)
    BY DEF TypeOK
  <2>2. /\ b # <<>> => b[Len(b)] = Disconnect(q)
        /\ b = <<>> => Forgets(p, q)
    BY DEF MeshInv, Departing, Flushes
  <2>3. CASE b = <<>>
    <3>1. todo = a
      BY <2>1, <2>3, ConcatEmptySeq
    <3> QED
      BY <2>2, <2>3, <3>1 DEF Forgets
  <2>4. CASE b # <<>>
    <3> HIDE DEF a, b
    <3>1. todo \in Seq(Msg) /\ todo # <<>> /\ todo[Len(todo)] = Disconnect(q)
      BY <2>1, <2>2, <2>4, LastSaid
    <3> HIDE DEF todo
    <3>2. Len(todo) \in Nat /\ Len(todo) # 0
      BY <3>1, LenProperties, EmptySeq
    <3>3. \A i \in 1 .. Len(todo) : Len(todo) \in i .. Len(todo)
      BY <3>2
    <3>4. 1 \in 1 .. Len(todo)
      BY <3>2
    <3>5. \A i \in 1 .. Len(todo) : GoodbyeIn(todo, i, q)
      BY <3>1, <3>3 DEF GoodbyeIn
    <3> QED
      BY <3>4, <3>5 DEF Followed, todo, a, b
  <2> QED
    BY <2>3, <2>4
<1> QED
  BY <1>1, <1>2, <1>3, TypeCorrect, AlwaysHonest, PTL DEF Spec

-----------------------------------------------------------------------------
(***************************************************************************)
(* Two peers that stay come to know each other.                            *)
(***************************************************************************)

\* There is a 'C' of q in the queue s.
Says(s, q) == \E i \in 1 .. Len(s) : s[i] = Connect(q)

\* p has q in its map, or is going to.
Reaches(p, q) == q \in peers[p] \/ Says(toPeer[p], q) \/ Says(fromPeer[q], q)

\* The proxy has passed on a 'C' of q after it got q's subscription.
Heard(q) == q \in peers[q] \/ Says(toPeer[q], q)

Staying(p) == pc[p] = "poll" /\ ~ended[p]

\* A process connects proxyPub when the proxy's welcome has told it where, and that is
\* after its subscription.
Linked == \A p \in Peer : pc[p] \in {"off", "poll"} /\ link[p] # "none" => p \in subs

\* What two peers know of each other: if the proxy got the subscription of one before it
\* passed on a 'C' of the other, the one hears of it; if not, the other hears the 'C' of the
\* one and answers it.
Meets(p, q) ==
  Staying(p) /\ Staying(q) /\ p \in subs /\ Heard(q) =>
    /\ p \in peers[q] => Reaches(p, q)
    /\ Heard(p) => Reaches(p, q) \/ Says(toPeer[q], p)

Meeting == Linked /\ \A p, q \in Peer : p # q => Meets(p, q)

\* Who was heard is subscribed and reaches the proxy.
LEMMA HeardLinked ==
  ASSUME MeshInv, NEW q \in Peer, pc[q] = "poll", Heard(q)
  PROVE  link[q] = "up" /\ q \in subs
<1>1. link[q] = "up"
  BY DEF MeshInv, Silent, Heard, Says, Absent
<1>2. ~Says(<<>>, q)
  BY DEF Says
<1>3. q \in subs
  BY <1>2 DEF MeshInv, Attached, Heard
<1> QED
  BY <1>1, <1>3

\* What is said in a queue and in what is appended to it, and in a queue whose first
\* message was read.
LEMMA Saying ==
  ASSUME NEW q
  PROVE  /\ \A a, b \in Seq(Msg) : Says(a, q) \/ Says(b, q) => Says(a \o b, q)
         /\ \A a \in Seq(Msg), m \in Msg : Says(Append(a, m), q) <=> Says(a, q) \/ m = Connect(q)
         /\ \A a \in Seq(Msg) : a # <<>> => (Says(a, q) <=> Head(a) = Connect(q) \/ Says(Tail(a), q))
<1>1. ASSUME NEW a \in Seq(Msg), NEW b \in Seq(Msg)
      PROVE  Says(a, q) \/ Says(b, q) => Says(a \o b, q)
  <2> DEFINE ab == a \o b
  <2>1. Len(a) \in Nat /\ Len(b) \in Nat
    BY LenProperties
  <2>2. Len(ab) = Len(a) + Len(b)
        /\ \A i \in 1 .. Len(a) + Len(b) : ab[i] = IF i <= Len(a) THEN a[i] ELSE b[i - Len(a)]
    BY ConcatProperties
  <2>3. ASSUME NEW i \in 1 .. Len(a) PROVE i \in 1 .. Len(ab) /\ ab[i] = a[i]
    BY <2>1, <2>2
  <2>4. ASSUME NEW i \in 1 .. Len(b) PROVE i + Len(a) \in 1 .. Len(ab) /\ ab[i + Len(a)] = b[i]
    <3>1. i + Len(a) \in 1 .. Len(a) + Len(b) /\ ~(i + Len(a) <= Len(a)) /\ (i + Len(a)) - Len(a) = i
      BY <2>1
    <3> QED
      BY <2>2, <3>1
  <2> HIDE DEF ab
  <2> QED
    BY <2>3, <2>4 DEF Says, ab
<1>2. ASSUME NEW a \in Seq(Msg), NEW m \in Msg
      PROVE  Says(Append(a, m), q) <=> Says(a, q) \/ m = Connect(q)
  <2> DEFINE x == Append(a, m)
  <2>1. /\ Len(a) \in Nat /\ Len(x) = Len(a) + 1 /\ x[Len(a) + 1] = m
        /\ \A i \in 1 .. Len(a) : x[i] = a[i]
    BY LenProperties, AppendProperties
  <2> HIDE DEF x
  <2>2. /\ \A i \in 1 .. Len(x) : i \in 1 .. Len(a) \/ i = Len(a) + 1
        /\ \A i \in 1 .. Len(a) : i \in 1 .. Len(x)
        /\ Len(a) + 1 \in 1 .. Len(x)
    BY <2>1
  <2> QED
    BY <2>1, <2>2 DEF Says, x
<1>3. ASSUME NEW a \in Seq(Msg), a # <<>>
      PROVE  Says(a, q) <=> Head(a) = Connect(q) \/ Says(Tail(a), q)
  <2> DEFINE t == Tail(a)
  <2>1. /\ Len(a) \in Nat /\ Len(a) > 0 /\ Len(t) = Len(a) - 1 /\ Head(a) = a[1]
        /\ \A i \in 1 .. Len(a) - 1 : t[i] = a[i + 1]
    BY <1>3, HeadTailProperties, EmptySeq, LenProperties
  <2> HIDE DEF t
  <2>2. 1 \in 1 .. Len(a) /\ \A i \in 1 .. Len(t) : i + 1 \in 1 .. Len(a)
    BY <2>1
  <2>3. ASSUME NEW i \in 1 .. Len(a), i # 1 PROVE i - 1 \in 1 .. Len(t) /\ t[i - 1] = a[i]
    <3>1. i - 1 \in 1 .. Len(a) - 1 /\ (i - 1) + 1 = i
      BY <2>1, <2>3
    <3> QED
      BY <2>1, <3>1
  <2>4. Says(t, q) => Says(a, q)
    BY <2>1, <2>2 DEF Says
  <2>5. Says(a, q) /\ a[1] # Connect(q) => Says(t, q)
    BY <2>3 DEF Says
  <2>6. a[1] = Connect(q) => Says(a, q)
    BY <2>2 DEF Says
  <2> QED
    BY <2>1, <2>4, <2>5, <2>6 DEF t
<1> QED
  BY <1>1, <1>2, <1>3

\* A pass of the loop keeps what two peers know of each other, if it loses nobody who
\* stays, and answers whom it adds to the map.
LEMMA PassMeets ==
  ASSUME TypeOK, MeshInv, Meeting,
         NEW p \in Peer, NEW msgs \in Seq({Connect(p)}), NEW rest \in Seq(Msg),
         pc[p] = "poll", NextPass(p, msgs, rest),
         \A q \in Peer : link'[q] = link[q] \/ (q = p /\ p \in subs),
         \A r \in Peer \ {p} : peers'[r] = peers[r],
         \A q \in Peer : Says(rest, q) => Says(toPeer[p], q),
         \A q \in peers'[p] : q \in peers[p] \/ Says(toPeer[p], q),
         \A q \in Peer \ {p} : q \in peers'[p] /\ q \notin peers[p] => Says(msgs, p),
         \A q \in Peer : ~ended[q] /\ (q \in peers[p] \/ Says(toPeer[p], q))
                           => q \in peers'[p] \/ Says(rest, q)
  PROVE  Meeting'
<1>1. /\ \A r \in Peer \ {p} :
           /\ pc'[r] = pc[r] /\ ended'[r] = ended[r]
           /\ fromPeer'[r] = fromPeer[r] /\ toPeer'[r] = toPeer[r]
           /\ r \in subs' <=> r \in subs
      /\ pc'[p] = "poll" /\ ~ended'[p] => fromPeer'[p] = SendConnectMsg(p, msgs) /\ ~ended[p]
      /\ \/ /\ pc'[p] = "poll" /\ toPeer'[p] = rest
            /\ p \in subs' <=> p \in subs
         \/ pc'[p] = "exited"
  BY PassEffect
<1>2. Linked'
  BY <1>1 DEF Meeting, Linked
<1>3. ASSUME NEW a \in Peer, NEW b \in Peer, a # b, Staying(a)', Staying(b)', a \in subs', Heard(b)'
      PROVE  /\ a \in peers'[b] => Reaches(a, b)'
             /\ Heard(a)' => Reaches(a, b)' \/ Says(toPeer'[b], a)
  <2>1. ASSUME NEW r \in Peer, Staying(r)'
        PROVE  Staying(r) /\ (r \in subs' => r \in subs) /\ (Heard(r)' => Heard(r))
    <3>1. CASE r # p
      BY <1>1, <2>1, <3>1 DEF Staying, Heard
    <3>2. CASE r = p
      BY <1>1, <2>1, <3>2 DEF Staying, Heard
    <3> QED
      BY <3>1, <3>2
  <2>2. Staying(a) /\ Staying(b) /\ a \in subs /\ Heard(b)
    BY <1>3, <2>1
  <2>3. link[p] = "up" /\ Staying(p)' =>
          \A q : Says(fromPeer[p], q) \/ Says(msgs, q) => Says(fromPeer'[p], q)
    <3>1. {Connect(p)} \subseteq Msg
      BY OwnMessages
    <3>2. fromPeer[p] \in Seq(Msg) /\ msgs \in Seq(Msg)
      BY <3>1, SeqMonotonic DEF TypeOK
    <3>3. link[p] = "up" /\ Staying(p)' => fromPeer'[p] = fromPeer[p] \o msgs
      BY <1>1 DEF SendConnectMsg, Staying
    <3>4. ASSUME NEW q, Says(fromPeer[p], q) \/ Says(msgs, q) PROVE Says(fromPeer[p] \o msgs, q)
      BY <3>2, <3>4, Saying
    <3> QED
      BY <3>3, <3>4
  <2>4. b = p => link[p] = "up"
    BY <2>2, HeardLinked DEF Staying
  <2>5. ASSUME Reaches(a, b) PROVE Reaches(a, b)'
    <3>1. CASE a = p
      BY <1>1, <1>3, <2>2, <2>5, <3>1 DEF Reaches, Staying
    <3>2. CASE b = p
      BY <1>1, <1>3, <2>3, <2>4, <2>5, <3>2 DEF Reaches
    <3>3. CASE a # p /\ b # p
      BY <1>1, <2>5, <3>3 DEF Reaches
    <3> QED
      BY <3>1, <3>2, <3>3
  <2>6. ASSUME a \in peers'[b] PROVE Reaches(a, b)'
    <3>1. CASE a \in peers[b]
      BY <1>3, <2>2, <2>5, <3>1 DEF Meeting, Meets
    <3>2. CASE a \notin peers[b]
      <4>1. b = p /\ Says(msgs, p)
        BY <1>3, <2>6, <3>2
      <4> QED
        BY <1>3, <2>3, <2>4, <4>1 DEF Reaches
    <3> QED
      BY <3>1, <3>2
  <2>7. ASSUME Heard(a)' PROVE Reaches(a, b)' \/ Says(toPeer'[b], a)
    <3>1. Reaches(a, b) \/ Says(toPeer[b], a)
      BY <1>3, <2>1, <2>2, <2>7 DEF Meeting, Meets
    <3>2. CASE Says(toPeer[b], a) /\ b = p
      <4>1. a \in peers'[p] \/ Says(rest, a)
        BY <2>2, <3>2 DEF Staying
      <4>2. toPeer'[p] = rest
        BY <1>1, <1>3, <3>2 DEF Staying
      <4> QED
        BY <2>6, <3>2, <4>1, <4>2
    <3>3. CASE Says(toPeer[b], a) /\ b # p
      BY <1>1, <3>3
    <3> QED
      BY <2>5, <3>1, <3>2, <3>3
  <2> QED
    BY <2>6, <2>7
<1> QED
  BY <1>2, <1>3 DEF Meeting, Meets

\* Every pass of the loop that does not leave it keeps Meeting (3186/peer.cpp:96-191).
LEMMA PassesMeet ==
  ASSUME TypeOK, Honest, MeshInv, Meeting, NEW p \in Peer,
         PollTimeout(p) \/ ReceiveWelcome(p) \/ ReceiveConnectNew(p)
           \/ ReceiveKnown(p) \/ ReceiveDisconnect(p)
  PROVE  Meeting'
<1> DEFINE h == Head(toPeer[p])  t == Tail(toPeer[p])  u == h.uuid
<1>1. /\ SelfAnnouncement(p) \in Seq({Connect(p)})
      /\ \A q \in Peer : SelfAnnouncement(p) \o Reply(p, q) \in Seq({Connect(p)})
  BY OwnMessages
<1>2. Attached /\ toPeer[p] \in Seq(Msg) /\ peers \in [Peer -> SUBSET Peer]
      /\ link \in [Peer -> {"none", "connecting", "up"}]
  BY DEF TypeOK, MeshInv
<1>3. ASSUME toPeer[p] # <<>>, NEW q
      PROVE  Says(toPeer[p], q) <=> h = Connect(q) \/ Says(t, q)
  BY <1>2, <1>3, Saying
<1> HIDE DEF t, h
<1>4. CASE PollTimeout(p)
  BY <1>1, <1>2, <1>4, PassMeets DEF PollTimeout
<1>5. CASE ReceiveWelcome(p)
  <2>1. Received(p, "W") /\ NextPass(p, SelfAnnouncement(p), t) /\ peers' = peers
    BY <1>5 DEF ReceiveWelcome, t
  <2>2. /\ pc[p] = "poll" /\ p \in subs /\ toPeer[p] # <<>> /\ t \in Seq(Msg)
        /\ \A q : h # Connect(q) /\ h # Disconnect(q)
    BY <1>2, <2>1, ReceivedIs DEF t, h
  <2>3. \A q \in Peer : link'[q] = link[q] \/ (q = p /\ p \in subs)
    BY <1>2, <1>5, <2>2 DEF ReceiveWelcome
  <2>4. \A q \in Peer : Says(t, q) <=> Says(toPeer[p], q)
    BY <1>3, <2>2
  <2> QED
    BY <1>1, <1>2, <2>1, <2>2, <2>3, <2>4, PassMeets
<1>6. CASE ReceiveConnectNew(p)
  <2>1. /\ Received(p, "C") /\ NextPass(p, SelfAnnouncement(p) \o Reply(p, u), t)
        /\ peers' = [peers EXCEPT ![p] = @ \cup {u}] /\ link' = link
    BY <1>6 DEF ReceiveConnectNew, t, h
  <2>2. /\ pc[p] = "poll" /\ p \in subs /\ toPeer[p] # <<>> /\ t \in Seq(Msg)
        /\ h = Connect(u) /\ u \in Peer
    BY <1>2, <2>1, ReceivedIs DEF t, h
  <2> HIDE DEF u
  <2>3. (\A r \in Peer \ {p} : peers'[r] = peers[r]) /\ peers'[p] = peers[p] \cup {u}
    BY <1>2, <2>1
  <2>4. ASSUME NEW q \in Peer PROVE Connect(u) = Connect(q) <=> u = q
    BY DEF Connect
  <2>5. ASSUME u # p PROVE Says(SelfAnnouncement(p) \o Reply(p, u), p)
    <3>1. SelfAnnouncement(p) \in Seq(Msg) /\ Reply(p, u) \in Seq(Msg)
      <4>1. SelfAnnouncement(p) \in Seq({Connect(p)}) /\ Reply(p, u) \in Seq({Connect(p)})
        BY <2>2, OwnMessages
      <4>2. {Connect(p)} \subseteq Msg
        BY OwnMessages
      <4> QED
        BY <4>1, <4>2, SeqMonotonic
    <3>2. Reply(p, u) = <<Connect(p)>>
      BY <2>5 DEF Reply
    <3>3. Says(Reply(p, u), p)
      BY <3>2 DEF Says
    <3> QED
      BY <3>1, <3>3, Saying
  <2>6. SelfAnnouncement(p) \o Reply(p, u) \in Seq({Connect(p)})
    BY <1>1, <2>2
  <2>7. \A q \in Peer : Says(t, q) => Says(toPeer[p], q)
    BY <1>3, <2>2
  <2>8. \A q \in peers'[p] : q \in peers[p] \/ Says(toPeer[p], q)
    BY <1>3, <2>2, <2>3
  <2>9. \A q \in Peer : q \in peers[p] \/ Says(toPeer[p], q) => q \in peers'[p] \/ Says(t, q)
    BY <1>3, <2>2, <2>3, <2>4
  <2>10. \A q \in Peer \ {p} :
           q \in peers'[p] /\ q \notin peers[p] => Says(SelfAnnouncement(p) \o Reply(p, u), p)
    BY <2>3, <2>5
  <2>11. \A q \in Peer : link'[q] = link[q] \/ (q = p /\ p \in subs)
    BY <2>1
  <2> DEFINE msgs == SelfAnnouncement(p) \o Reply(p, u)
  <2>12. NextPass(p, msgs, t)
    BY <2>1
  <2> HIDE DEF msgs
  <2> QED
    BY <2>2, <2>3, <2>6, <2>7, <2>8, <2>9, <2>10, <2>11, <2>12, PassMeets DEF msgs
<1>7. CASE ReceiveKnown(p)
  <2>1. /\ \/ Received(p, "C") /\ u \in peers[p]
           \/ Received(p, "D") /\ u \notin peers[p]
        /\ NextPass(p, SelfAnnouncement(p), t) /\ peers' = peers /\ link' = link
    BY <1>7 DEF ReceiveKnown, t, h
  <2>2. /\ pc[p] = "poll" /\ p \in subs /\ toPeer[p] # <<>> /\ t \in Seq(Msg) /\ u \in Peer
        /\ (h = Connect(u) /\ u \in peers[p]) \/ h = Disconnect(u)
    BY <1>2, <2>1, ReceivedIs DEF t, h
  <2> HIDE DEF u
  <2>3. \A q \in Peer : h = Connect(q) => q \in peers[p]
    BY <2>2, Different
  <2>4. \A q \in Peer : Says(t, q) => Says(toPeer[p], q)
    BY <1>3, <2>2
  <2>5. \A q \in Peer : Says(toPeer[p], q) => q \in peers[p] \/ Says(t, q)
    BY <1>3, <2>2, <2>3
  <2> QED
    BY <1>1, <1>2, <2>1, <2>2, <2>4, <2>5, PassMeets
<1>8. CASE ReceiveDisconnect(p)
  <2>1. /\ Received(p, "D") /\ NextPass(p, SelfAnnouncement(p), t)
        /\ peers' = [peers EXCEPT ![p] = @ \ {u}] /\ link' = link
    BY <1>8 DEF ReceiveDisconnect, t, h
  <2>2. /\ pc[p] = "poll" /\ p \in subs /\ toPeer[p] # <<>> /\ t \in Seq(Msg) /\ u \in Peer
        /\ h = Disconnect(u)
    BY <1>2, <2>1, ReceivedIs DEF t, h
  <2>3. ended[u]
    BY <2>1, ReceivedSayable DEF h
  <2> HIDE DEF u
  <2>4. (\A r \in Peer \ {p} : peers'[r] = peers[r]) /\ peers'[p] = peers[p] \ {u}
    BY <1>2, <2>1
  <2>5. \A q \in Peer : Says(t, q) <=> Says(toPeer[p], q)
    BY <1>3, <2>2, Different
  <2>6. \A q \in Peer : ~ended[q] /\ q \in peers[p] => q \in peers'[p]
    BY <2>3, <2>4
  <2> QED
    BY <1>1, <2>1, <2>2, <2>4, <2>5, <2>6, PassMeets
<1> QED
  BY <1>4, <1>5, <1>6, <1>7, <1>8

\* The proxy passes on a message: a 'C' of a peer reaches all who are subscribed.
LEMMA ForwardMeets ==
  ASSUME TypeOK, Honest, MeshInv, Meeting, NEW p \in Peer, ProxyForward(p)
  PROVE  Meeting'
<1> DEFINE f == fromPeer[p]  h == Head(f)
<1>1. /\ f # <<>> /\ fromPeer' = [fromPeer EXCEPT ![p] = Tail(f)]
      /\ toPeer' = [r \in Peer |-> IF r \in subs THEN Append(toPeer[r], h) ELSE toPeer[r]]
      /\ UNCHANGED <<pc, ended, peers, link, subs>>
  BY DEF ProxyForward
<1>2. /\ f \in Seq(Msg) /\ f \in Seq(Sayable(p)) /\ fromPeer \in [Peer -> Seq(Msg)]
      /\ \A r \in Peer : toPeer[r] \in Seq(Msg)
  BY DEF TypeOK, Honest
<1>3. h \in Msg /\ h \in {Connect(p), Disconnect(p)}
  BY <1>1, <1>2, HeadTailProperties DEF Sayable
<1>4. \A q : Says(f, q) <=> h = Connect(q) \/ Says(Tail(f), q)
  BY <1>1, <1>2, Saying
<1> HIDE DEF f, h
<1>5. \A r \in Peer : \A q : Says(toPeer'[r], q) <=> Says(toPeer[r], q) \/ (r \in subs /\ h = Connect(q))
  BY <1>1, <1>2, <1>3, Saying
<1>6. \A r \in Peer : \A q : Says(fromPeer[r], q) => Says(fromPeer'[r], q) \/ h = Connect(q)
  BY <1>1, <1>2, <1>4 DEF f
<1>7. ASSUME NEW a \in Peer, NEW b \in Peer, Meets(a, b),
             Staying(a), Staying(b), a \in subs, Heard(b)'
      PROVE  /\ a \in peers[b] => Reaches(a, b)'
             /\ Heard(a)' => Reaches(a, b)' \/ Says(toPeer'[b], a)
  <2>1. Reaches(a, b) => Reaches(a, b)'
    BY <1>1, <1>5, <1>6, <1>7 DEF Reaches
  <2>2. CASE Heard(b)
    <3>1. b \in subs
      BY <1>7, <2>2, HeardLinked DEF Staying
    <3>2. a \in peers[b] => Reaches(a, b)'
      BY <1>7, <2>1, <2>2 DEF Meets
    <3>3. CASE Heard(a)
      BY <1>5, <1>7, <2>1, <2>2, <3>2, <3>3 DEF Meets
    <3>4. CASE ~Heard(a)
      <4>1. Heard(a)' => h = Connect(a)
        BY <1>1, <1>5, <3>4 DEF Heard
      <4> QED
        BY <1>5, <3>1, <3>2, <4>1
    <3> QED
      BY <3>2, <3>3, <3>4
  <2>3. CASE ~Heard(b)
    <3>1. h = Connect(b)
      BY <1>1, <1>5, <1>7, <2>3 DEF Heard
    <3> QED
      BY <1>5, <1>7, <3>1 DEF Reaches
  <2> QED
    BY <2>2, <2>3
<1>8. Linked'
  BY <1>1 DEF Meeting, Linked
<1>9. ASSUME NEW a \in Peer, NEW b \in Peer, a # b PROVE Meets(a, b)'
  <2>1. Meets(a, b)
    BY <1>9 DEF Meeting
  <2>2. /\ Staying(a)' <=> Staying(a)
        /\ Staying(b)' <=> Staying(b)
        /\ subs' = subs /\ peers' = peers
    BY <1>1 DEF Staying
  <2> QED
    BY <1>7, <2>1, <2>2 DEF Meets
<1> QED
  BY <1>8, <1>9 DEF Meeting

\* Every step keeps Meeting.
LEMMA MeetingStep ==
  ASSUME TypeOK, Honest, Steady, MeshInv, Meeting, [Next]_vars
  PROVE  Meeting'
<1>1. /\ peers \in [Peer -> SUBSET Peer] /\ pc \in [Peer -> {"off", "poll", "exited", "crashed"}]
      /\ link \in [Peer -> {"none", "connecting", "up"}] /\ toPeer \in [Peer -> Seq(Msg)]
      /\ fromPeer \in [Peer -> Seq(Msg)] /\ ended \in [Peer -> BOOLEAN]
  BY DEF TypeOK
<1>2. CASE UNCHANGED vars
  BY <1>2 DEF vars, Meeting, Linked, Meets, Staying, Heard, Reaches
<1>3. ASSUME NEW a \in Peer, NEW b \in Peer,
             \A r \in {a, b} : /\ pc'[r] = pc[r] /\ ended'[r] = ended[r] /\ peers'[r] = peers[r]
                               /\ fromPeer'[r] = fromPeer[r] /\ toPeer'[r] = toPeer[r]
                               /\ r \in subs' <=> r \in subs
      PROVE  Meets(a, b) => Meets(a, b)'
  BY <1>3 DEF Meets, Staying, Heard, Reaches
<1>4. ASSUME NEW p \in Peer, Start(p) PROVE Meeting'
  <2>1. /\ pc[p] = "off" /\ pc' = [pc EXCEPT ![p] = "poll"]
        /\ UNCHANGED <<ended, peers, link, fromPeer, toPeer, subs>>
    BY <1>4 DEF Start
  <2>2. p \notin subs /\ toPeer[p] = <<>> /\ peers[p] = {}
    BY <2>1 DEF MeshInv, Attached
  <2>3. ~Heard(p)'
    BY <2>1, <2>2 DEF Heard, Says
  <2>4. Linked'
    BY <1>1, <2>1 DEF Meeting, Linked
  <2>5. ASSUME NEW a \in Peer, NEW b \in Peer, a # b PROVE Meets(a, b)'
    BY <1>1, <1>3, <2>1, <2>2, <2>3, <2>5 DEF Meeting, Meets
  <2> QED
    BY <2>4, <2>5 DEF Meeting
<1>5. ASSUME NEW p \in Peer, ReceiveOwnDisconnect(p) \/ Crash(p) PROVE Meeting'
  <2>1. /\ pc'[p] \notin {"off", "poll"} /\ ended' = ended /\ link' = link /\ subs' = subs \ {p}
        /\ \A r \in Peer : r # p =>
             /\ pc'[r] = pc[r] /\ peers'[r] = peers[r]
             /\ fromPeer'[r] = fromPeer[r] /\ toPeer'[r] = toPeer[r]
    BY <1>1, <1>5 DEF ReceiveOwnDisconnect, Crash, Gone
  <2>2. Linked'
    BY <2>1 DEF Meeting, Linked
  <2>3. ~Staying(p)'
    BY <2>1 DEF Staying
  <2>4. ASSUME NEW a \in Peer, NEW b \in Peer, a # b PROVE Meets(a, b)'
    BY <1>3, <2>1, <2>3, <2>4 DEF Meeting, Meets
  <2> QED
    BY <2>2, <2>4 DEF Meeting
<1>6. ASSUME NEW p \in Peer, ProxySubscribe(p) PROVE Meeting'
  <2> DEFINE m == Welcome(proxyId)
  <2>1. /\ pc[p] = "poll" /\ p \notin subs /\ subs' = subs \cup {p}
        /\ toPeer' = [toPeer EXCEPT ![p] = Append(@, m)]
        /\ UNCHANGED <<pc, ended, peers, link, fromPeer>>
    BY <1>6 DEF ProxySubscribe, Running
  <2>2. m \in Msg /\ \A q : m # Connect(q)
    BY DEF TypeOK, Msg, Welcome, Connect
  <2> HIDE DEF m
  <2>3. \A q : Says(toPeer'[p], q) <=> Says(toPeer[p], q)
    <3>1. toPeer[p] \in Seq(Msg) /\ toPeer'[p] = Append(toPeer[p], m)
      BY <1>1, <2>1
    <3> QED
      BY <2>2, <3>1, Saying
  <2>4. /\ fromPeer[p] = <<>> /\ \A r \in Peer : p \notin peers[r]
        /\ ~Heard(p)
    BY <2>1 DEF Meeting, Linked, MeshInv, Silent, Heard, Says, Absent
  <2>5. ~Heard(p)'
    BY <2>1, <2>3, <2>4 DEF Heard
  <2>6. Linked'
    BY <2>1 DEF Meeting, Linked
  <2>7. ASSUME NEW a \in Peer, NEW b \in Peer, a # b PROVE Meets(a, b)'
    <3>1. CASE a = p
      BY <2>1, <2>4, <2>5, <3>1 DEF Meets
    <3>2. CASE b = p
      BY <2>5, <3>2 DEF Meets
    <3>3. CASE a # p /\ b # p
      <4>1. \A r \in Peer : r # p => toPeer'[r] = toPeer[r] /\ (r \in subs' <=> r \in subs)
        BY <1>1, <2>1
      <4> QED
        BY <1>3, <2>1, <2>7, <3>3, <4>1 DEF Meeting
    <3> QED
      BY <3>1, <3>2, <3>3
  <2> QED
    BY <2>6, <2>7 DEF Meeting
<1>7. ASSUME NEW p \in Peer, ProxyPubUp(p) PROVE Meeting'
  <2>1. /\ link[p] = "connecting" /\ link' = [link EXCEPT ![p] = "up"]
        /\ UNCHANGED <<pc, ended, peers, fromPeer, toPeer, subs>>
    BY <1>7 DEF ProxyPubUp
  <2>2. Linked'
    BY <1>1, <2>1 DEF Meeting, Linked
  <2>3. ASSUME NEW a \in Peer, NEW b \in Peer, a # b PROVE Meets(a, b)'
    BY <1>3, <2>1, <2>3 DEF Meeting
  <2> QED
    BY <2>2, <2>3 DEF Meeting
<1>8. ~ProxyRestart
  BY DEF ProxyRestart, Steady, TypeOK
<1> QED
  BY <1>2, <1>4, <1>5, <1>6, <1>7, <1>8, PassesMeet, ForwardMeets DEF Next, PollMessage

-----------------------------------------------------------------------------

\* Once all is quiet, every running peer is connected to every other one, although what is
\* published before proxyPub is connected is lost and nothing is acknowledged
\* (3186/peer.cpp:135-163).
THEOREM EveryoneIsConnected == Steady /\ PortsDistinct /\ Spec => []DirectConnections
<1>1. Init => MeshInv /\ Meeting
  <2>1. ASSUME Init, NEW q \in Peer
        PROVE  link[q] = "none" /\ pc[q] = "off"
    BY <2>1 DEF Init
  <2> QED
    BY <2>1, MeshInit DEF Meeting, Linked, Meets, Staying
<1>2. /\ Steady /\ TypeOK /\ Honest /\ MeshInv /\ Meeting /\ [Next]_vars
      => Steady' /\ MeshInv' /\ Meeting'
  BY MeshStep, MeetingStep DEF Steady
<1>3. TypeOK /\ Meeting /\ PeersConnected => DirectConnections
  <2> SUFFICES ASSUME Meeting, PeersConnected, AtRest, NEW p \in Running, NEW q \in Running,
                      p # q, advert[q] # NoEndpoint
               PROVE  q \in peers[p] /\ advert[q] \in conns[p]
    BY DEF DirectConnections
  <2>1. /\ p \in Peer /\ q \in Peer /\ Staying(p) /\ Staying(q) /\ p \in subs
        /\ p \in peers[p] /\ q \in peers[q]
        /\ \A r \in Peer : toPeer[r] = <<>> /\ fromPeer[r] = <<>>
    BY DEF AtRest, Running, Staying, KnowsSelf
  <2>2. q \in peers[p]
    <3>1. Meets(p, q) /\ Heard(p) /\ Heard(q)
      BY <2>1 DEF Meeting, Heard
    <3>2. ~Says(<<>>, p) /\ ~Says(<<>>, q)
      BY DEF Says
    <3> QED
      BY <2>1, <3>1, <3>2 DEF Meets, Reaches
  <2>3. advert[q] \in conns[p]
    BY <2>1, <2>2 DEF PeersConnected
  <2> QED
    BY <2>2, <2>3
<1> QED
  BY <1>1, <1>2, <1>3, TypeCorrect, AlwaysHonest, MapMatchesSocket, PTL DEF Spec
=============================================================================
