------------------------ MODULE SocketCountProofs ------------------------
(***************************************************************************)
(* Proofs about the counters of SocketBase: they are right, so that the    *)
(* socket is deallocated only when nothing is left that could come to it.  *)
(***************************************************************************)
EXTENDS SocketProofs

\* Children and pipes that the socket does not know of yet, and children it waits for.
OwnQueued  == {c \in Child : In(mailbox, Command("own", c))}
BindQueued == {p \in Pipe : In(mailbox, Command("bind", p))}
Leaving    == {c \in Child : state[c] \in {"told", "ending", "acked"}}

\* What the counters count.
Counts ==
  /\ unseen = Cardinality(OwnQueued) + Cardinality(BindQueued) + found
  /\ termAcks = Cardinality(Leaving) + IF terminating THEN Cardinality(pipes) ELSE 0

\* The commands about child c: own comes before the others, and term_ack after them.
ChildCmds(c) == {Command("own", c), Command("term_req", c), Command("term_ack", c)}

ChildInOrder(c) ==
  Ordered(mailbox, ChildCmds(c), Command("own", c), Command("term_ack", c), Command("own", c))

\* A child that was launched and not told to go is owned or about to be.
ChildFit(c) ==
  /\ ChildInOrder(c)
  /\ In(mailbox, Command("own", c)) => state[c] \in {"running", "asking"} /\ c \notin owned
  /\ c \in owned => state[c] \in {"running", "asking"}
  /\ state[c] \in {"running", "asking"} => c \in owned \/ In(mailbox, Command("own", c))
  /\ In(mailbox, Command("term_ack", c)) <=> state[c] = "acked"
  /\ state[c] \in {"none", "gone"} => \A x \in ChildCmds(c) : ~In(mailbox, x)

Closing ==
  /\ terminating <=> phase \in {"reaping", "freed"}
  /\ terminating => owned = {} /\ registered = {}
  /\ destroyed => terminating /\ unseen = 0 /\ termAcks = 0

\* The inductive invariant, with Shapes and Fitting.
Counted == Counts /\ (\A c \in Child : ChildFit(c)) /\ Closing

-----------------------------------------------------------------------------

LEMMA SomeFinite ==
  ASSUME Shapes
  PROVE  /\ IsFiniteSet(OwnQueued) /\ IsFiniteSet(BindQueued) /\ IsFiniteSet(Leaving)
         /\ IsFiniteSet(pipes) /\ IsFiniteSet(owned)
         /\ Cardinality(OwnQueued) \in Nat /\ Cardinality(BindQueued) \in Nat
         /\ Cardinality(Leaving) \in Nat /\ Cardinality(pipes) \in Nat /\ Cardinality(owned) \in Nat
<1>1. /\ OwnQueued \in SUBSET Child /\ BindQueued \in SUBSET Pipe /\ Leaving \in SUBSET Child
      /\ pipes \in SUBSET Pipe /\ owned \in SUBSET Child
  BY DEF OwnQueued, BindQueued, Leaving, Shapes
<1>2. /\ IsFiniteSet(OwnQueued) /\ IsFiniteSet(BindQueued) /\ IsFiniteSet(Leaving)
      /\ IsFiniteSet(pipes) /\ IsFiniteSet(owned)
  BY <1>1, FS_Subset, SocketAssumption
<1> QED
  BY <1>2, FS_CardinalityType

\* The counters are never negative.
LEMMA CountersNat ==
  ASSUME Shapes, Counted
  PROVE  TypeOK
<1>1. found \in Nat
  BY DEF Shapes
<1>2. termAcks \in Nat /\ unseen \in Nat
  BY <1>1, SomeFinite DEF Counted, Counts
<1> QED
  BY <1>2 DEF TypeOK

LEMMA NothingLeftThen ==
  ASSUME Shapes, Fitting, Counted
  PROVE  NothingLeft
<1> SUFFICES ASSUME destroyed PROVE NothingLeft
  BY DEF NothingLeft
<1>1. terminating /\ owned = {} /\ registered = {} /\ unseen = 0 /\ termAcks = 0
  BY DEF Counted, Closing
<1>2. found = 0 /\ Cardinality(OwnQueued) = 0 /\ Cardinality(BindQueued) = 0
  BY <1>1, SomeFinite DEF Counted, Counts, Shapes
<1>3. Cardinality(Leaving) = 0 /\ Cardinality(pipes) = 0
  BY <1>1, SomeFinite DEF Counted, Counts
<1>4. OwnQueued = {} /\ BindQueued = {} /\ Leaving = {} /\ pipes = {}
  BY <1>2, <1>3, SomeFinite, FS_EmptySet
<1>5. \A c \in Child : state[c] \in {"none", "gone"}
  BY <1>1, <1>4 DEF OwnQueued, Leaving, Counted, ChildFit, Shapes
<1>6. ASSUME NEW p \in Pipe
      PROVE  /\ l[p] = "free" /\ r[p] \in {"free", "req2", "acked"}
             /\ \A x \in Cmds(p) : ~In(mailbox, x)
  <2>1. l[p] = "free" /\ \A x \in Cmds(p) : ~In(mailbox, x)
    BY <1>4 DEF BindQueued, Fitting, Fit, Known
  <2>2. r[p] \in {"free", "req2", "acked"}
    BY <2>1, HandshakeAgrees DEF Fitting, Fit, Agree
  <2> QED
    BY <2>1, <2>2
<1>7. ASSUME NEW i \in 1 .. Len(mailbox) PROVE mailbox[i].cmd = "stop"
  <2>1. mailbox[i] \in Msg /\ In(mailbox, mailbox[i])
    BY ElementOfSeq DEF Shapes, In
  <2>2. \A c \in Child : mailbox[i] \notin ChildCmds(c)
    BY <1>5, <2>1 DEF Counted, ChildFit
  <2>3. \A p \in Pipe : mailbox[i] \notin Cmds(p)
    BY <1>6, <2>1
  <2>4. mailbox[i] = Command("stop", None)
    BY <2>1, <2>2, <2>3 DEF Msg, ChildCmds, Cmds, Command
  <2> QED
    BY <2>4 DEF Command
<1> QED
  BY <1>1, <1>2, <1>4, <1>5, <1>6, <1>7 DEF NothingLeft

-----------------------------------------------------------------------------
(***************************************************************************)
(* What a step does to the mailbox.                                        *)
(***************************************************************************)

\* The step does not touch the commands about child c, or takes its term_req.
ChildQuiet(c) ==
  /\ \A x \in ChildCmds(c) : In(mailbox', x) => In(mailbox, x)
  /\ \A x \in ChildCmds(c) : In(mailbox, x) => In(mailbox', x) \/ x = Command("term_req", c)
  /\ ChildInOrder(c) => ChildInOrder(c)'

BindQuiet(p) == In(mailbox', Command("bind", p)) <=> In(mailbox, Command("bind", p))

LEMMA ChildCmdsOfOne ==
  ASSUME NEW c \in Child
  PROVE  /\ ChildCmds(c) \subseteq Msg
         /\ Command("own", c) \in ChildCmds(c) /\ Command("term_req", c) \in ChildCmds(c)
         /\ Command("term_ack", c) \in ChildCmds(c)
         /\ Command("own", c) # Command("term_req", c)
         /\ Command("own", c) # Command("term_ack", c)
         /\ Command("term_req", c) # Command("term_ack", c)
         /\ \A d : d # c => ChildCmds(c) \cap ChildCmds(d) = {}
         /\ \A p : ChildCmds(c) \cap Cmds(p) = {}
         /\ Command("stop", None) \notin ChildCmds(c)
BY DEF ChildCmds, Cmds, Command, Msg

LEMMA ChildQuietAppend ==
  ASSUME Shapes, NEW c \in Child, NEW y \in Msg, y \notin ChildCmds(c),
         mailbox' = Append(mailbox, y)
  PROVE  ChildQuiet(c)
<1>1. mailbox \in Seq(Msg)
  BY DEF Shapes
<1>2. \A x \in ChildCmds(c) : In(mailbox', x) <=> In(mailbox, x)
  BY <1>1, InAppend
<1>3. ChildInOrder(c) => ChildInOrder(c)'
  BY <1>1, OrderedAppend DEF ChildInOrder
<1> QED
  BY <1>2, <1>3 DEF ChildQuiet

LEMMA ChildQuietTaken ==
  ASSUME Shapes, NEW c \in Child, NEW cmd, NEW x,
         Command(cmd, x) \notin ChildCmds(c) \/ Command(cmd, x) = Command("term_req", c),
         Receive(cmd, x)
  PROVE  ChildQuiet(c)
<1>1. /\ mailbox \in Seq(Msg) /\ mailbox # <<>> /\ Head(mailbox) = Command(cmd, x)
      /\ mailbox' = Tail(mailbox)
  BY DEF Shapes, Receive
<1>2. \A y \in ChildCmds(c) : In(mailbox, y) <=> y = Command(cmd, x) \/ In(mailbox', y)
  BY <1>1, InTail
<1>3. ChildInOrder(c) => ChildInOrder(c)'
  BY <1>1, OrderedTail DEF ChildInOrder
<1> QED
  BY <1>2, <1>3 DEF ChildQuiet

\* The commands of a step that is not about a child, nor about a new pipe.
LEMMA QuietForAll ==
  ASSUME Shapes,
         \/ mailbox' = mailbox
         \/ \E y \in Msg : /\ mailbox' = Append(mailbox, y)
                           /\ y.cmd \in {"stop", "hiccup", "pipe_term", "pipe_term_ack"}
         \/ \E p \in Pipe : TerminateOther(p)
         \/ \E cmd \in {"stop", "hiccup", "pipe_term", "pipe_term_ack"} : \E x : Receive(cmd, x)
  PROVE  (\A c \in Child : ChildQuiet(c)) /\ (\A p \in Pipe : BindQuiet(p))
<1>0. mailbox \in Seq(Msg)
  BY DEF Shapes
<1>1. CASE mailbox' = mailbox
  BY <1>1 DEF ChildQuiet, BindQuiet, ChildInOrder
<1>2. ASSUME NEW y \in Msg, y.cmd \in {"stop", "hiccup", "pipe_term", "pipe_term_ack"},
             mailbox' = Append(mailbox, y)
      PROVE  (\A c \in Child : ChildQuiet(c)) /\ (\A p \in Pipe : BindQuiet(p))
  <2>1. (\A c \in Child : y \notin ChildCmds(c)) /\ (\A p \in Pipe : y # Command("bind", p))
    BY <1>2 DEF ChildCmds, Command
  <2> QED
    BY <1>0, <1>2, <2>1, InAppend, ChildQuietAppend DEF BindQuiet
<1>3. ASSUME NEW p \in Pipe, TerminateOther(p)
      PROVE  (\A c \in Child : ChildQuiet(c)) /\ (\A q \in Pipe : BindQuiet(q))
  <2> DEFINE hiccup == Command("hiccup", p)
             term   == Command("pipe_term", p)
  <2>1. hiccup \in Msg /\ term \in Msg
    BY CmdsOfOne
  <2>2. Append(mailbox, hiccup) \in Seq(Msg)
    BY <1>0, <2>1, AppendProperties
  <2>3. PICK m \in {mailbox, Append(mailbox, hiccup)} : mailbox' = Append(m, term)
    <3>1. mailbox' \in {mailbox \o <<>> \o <<term>>, mailbox \o <<hiccup>> \o <<term>>}
      BY <1>3 DEF TerminateOther
    <3>2. mailbox \o <<>> = mailbox /\ mailbox \o <<hiccup>> = Append(mailbox, hiccup)
      BY <1>0, <2>1, AppendIsConcat, ConcatEmptySeq
    <3>3. mailbox \o <<term>> = Append(mailbox, term)
          /\ Append(mailbox, hiccup) \o <<term>> = Append(Append(mailbox, hiccup), term)
      BY <1>0, <2>1, <2>2, AppendIsConcat
    <3> QED
      BY <3>1, <3>2, <3>3
  <2>4. m \in Seq(Msg)
    BY <1>0, <2>2, <2>3
  <2>5. \A x : (In(m, x) => In(mailbox, x) \/ x = hiccup) /\ (In(mailbox, x) => In(m, x))
    <3>1. CASE m = mailbox
      BY <3>1
    <3>2. CASE m = Append(mailbox, hiccup)
      BY <1>0, <2>1, <3>2, InAppend
    <3> QED
      BY <2>3, <3>1, <3>2
  <2>6. \A x : In(mailbox', x) <=> In(m, x) \/ x = term
    BY <2>1, <2>3, <2>4, InAppend
  <2>7. ASSUME NEW c \in Child PROVE ChildQuiet(c)
    <3>1. hiccup \notin ChildCmds(c) /\ term \notin ChildCmds(c)
      BY CmdsOfOne, ChildCmdsOfOne
    <3>2. \A x \in ChildCmds(c) : /\ In(m, x) <=> In(mailbox, x)
                                  /\ In(mailbox', x) <=> In(m, x)
      BY <2>5, <2>6, <3>1
    <3>3. ASSUME ChildInOrder(c) PROVE ChildInOrder(c)'
      <4>1. Ordered(m, ChildCmds(c), Command("own", c), Command("term_ack", c), Command("own", c))
        BY <1>0, <2>1, <2>3, <3>1, <3>3, OrderedAppend DEF ChildInOrder
      <4> QED
        BY <2>1, <2>3, <2>4, <3>1, <4>1, OrderedAppend DEF ChildInOrder
    <3> QED
      BY <3>2, <3>3 DEF ChildQuiet
  <2>8. ASSUME NEW q \in Pipe PROVE BindQuiet(q)
    <3>1. Command("bind", q) # hiccup /\ Command("bind", q) # term
      BY DEF Command
    <3> QED
      BY <2>5, <2>6, <3>1 DEF BindQuiet
  <2> QED
    BY <2>7, <2>8
<1>4. ASSUME NEW cmd \in {"stop", "hiccup", "pipe_term", "pipe_term_ack"}, NEW x, Receive(cmd, x)
      PROVE  (\A c \in Child : ChildQuiet(c)) /\ (\A p \in Pipe : BindQuiet(p))
  <2>1. /\ \A c \in Child : Command(cmd, x) \notin ChildCmds(c)
        /\ \A p \in Pipe : Command(cmd, x) # Command("bind", p)
    BY DEF ChildCmds, Command
  <2>2. mailbox # <<>> /\ Head(mailbox) = Command(cmd, x) /\ mailbox' = Tail(mailbox)
    BY <1>4 DEF Receive
  <2> QED
    BY <1>0, <1>4, <2>1, <2>2, InTail, ChildQuietTaken DEF BindQuiet
<1> QED
  BY <1>1, <1>2, <1>3, <1>4

\* A child that the step is not about.
LEMMA ChildFitKept ==
  ASSUME NEW c \in Child, ChildFit(c), ChildQuiet(c), state'[c] = state[c],
         c \in owned' <=> c \in owned
  PROVE  ChildFit(c)'
<1>1. /\ \A x \in ChildCmds(c) : In(mailbox', x) => In(mailbox, x)
      /\ \A x \in ChildCmds(c) : In(mailbox, x) => In(mailbox', x) \/ x = Command("term_req", c)
  BY DEF ChildQuiet
<1>2. /\ In(mailbox', Command("own", c)) <=> In(mailbox, Command("own", c))
      /\ In(mailbox', Command("term_ack", c)) <=> In(mailbox, Command("term_ack", c))
  BY <1>1, ChildCmdsOfOne
<1>3. ChildInOrder(c)'
  BY DEF ChildFit, ChildQuiet
<1>4. state'[c] \in {"none", "gone"} => \A x \in ChildCmds(c) : ~In(mailbox', x)
  BY <1>1 DEF ChildFit
<1> QED
  BY <1>2, <1>3, <1>4 DEF ChildFit

\* Steps that leave the children and the counters alone.
LEMMA CountedKept ==
  ASSUME Counted, \A c \in Child : ChildQuiet(c), \A p \in Pipe : BindQuiet(p),
         unseen' = unseen, termAcks' = termAcks, terminating' = terminating,
         destroyed' = destroyed, owned' = owned, found' = found, state' = state,
         terminating => pipes' = pipes /\ registered' = registered,
         terminating' <=> phase' \in {"reaping", "freed"}
  PROVE  Counted'
<1>1. \A c \in Child : ChildFit(c)'
  BY ChildFitKept DEF Counted
<1>2. OwnQueued' = OwnQueued
  BY ChildCmdsOfOne DEF OwnQueued, ChildQuiet
<1>3. BindQueued' = BindQueued
  BY DEF BindQueued, BindQuiet
<1>4. Leaving' = Leaving
  BY DEF Leaving
<1>5. Counts'
  BY <1>2, <1>3, <1>4 DEF Counted, Counts
<1>6. Closing'
  BY DEF Counted, Closing
<1> QED
  BY <1>1, <1>5, <1>6 DEF Counted

-----------------------------------------------------------------------------
(***************************************************************************)
(* The steps.                                                              *)
(***************************************************************************)

\* As long as there is something left.
LEMMA NotDestroyed ==
  ASSUME Shapes, Fitting, Counted,
         \/ \E c \in Child : state[c] \notin {"none", "gone"}
         \/ \E x \in Msg : In(mailbox, x) /\ x.cmd # "stop"
         \/ found > 0
  PROVE  ~destroyed
<1>1. ~NothingLeft \/ ~destroyed
  BY DEF NothingLeft, In
<1> QED
  BY <1>1, NothingLeftThen

\* A socket that is open is not about to go.
LEMMA OpenStays ==
  ASSUME Counted, phase = "open" \/ phase = "closed"
  PROVE  ~terminating /\ ~destroyed
BY DEF Counted, Closing

LEMMA CountedAddEndpoint ==
  ASSUME Shapes, Counted, phase = "open", phase' = phase, NEW e, NEW c \in Child, NEW k, NEW p,
         AddEndpoint(e, c, k, p), found' = found
  PROVE  Counted'
<1>1. ~terminating /\ ~destroyed
  BY OpenStays
<1>2. /\ mailbox \in Seq(Msg) /\ mailbox' = Append(mailbox, Command("own", c))
      /\ Command("own", c) \in Msg /\ state[c] = "none" /\ state'[c] = "running"
      /\ \A d \in Child : d # c => state'[d] = state[d]
      /\ unseen' = unseen + 1
      /\ terminating' = terminating /\ destroyed' = destroyed /\ termAcks' = termAcks /\ owned' = owned
  BY ChildCmdsOfOne DEF Shapes, AddEndpoint
<1>3. (\A x \in ChildCmds(c) : ~In(mailbox, x)) /\ c \notin owned
  BY <1>2 DEF Counted, ChildFit
<1>4. \A x : In(mailbox', x) <=> In(mailbox, x) \/ x = Command("own", c)
  BY <1>2, InAppend
<1>5. ChildFit(c)'
  <2>1. ChildInOrder(c)'
    BY <1>2, <1>3, ChildCmdsOfOne, OrderedAppend DEF ChildInOrder, Counted, ChildFit
  <2> QED
    BY <1>2, <1>3, <1>4, <2>1, ChildCmdsOfOne DEF ChildFit
<1>6. ASSUME NEW d \in Child, d # c PROVE ChildFit(d)'
  <2>1. Command("own", c) \notin ChildCmds(d)
    BY <1>6, ChildCmdsOfOne
  <2> QED
    BY <1>2, <1>6, <2>1, ChildQuietAppend, ChildFitKept DEF Counted
<1>7. Counts'
  <2>1. OwnQueued' = OwnQueued \cup {c} /\ c \notin OwnQueued
    <3>1. \A d \in Child : Command("own", d) = Command("own", c) <=> d = c
      BY DEF Command
    <3> QED
      BY <1>3, <1>4, <3>1, ChildCmdsOfOne DEF OwnQueued
  <2>2. BindQueued' = BindQueued
    <3>1. \A q \in Pipe : Command("bind", q) # Command("own", c)
      BY DEF Command
    <3> QED
      BY <1>4, <3>1 DEF BindQueued
  <2>3. Leaving' = Leaving
    BY <1>2 DEF Leaving
  <2>4. Cardinality(OwnQueued') = Cardinality(OwnQueued) + 1
    BY <2>1, SomeFinite, FS_AddElement
  <2> QED
    BY <1>1, <1>2, <2>2, <2>3, <2>4, SomeFinite DEF Counted, Counts, Shapes
<1>8. Closing'
  BY <1>1, <1>2 DEF Counted, Closing
<1> QED
  BY <1>5, <1>6, <1>7, <1>8 DEF Counted

\* The socket tells children that it owns to go.
LEMMA ToldToGo ==
  ASSUME Shapes, Counted, NEW mine \in SUBSET owned, owned' = owned \ mine,
         state' = [c \in Child |-> IF c \in mine THEN "told" ELSE state[c]],
         \A c \in Child : ChildQuiet(c)
  PROVE  /\ \A c \in Child : ChildFit(c)'
         /\ Cardinality(Leaving') = Cardinality(Leaving) + Cardinality(mine)
         /\ Cardinality(mine) \in Nat
         /\ OwnQueued' = OwnQueued
<1>1. mine \subseteq Child /\ \A c \in mine : state[c] \in {"running", "asking"}
  BY DEF Shapes, Counted, ChildFit
<1>2. ASSUME NEW c \in Child PROVE ChildFit(c)'
  <2>1. CASE c \notin mine
    BY <2>1, ChildFitKept DEF Counted
  <2>2. CASE c \in mine
    <3>1. ChildInOrder(c)' /\ ~In(mailbox', Command("own", c)) /\ ~In(mailbox', Command("term_ack", c))
      BY <1>1, <2>2, ChildCmdsOfOne DEF ChildQuiet, Counted, ChildFit
    <3> QED
      BY <2>2, <3>1 DEF ChildFit
  <2> QED
    BY <2>1, <2>2
<1>3. Leaving' = Leaving \cup mine /\ Leaving \cap mine = {}
  BY <1>1 DEF Leaving
<1>4. IsFiniteSet(mine) /\ Cardinality(mine) \in Nat
  BY SomeFinite, FS_Subset, FS_CardinalityType
<1>5. Cardinality(Leaving') = Cardinality(Leaving) + Cardinality(mine)
  <2>1. IsFiniteSet(Leaving) /\ Cardinality(Leaving) \in Nat
    BY SomeFinite
  <2>2. Cardinality(Leaving \cap mine) = 0
    BY <1>3, FS_EmptySet
  <2>3. Cardinality(Leaving \cup mine) = Cardinality(Leaving) + Cardinality(mine)
                                        - Cardinality(Leaving \cap mine)
    BY <1>4, <2>1, FS_Union
  <2> QED
    BY <1>3, <1>4, <2>1, <2>2, <2>3
<1>6. OwnQueued' = OwnQueued
  BY ChildCmdsOfOne DEF OwnQueued, ChildQuiet
<1> QED
  BY <1>2, <1>4, <1>5, <1>6

LEMMA CountedTermChildren ==
  ASSUME Shapes, Counted, NEW C \in SUBSET Child, TermChildren(C),
         \A c \in Child : ChildQuiet(c), \A p \in Pipe : BindQuiet(p),
         phase' = phase, unseen' = unseen, terminating' = terminating, destroyed' = destroyed,
         found' = found, pipes' = pipes, registered' = registered
  PROVE  Counted'
<1>1. CASE terminating
  BY <1>1, CountedKept DEF TermChildren, Counted, Closing
<1>2. CASE ~terminating
  <2> DEFINE mine == C \cap owned
  <2>1. /\ owned' = owned \ mine /\ termAcks' = termAcks + Cardinality(mine)
        /\ state' = [c \in Child |-> IF c \in mine THEN "told" ELSE state[c]]
    BY <1>2 DEF TermChildren
  <2> HIDE DEF mine
  <2>2. mine \in SUBSET owned
    BY DEF mine
  <2>3. /\ \A c \in Child : ChildFit(c)'
        /\ Cardinality(Leaving') = Cardinality(Leaving) + Cardinality(mine)
        /\ Cardinality(mine) \in Nat /\ OwnQueued' = OwnQueued
    BY <2>1, <2>2, ToldToGo
  <2>4. BindQueued' = BindQueued
    BY DEF BindQueued, BindQuiet
  <2>5. Counts'
    BY <1>2, <2>1, <2>3, <2>4, SomeFinite DEF Counted, Counts
  <2>6. Closing'
    BY <1>2, <2>1 DEF Counted, Closing
  <2> QED
    BY <2>3, <2>5, <2>6 DEF Counted
<1> QED
  BY <1>1, <1>2

LEMMA CountedCallStep ==
  ASSUME Shapes, Counted, CallStep
  PROVE  Counted'
<1> USE DEF ownVars, nameVars, childVars, tableVars
<1>1. ASSUME mailbox' = mailbox, UNCHANGED <<ownVars, childVars>>, found' = found,
             phase = "open", phase' \in {"open", "closed"}
      PROVE  Counted'
  <2>1. ~terminating
    BY <1>1, OpenStays
  <2>2. (\A c \in Child : ChildQuiet(c)) /\ (\A p \in Pipe : BindQuiet(p))
    BY <1>1, QuietForAll
  <2> QED
    BY <1>1, <2>1, <2>2, CountedKept
<1>2. ASSUME NEW op, NEW e, Call(op, e) PROVE Counted'
  BY <1>1, <1>2 DEF Call
<1>3. CASE Drained \/ Refuse \/ TryAgain \/ Done \/ SetImmediate \/ SetLinger \/ Close
  BY <1>1, <1>3
  DEF Drained, Refuse, TryAgain, Done, SetImmediate, SetLinger, Close, Return, appVars
<1>4. ASSUME NEW e \in Endpoint,
             BindInproc(e) \/ ConnectInproc(e) \/ ConnectAgain(e) \/ DisconnectInproc(e)
      PROVE  Counted'
  BY <1>1, <1>4 DEF BindInproc, ConnectInproc, ConnectAgain, DisconnectInproc, Ready, Return
<1>5. ASSUME NEW e \in Endpoint, BindListener(e) \/ ConnectSession(e) PROVE Counted'
  BY <1>5, CountedAddEndpoint DEF BindListener, ConnectSession, Ready, Return
<1>6. ASSUME NEW e \in Endpoint, Disconnect(e) PROVE Counted'
  <2> DEFINE gone == {x.child : x \in {y \in endpoints : y.endpoint = e}}
  <2>1. gone \in SUBSET Child /\ TermChildren(gone)
    BY <1>6 DEF Disconnect, Shapes, Entry
  <2>2. (\A c \in Child : ChildQuiet(c)) /\ (\A p \in Pipe : BindQuiet(p))
    BY <1>6, QuietForAll DEF Disconnect
  <2> HIDE DEF gone
  <2>3. /\ phase' = phase /\ unseen' = unseen /\ terminating' = terminating
        /\ destroyed' = destroyed /\ found' = found /\ pipes' = pipes /\ registered' = registered
    BY <1>6 DEF Disconnect, Return
  <2> QED
    BY <2>1, <2>2, <2>3, CountedTermChildren
<1>7. ASSUME NEW p \in Pipe, ReadDelimiter(p) PROVE Counted'
  BY <1>1, <1>7 DEF ReadDelimiter, Ready, appVars
<1> QED
  BY <1>2, <1>3, <1>4, <1>5, <1>6, <1>7 DEF CallStep

LEMMA CountedStartReaping ==
  ASSUME Shapes, Counted, StartReaping
  PROVE  Counted'
<1>1. /\ phase = "closed" /\ phase' = "reaping" /\ registered' = {} /\ owned' = {} /\ terminating' = TRUE
      /\ state' = [c \in Child |-> IF c \in owned THEN "told" ELSE state[c]]
      /\ termAcks' = termAcks + Cardinality(pipes) + Cardinality(owned)
      /\ unseen' = unseen /\ found' = found /\ pipes' = pipes /\ mailbox' = mailbox
  BY DEF StartReaping, tableVars
<1>2. ~terminating /\ ~destroyed
  BY <1>1, OpenStays
<1>3. (\A c \in Child : ChildQuiet(c)) /\ (\A p \in Pipe : BindQuiet(p))
  BY <1>1, QuietForAll
<1>4. /\ \A c \in Child : ChildFit(c)'
      /\ Cardinality(Leaving') = Cardinality(Leaving) + Cardinality(owned)
      /\ OwnQueued' = OwnQueued
  <2>1. owned \in SUBSET owned /\ owned' = owned \ owned
    BY <1>1
  <2> QED
    BY <1>1, <1>3, <2>1, ToldToGo
<1>5. BindQueued' = BindQueued
  BY <1>3 DEF BindQueued, BindQuiet
<1>6. Counts'
  BY <1>1, <1>2, <1>4, <1>5, SomeFinite DEF Counted, Counts
<1>7. Closing'
  BY <1>1, <1>2 DEF StartReaping, CheckTermAcks, Closing
<1> QED
  BY <1>4, <1>6, <1>7 DEF Counted

\* A command about a child that is taken from the mailbox.
LEMMA TakenAboutChild ==
  ASSUME Shapes, NEW c \in Child, ChildFit(c), NEW cmd \in {"own", "term_ack"}, Receive(cmd, c)
  PROVE  /\ In(mailbox, Command(cmd, c)) /\ ChildInOrder(c)'
         /\ \A x : In(mailbox, x) <=> x = Command(cmd, c) \/ In(mailbox', x)
         /\ ~In(mailbox', Command("own", c))
         /\ cmd = "term_ack" => \A x \in ChildCmds(c) : ~In(mailbox', x)
         /\ \A d \in Child : d # c => ChildQuiet(d)
         /\ \A p \in Pipe : BindQuiet(p)
<1>1. /\ mailbox \in Seq(Msg) /\ mailbox # <<>> /\ Head(mailbox) = Command(cmd, c)
      /\ mailbox' = Tail(mailbox) /\ Command(cmd, c) \in ChildCmds(c)
  BY ChildCmdsOfOne DEF Shapes, Receive
<1>2. \A x : In(mailbox, x) <=> x = Command(cmd, c) \/ In(mailbox', x)
  BY <1>1, InTail
<1>3. ChildInOrder(c)' /\ ~In(mailbox', Command("own", c))
  BY <1>1, OrderedTail, ChildCmdsOfOne DEF ChildFit, ChildInOrder
<1>4. cmd = "term_ack" => \A x \in ChildCmds(c) : ~In(mailbox', x)
  BY <1>1, OrderedTail DEF ChildFit, ChildInOrder
<1>5. ASSUME NEW d \in Child, d # c PROVE ChildQuiet(d)
  <2>1. Command(cmd, c) \notin ChildCmds(d)
    BY <1>1, <1>5, ChildCmdsOfOne
  <2> QED
    BY <2>1, ChildQuietTaken
<1>6. \A p \in Pipe : Command("bind", p) # Command(cmd, c)
  BY DEF Command
<1> QED
  BY <1>2, <1>3, <1>4, <1>5, <1>6 DEF BindQuiet

LEMMA CountedProcessOwn ==
  ASSUME Shapes, Fitting, Counted, NEW c \in Child, ProcessOwn(c)
  PROVE  Counted'
<1>1. Receive("own", c)
  BY DEF ProcessOwn
<1>2. /\ In(mailbox, Command("own", c)) /\ ChildInOrder(c)'
      /\ \A x : In(mailbox, x) <=> x = Command("own", c) \/ In(mailbox', x)
      /\ ~In(mailbox', Command("own", c))
      /\ \A d \in Child : d # c => ChildQuiet(d)
      /\ \A p \in Pipe : BindQuiet(p)
  BY <1>1, TakenAboutChild DEF Counted
<1>3. state[c] \in {"running", "asking"} /\ c \notin owned /\ c \notin Leaving
  BY <1>2 DEF Counted, ChildFit, Leaving
<1>4. ~destroyed
  BY <1>3, NotDestroyed
<1>5. /\ terminating' = terminating /\ unseen' = unseen - 1 /\ phase' = phase
      /\ found' = found /\ pipes' = pipes /\ registered' = registered
      /\ destroyed' => terminating' /\ unseen' = 0 /\ termAcks' = 0
  BY <1>4 DEF ProcessOwn, CheckTermAcks, appVars, tableVars, nameVars
<1>6. /\ terminating => /\ termAcks' = termAcks + 1 /\ owned' = owned
                        /\ state' = [state EXCEPT ![c] = "told"]
      /\ ~terminating => termAcks' = termAcks /\ owned' = owned \cup {c} /\ state' = state
  BY DEF ProcessOwn
<1>7. ~In(mailbox', Command("term_ack", c))
  BY <1>2, <1>3 DEF Counted, ChildFit
<1>8. ChildFit(c)'
  BY <1>2, <1>3, <1>6, <1>7 DEF ChildFit, Shapes
<1>9. ASSUME NEW d \in Child, d # c PROVE ChildFit(d)'
  <2>1. state'[d] = state[d] /\ (d \in owned' <=> d \in owned)
    BY <1>6, <1>9 DEF Shapes
  <2> QED
    BY <1>2, <1>9, <2>1, ChildFitKept DEF Counted
<1>10. Counts'
  <2>1. OwnQueued' = OwnQueued \ {c} /\ c \in OwnQueued
    <3>1. \A d \in Child : d # c => Command("own", d) # Command("own", c)
      BY DEF Command
    <3> QED
      BY <1>2, <3>1 DEF OwnQueued
  <2>2. Cardinality(OwnQueued') = Cardinality(OwnQueued) - 1
    BY <2>1, SomeFinite, FS_RemoveElement
  <2>3. BindQueued' = BindQueued
    BY <1>2 DEF BindQueued, BindQuiet
  <2>4. Leaving' = IF terminating THEN Leaving \cup {c} ELSE Leaving
    BY <1>6 DEF Leaving, Shapes
  <2>5. Cardinality(Leaving \cup {c}) = Cardinality(Leaving) + 1
    BY <1>3, SomeFinite, FS_AddElement
  <2>6. /\ unseen' = Cardinality(OwnQueued') + Cardinality(BindQueued') + found'
    BY <1>5, <2>2, <2>3, SomeFinite DEF Counted, Counts, Shapes
  <2>7. termAcks' = Cardinality(Leaving') + IF terminating THEN Cardinality(pipes) ELSE 0
    <3>1. CASE terminating
      BY <1>6, <2>4, <2>5, <3>1, SomeFinite DEF Counted, Counts
    <3>2. CASE ~terminating
      BY <1>6, <2>4, <3>2, SomeFinite DEF Counted, Counts
    <3> QED
      BY <3>1, <3>2
  <2> QED
    BY <1>5, <2>6, <2>7 DEF Counts
<1>11. Closing'
  BY <1>5, <1>6 DEF Counted, Closing
<1> QED
  BY <1>8, <1>9, <1>10, <1>11 DEF Counted

LEMMA CountedProcessTermAck ==
  ASSUME Shapes, Fitting, Counted, NEW c \in Child, ProcessTermAck(c)
  PROVE  Counted'
<1>1. Receive("term_ack", c)
  BY DEF ProcessTermAck
<1>2. /\ In(mailbox, Command("term_ack", c)) /\ ChildInOrder(c)'
      /\ \A x : In(mailbox, x) <=> x = Command("term_ack", c) \/ In(mailbox', x)
      /\ \A x \in ChildCmds(c) : ~In(mailbox', x)
      /\ \A d \in Child : d # c => ChildQuiet(d)
      /\ \A p \in Pipe : BindQuiet(p)
  BY <1>1, TakenAboutChild DEF Counted
<1>3. state[c] = "acked" /\ c \notin owned /\ c \in Leaving
  BY <1>2 DEF Counted, ChildFit, Leaving
<1>4. ~destroyed
  BY <1>3, NotDestroyed
<1>5. /\ terminating' = terminating /\ unseen' = unseen /\ termAcks' = termAcks - 1 /\ phase' = phase
      /\ found' = found /\ pipes' = pipes /\ registered' = registered /\ owned' = owned
      /\ state'[c] = "gone" /\ \A d \in Child : d # c => state'[d] = state[d]
      /\ destroyed' => terminating' /\ unseen' = 0 /\ termAcks' = 0
  BY <1>4 DEF ProcessTermAck, CheckTermAcks, appVars, tableVars, nameVars, Shapes
<1>6. ChildFit(c)'
  BY <1>2, <1>3, <1>5, ChildCmdsOfOne DEF ChildFit
<1>7. ASSUME NEW d \in Child, d # c PROVE ChildFit(d)'
  BY <1>2, <1>5, <1>7, ChildFitKept DEF Counted
<1>8. Counts'
  <2>1. OwnQueued' = OwnQueued
    <3>1. \A d \in Child : Command("own", d) # Command("term_ack", c)
      BY DEF Command
    <3> QED
      BY <1>2, <3>1 DEF OwnQueued
  <2>2. BindQueued' = BindQueued
    BY <1>2 DEF BindQueued, BindQuiet
  <2>3. Leaving' = Leaving \ {c}
    BY <1>5 DEF Leaving
  <2>4. Cardinality(Leaving') = Cardinality(Leaving) - 1
    BY <1>3, <2>3, SomeFinite, FS_RemoveElement
  <2> QED
    BY <1>5, <2>1, <2>2, <2>4, SomeFinite DEF Counted, Counts
<1>9. Closing'
  BY <1>5 DEF Counted, Closing
<1> QED
  BY <1>6, <1>7, <1>8, <1>9 DEF Counted

LEMMA CountedProcessBind ==
  ASSUME Shapes, Fitting, Counted, NEW p \in Pipe, ProcessBind(p)
  PROVE  Counted'
<1>1. /\ Receive("bind", p) /\ mailbox \in Seq(Msg) /\ mailbox # <<>>
      /\ Head(mailbox) = Command("bind", p) /\ mailbox' = Tail(mailbox)
  BY DEF ProcessBind, Receive, Shapes
<1>2. /\ \A x : In(mailbox, x) <=> x = Command("bind", p) \/ In(mailbox', x)
      /\ In(mailbox, Command("bind", p)) /\ p \in BindQueued
  BY <1>1, InTail DEF BindQueued
<1>3. ~In(mailbox', Command("bind", p)) /\ p \notin pipes
  BY <1>1, <1>2, TakenAboutPipe, CmdsOfOne DEF Fitting, Fit, Known
<1>4. ~destroyed
  <2>1. Command("bind", p) \in Msg /\ Command("bind", p).cmd # "stop"
    BY DEF Command, Msg
  <2> QED
    BY <1>2, <2>1, NotDestroyed
<1>5. /\ terminating' = terminating /\ unseen' = unseen - 1 /\ phase' = phase
      /\ found' = found /\ pipes' = pipes \cup {p} /\ registered' = registered /\ owned' = owned
      /\ state' = state /\ termAcks' = (IF terminating THEN termAcks + 1 ELSE termAcks)
      /\ destroyed' => terminating' /\ unseen' = 0 /\ termAcks' = 0
  BY <1>4 DEF ProcessBind, CheckTermAcks, appVars, nameVars, childVars
<1>6. \A c \in Child : ChildFit(c)'
  <2>1. \A c \in Child : Command("bind", p) \notin ChildCmds(c)
    BY CmdsOfOne, ChildCmdsOfOne
  <2> QED
    BY <1>1, <1>5, <2>1, ChildQuietTaken, ChildFitKept DEF Counted
<1>7. Counts'
  <2>1. OwnQueued' = OwnQueued
    <3>1. \A d \in Child : Command("own", d) # Command("bind", p)
      BY DEF Command
    <3> QED
      BY <1>2, <3>1 DEF OwnQueued
  <2>2. BindQueued' = BindQueued \ {p}
    <3>1. \A q \in Pipe : q # p => Command("bind", q) # Command("bind", p)
      BY DEF Command
    <3> QED
      BY <1>2, <1>3, <3>1 DEF BindQueued
  <2>3. Cardinality(BindQueued') = Cardinality(BindQueued) - 1
    BY <1>2, <2>2, SomeFinite, FS_RemoveElement
  <2>4. Leaving' = Leaving
    BY <1>5 DEF Leaving
  <2>5. Cardinality(pipes') = Cardinality(pipes) + 1
    BY <1>3, <1>5, SomeFinite, FS_AddElement
  <2>6. unseen' = Cardinality(OwnQueued') + Cardinality(BindQueued') + found'
    BY <1>5, <2>1, <2>3, SomeFinite DEF Counted, Counts, Shapes
  <2>7. termAcks' = Cardinality(Leaving') + IF terminating THEN Cardinality(pipes') ELSE 0
    <3>1. CASE terminating
      BY <1>5, <2>4, <2>5, <3>1, SomeFinite DEF Counted, Counts
    <3>2. CASE ~terminating
      BY <1>5, <2>4, <3>2, SomeFinite DEF Counted, Counts
    <3> QED
      BY <3>1, <3>2
  <2> QED
    BY <1>5, <2>6, <2>7 DEF Counts
<1>8. Closing'
  BY <1>5 DEF Counted, Closing
<1> QED
  BY <1>6, <1>7, <1>8 DEF Counted

LEMMA CountedProcessPipeTermAck ==
  ASSUME Shapes, Fitting, Counted, NEW p \in Pipe, ProcessPipeTermAck(p)
  PROVE  Counted'
<1>1. /\ Receive("pipe_term_ack", p) /\ mailbox \in Seq(Msg) /\ mailbox # <<>>
      /\ Head(mailbox) = Command("pipe_term_ack", p) /\ mailbox' = Tail(mailbox)
  BY DEF ProcessPipeTermAck, Receive, Shapes
<1>2. /\ \A x : In(mailbox, x) <=> x = Command("pipe_term_ack", p) \/ In(mailbox', x)
      /\ In(mailbox, Command("pipe_term_ack", p))
  BY <1>1, InTail
<1>3. p \in pipes
  <2>1. ~In(mailbox', Command("bind", p)) /\ l[p] # "free"
    BY <1>1, TakenAboutPipe, CmdsOfOne DEF Fitting
  <2>2. ~In(mailbox, Command("bind", p))
    BY <1>2, <2>1, CmdsOfOne
  <2> QED
    BY <2>1, <2>2 DEF Fitting, Fit, Known
<1>4. ~destroyed
  <2>1. Command("pipe_term_ack", p) \in Msg /\ Command("pipe_term_ack", p).cmd # "stop"
    BY DEF Command, Msg
  <2> QED
    BY <1>2, <2>1, NotDestroyed
<1>5. /\ terminating' = terminating /\ unseen' = unseen /\ phase' = phase
      /\ found' = found /\ pipes' = pipes \ {p} /\ registered' = registered /\ owned' = owned
      /\ state' = state /\ termAcks' = (IF terminating THEN termAcks - 1 ELSE termAcks)
      /\ destroyed' => terminating' /\ unseen' = 0 /\ termAcks' = 0
  BY <1>4 DEF ProcessPipeTermAck, CheckTermAcks, appVars, nameVars, childVars
<1>6. (\A c \in Child : ChildQuiet(c)) /\ (\A q \in Pipe : BindQuiet(q))
  BY <1>1, QuietForAll
<1>7. \A c \in Child : ChildFit(c)'
  BY <1>5, <1>6, ChildFitKept DEF Counted
<1>8. Counts'
  <2>1. OwnQueued' = OwnQueued
    BY <1>6, ChildCmdsOfOne DEF OwnQueued, ChildQuiet
  <2>2. BindQueued' = BindQueued
    BY <1>6 DEF BindQueued, BindQuiet
  <2>3. Leaving' = Leaving
    BY <1>5 DEF Leaving
  <2>4. Cardinality(pipes') = Cardinality(pipes) - 1
    BY <1>3, <1>5, SomeFinite, FS_RemoveElement
  <2>5. termAcks' = Cardinality(Leaving') + IF terminating THEN Cardinality(pipes') ELSE 0
    <3>1. CASE terminating
      BY <1>5, <2>3, <2>4, <3>1, SomeFinite DEF Counted, Counts
    <3>2. CASE ~terminating
      BY <1>5, <2>3, <3>2, SomeFinite DEF Counted, Counts
    <3> QED
      BY <3>1, <3>2
  <2> QED
    BY <1>5, <2>1, <2>2, <2>5 DEF Counted, Counts
<1>9. Closing'
  BY <1>5 DEF Counted, Closing
<1> QED
  BY <1>7, <1>8, <1>9 DEF Counted

LEMMA CountedCommandStep ==
  ASSUME Shapes, Fitting, Counted, CommandStep
  PROVE  Counted'
<1>1. ASSUME NEW c \in Child, ProcessTermReq(c) PROVE Counted'
  <2>1. /\ Receive("term_req", c) /\ TermChildren({c}) /\ {c} \in SUBSET Child
        /\ phase' = phase /\ unseen' = unseen /\ terminating' = terminating
        /\ destroyed' = destroyed /\ found' = found /\ pipes' = pipes /\ registered' = registered
    BY <1>1 DEF ProcessTermReq, appVars, tableVars, nameVars
  <2>2. ASSUME NEW d \in Child PROVE ChildQuiet(d)
    <3>1. Command("term_req", c) \notin ChildCmds(d) \/ Command("term_req", c) = Command("term_req", d)
      BY ChildCmdsOfOne
    <3> QED
      BY <2>1, <3>1, ChildQuietTaken
  <2>3. ASSUME NEW p \in Pipe PROVE BindQuiet(p)
    <3>1. Command("bind", p) # Command("term_req", c)
      BY DEF Command
    <3> QED
      BY <2>1, <3>1, InTail DEF BindQuiet, Receive, Shapes
  <2> QED
    BY <2>1, <2>2, <2>3, CountedTermChildren
<1>2. ASSUME NEW p \in Pipe, ProcessPipeTerm(p) \/ ProcessHiccup(p) PROVE Counted'
  <2>1. /\ \A c \in Child : ChildQuiet(c)
        /\ \A q \in Pipe : BindQuiet(q)
    BY <1>2, QuietForAll DEF ProcessPipeTerm, ProcessHiccup
  <2>2. /\ unseen' = unseen /\ termAcks' = termAcks /\ terminating' = terminating
        /\ destroyed' = destroyed /\ owned' = owned /\ found' = found /\ state' = state
        /\ pipes' = pipes /\ registered' = registered /\ phase' = phase
    BY <1>2
    DEF ProcessPipeTerm, ProcessHiccup, appVars, ownVars, tableVars, nameVars, childVars
  <2>3. terminating' <=> phase' \in {"reaping", "freed"}
    BY <2>2 DEF Counted, Closing
  <2> QED
    BY <2>1, <2>2, <2>3, CountedKept
<1>3. CASE ProcessStop
  <2>1. /\ \A c \in Child : ChildQuiet(c)
        /\ \A q \in Pipe : BindQuiet(q)
    BY <1>3, QuietForAll DEF ProcessStop
  <2> QED
    BY <1>3, <2>1, CountedKept
    DEF ProcessStop, appVars, ownVars, tableVars, nameVars, childVars, Counted, Closing
<1> QED
  BY <1>1, <1>2, <1>3, CountedProcessOwn, CountedProcessTermAck, CountedProcessBind,
     CountedProcessPipeTermAck
  DEF CommandStep

\* A child asks to go, begins to go or is gone.
LEMMA CountedChildStep ==
  ASSUME Shapes, Fitting, Counted, NEW c \in Child, ProtocolError(c) \/ HandleTerm(c) \/ Finish(c)
  PROVE  Counted'
<1> USE DEF appVars, ownVars, tableVars, nameVars
<1>1. /\ unseen' = unseen /\ termAcks' = termAcks /\ terminating' = terminating
      /\ destroyed' = destroyed /\ owned' = owned /\ found' = found
      /\ pipes' = pipes /\ registered' = registered /\ phase' = phase
      /\ \A d \in Child : d # c => state'[d] = state[d]
  BY DEF ProtocolError, HandleTerm, Finish, Shapes
<1>2. PICK y \in {Command("term_req", c), Command("term_ack", c)} :
        mailbox' = mailbox \/ mailbox' = Append(mailbox, y)
  BY DEF ProtocolError, HandleTerm, Finish
<1>3. y \in Msg /\ y \in ChildCmds(c) /\ mailbox \in Seq(Msg)
  BY <1>2, ChildCmdsOfOne DEF Shapes
<1>4. \A x : In(mailbox, x) => In(mailbox', x)
  <2>1. CASE mailbox' = mailbox
    BY <2>1
  <2>2. CASE mailbox' = Append(mailbox, y)
    BY <1>3, <2>2, InAppend
  <2> QED
    BY <1>2, <2>1, <2>2
<1>5. \A x : In(mailbox', x) => In(mailbox, x) \/ x = y
  <2>1. CASE mailbox' = mailbox
    BY <2>1
  <2>2. CASE mailbox' = Append(mailbox, y)
    BY <1>3, <2>2, InAppend
  <2> QED
    BY <1>2, <2>1, <2>2
<1>6. ASSUME NEW d \in Child, d # c PROVE ChildFit(d)'
  <2>1. y \notin ChildCmds(d)
    BY <1>3, <1>6, ChildCmdsOfOne
  <2>2. ChildQuiet(d)
    BY <1>2, <1>3, <2>1, ChildQuietAppend, QuietForAll
  <2> QED
    BY <1>1, <1>6, <2>2, ChildFitKept DEF Counted
<1>7. ChildFit(c)'
  <2>1. CASE ProtocolError(c)
    <3>1. /\ mailbox' = Append(mailbox, Command("term_req", c))
          /\ state[c] = "running" /\ state'[c] = "asking"
      BY <2>1 DEF ProtocolError, Shapes
    <3>2. /\ ~In(mailbox, Command("term_ack", c)) /\ ChildInOrder(c)
      BY <3>1 DEF Counted, ChildFit
    <3>3. ChildInOrder(c)'
      BY <1>3, <3>1, <3>2, ChildCmdsOfOne, OrderedAppend DEF ChildInOrder
    <3>4. \A x : In(mailbox', x) <=> In(mailbox, x) \/ x = Command("term_req", c)
      BY <1>3, <3>1, ChildCmdsOfOne, InAppend
    <3> QED
      BY <1>1, <3>1, <3>3, <3>4, ChildCmdsOfOne DEF Counted, ChildFit
  <2>2. CASE HandleTerm(c)
    <3>1. mailbox' = mailbox /\ state[c] = "told" /\ state'[c] = "ending"
      BY <2>2 DEF HandleTerm, Shapes
    <3> QED
      BY <1>1, <3>1 DEF Counted, ChildFit, ChildInOrder
  <2>3. CASE Finish(c)
    <3>1. /\ mailbox' = Append(mailbox, Command("term_ack", c))
          /\ state[c] = "ending" /\ state'[c] = "acked"
      BY <2>3 DEF Finish, Shapes
    <3>2. ~In(mailbox, Command("term_ack", c)) /\ ChildInOrder(c) /\ ~In(mailbox, Command("own", c))
          /\ c \notin owned
      BY <3>1 DEF Counted, ChildFit
    <3>3. ChildInOrder(c)'
      BY <1>3, <3>1, <3>2, ChildCmdsOfOne, OrderedAppend DEF ChildInOrder
    <3>4. \A x : In(mailbox', x) <=> In(mailbox, x) \/ x = Command("term_ack", c)
      BY <1>3, <3>1, ChildCmdsOfOne, InAppend
    <3> QED
      BY <1>1, <3>1, <3>2, <3>3, <3>4, ChildCmdsOfOne DEF ChildFit
  <2> QED
    BY <2>1, <2>2, <2>3
<1>8. Counts'
  <2>1. OwnQueued' = OwnQueued
    <3>1. \A d \in Child : Command("own", d) # y
      BY <1>2 DEF Command
    <3> QED
      BY <1>4, <1>5, <3>1 DEF OwnQueued
  <2>2. BindQueued' = BindQueued
    <3>1. \A p \in Pipe : Command("bind", p) # y
      BY <1>2 DEF Command
    <3> QED
      BY <1>4, <1>5, <3>1 DEF BindQueued
  <2>3. Leaving' = Leaving
    <3>1. c \in Leaving' <=> c \in Leaving
      BY DEF Leaving, ProtocolError, HandleTerm, Finish, Shapes
    <3> QED
      BY <1>1, <3>1 DEF Leaving
  <2> QED
    BY <1>1, <2>1, <2>2, <2>3 DEF Counted, Counts
<1>9. Closing'
  BY <1>1 DEF Counted, Closing
<1> QED
  BY <1>6, <1>7, <1>8, <1>9 DEF Counted

\* A pipe that somebody else has made is sent.
LEMMA CountedSent ==
  ASSUME Shapes, Fitting, Counted, NEW p \in Pipe, l[p] = "free",
         mailbox' = Append(mailbox, Command("bind", p)),
         unseen' = (unseen + 1) - found + found', unseen' \in Int, found' \in Nat, ~destroyed,
         termAcks' = termAcks, terminating' = terminating, destroyed' = destroyed, owned' = owned,
         state' = state, pipes' = pipes, registered' = registered, phase' = phase
  PROVE  Counted'
<1>1. mailbox \in Seq(Msg) /\ Command("bind", p) \in Msg /\ ~In(mailbox, Command("bind", p))
  BY CmdsOfOne DEF Shapes, Fitting, Fit, Known
<1>2. \A x : In(mailbox', x) <=> In(mailbox, x) \/ x = Command("bind", p)
  BY <1>1, InAppend
<1>3. ASSUME NEW c \in Child PROVE ChildFit(c)'
  <2>1. Command("bind", p) \notin ChildCmds(c)
    BY CmdsOfOne, ChildCmdsOfOne
  <2> QED
    BY <1>1, <2>1, ChildQuietAppend, ChildFitKept DEF Counted
<1>4. OwnQueued' = OwnQueued
  <2>1. \A d \in Child : Command("own", d) # Command("bind", p)
    BY DEF Command
  <2> QED
    BY <1>2, <2>1 DEF OwnQueued
<1>5. BindQueued' = BindQueued \cup {p} /\ p \notin BindQueued
  <2>1. \A q \in Pipe : q # p => Command("bind", q) # Command("bind", p)
    BY DEF Command
  <2> QED
    BY <1>1, <1>2, <2>1 DEF BindQueued
<1>6. Cardinality(BindQueued') = Cardinality(BindQueued) + 1
  BY <1>5, SomeFinite, FS_AddElement
<1>7. Leaving' = Leaving
  BY DEF Leaving
<1>8. Counts'
  <2>1. /\ found \in Nat /\ unseen = Cardinality(OwnQueued) + Cardinality(BindQueued) + found
        /\ termAcks = Cardinality(Leaving) + IF terminating THEN Cardinality(pipes) ELSE 0
    BY DEF Counted, Counts, Shapes
  <2>2. Cardinality(OwnQueued) \in Nat /\ Cardinality(BindQueued) \in Nat
    BY SomeFinite
  <2>3. unseen \in Int
    BY <2>1, <2>2
  <2>4. unseen' = Cardinality(OwnQueued) + (Cardinality(BindQueued) + 1) + found'
    BY <2>1, <2>2, <2>3
  <2>5. unseen' = Cardinality(OwnQueued') + Cardinality(BindQueued') + found'
    BY <1>4, <1>6, <2>4
  <2>6. termAcks' = Cardinality(Leaving') + IF terminating' THEN Cardinality(pipes') ELSE 0
    BY <1>7, <2>1
  <2> QED
    BY <2>5, <2>6 DEF Counts
<1>9. Closing'
  BY DEF Counted, Closing
<1> QED
  BY <1>3, <1>8, <1>9 DEF Counted

LEMMA CountedOtherStep ==
  ASSUME Shapes, Fitting, Counted, OtherStep
  PROVE  Counted'
<1> USE DEF appVars, ownVars, tableVars, nameVars, childVars
<1>0. found \in Nat /\ unseen \in Nat
  BY CountersNat DEF Shapes, TypeOK
<1>1. ASSUME \/ mailbox' = mailbox
             \/ \E y \in Msg : /\ mailbox' = Append(mailbox, y)
                               /\ y.cmd \in {"stop", "hiccup", "pipe_term", "pipe_term_ack"}
             \/ \E p \in Pipe : TerminateOther(p),
             UNCHANGED <<phase, ownVars, tableVars, nameVars, childVars>>
      PROVE  Counted'
  <2>1. (\A c \in Child : ChildQuiet(c)) /\ (\A p \in Pipe : BindQuiet(p))
    BY <1>1, QuietForAll
  <2>2. terminating' <=> phase' \in {"reaping", "freed"}
    BY <1>1 DEF Counted, Closing
  <2> QED
    BY <1>1, <2>1, <2>2, CountedKept
<1>2. \A p \in Pipe : \A cmd \in {"hiccup", "pipe_term_ack"} :
        Command(cmd, p) \in Msg /\ Command(cmd, p).cmd = cmd
  BY DEF Command, Msg
<1>3. ASSUME NEW p \in Pipe,
             Hiccup(p) \/ Lose(p) \/ Delivered(p) \/ OtherEnd(p) \/ Adopt(p)
      PROVE  Counted'
  <2>1. \/ mailbox' = mailbox
        \/ \E cmd \in {"hiccup", "pipe_term_ack"} : mailbox' = Append(mailbox, Command(cmd, p))
    BY <1>3 DEF Hiccup, Lose, Delivered, OtherEnd, Adopt
  <2>2. UNCHANGED <<phase, ownVars, tableVars, nameVars, childVars>>
    BY <1>3 DEF Hiccup, Lose, Delivered, OtherEnd, Adopt
  <2> QED
    BY <1>1, <1>2, <2>1, <2>2
<1>4. ASSUME NEW p \in Pipe, TerminateOther(p) PROVE Counted'
  <2>1. UNCHANGED <<phase, ownVars, tableVars, nameVars, childVars>>
    BY <1>4 DEF TerminateOther
  <2> QED
    BY <1>1, <1>4, <2>1
<1>5. CASE CtxTerm
  <2>1. Command("stop", None) \in Msg /\ Command("stop", None).cmd = "stop"
    BY DEF Command, Msg
  <2>2. UNCHANGED <<phase, ownVars, tableVars, nameVars, childVars>>
    BY <1>5 DEF CtxTerm
  <2> QED
    BY <1>1, <1>5, <2>1, <2>2 DEF CtxTerm
<1>6. CASE Find
  <2>1. ~terminating /\ ~destroyed
    BY <1>6 DEF Find, Counted, Closing
  <2>2. (\A c \in Child : ChildQuiet(c)) /\ (\A p \in Pipe : BindQuiet(p))
    BY <1>6, QuietForAll DEF Find
  <2>3. /\ unseen' = unseen + 1 /\ found' = found + 1 /\ termAcks' = termAcks /\ phase' = phase
        /\ terminating' = terminating /\ destroyed' = destroyed /\ owned' = owned /\ state' = state
        /\ pipes' = pipes /\ registered' = registered
    BY <1>6 DEF Find
  <2>4. OwnQueued' = OwnQueued /\ BindQueued' = BindQueued /\ Leaving' = Leaving
    BY <2>2, <2>3, ChildCmdsOfOne DEF OwnQueued, BindQueued, Leaving, ChildQuiet, BindQuiet
  <2>5. Counts'
    BY <1>0, <2>3, <2>4, SomeFinite DEF Counted, Counts
  <2>6. \A c \in Child : ChildFit(c)'
    BY <2>2, <2>3, ChildFitKept DEF Counted
  <2>7. Closing'
    BY <2>1, <2>3 DEF Counted, Closing
  <2> QED
    BY <2>5, <2>6, <2>7 DEF Counted
<1>7. ASSUME NEW c \in Child, NEW p \in Pipe, Attach(c, p) PROVE Counted'
  <2>1. ~destroyed
    BY <1>7, NotDestroyed DEF Attach
  <2> QED
    BY <1>0, <1>7, <2>1, CountedSent DEF Attach, NewPipe
<1>8. ASSUME NEW p \in Pipe, SendBind(p) PROVE Counted'
  <2>1. ~destroyed
    BY <1>8, NotDestroyed DEF SendBind
  <2>2. /\ found' \in Nat /\ unseen' \in Int /\ unseen' = (unseen + 1) - found + found'
    BY <1>0, <1>8 DEF SendBind
  <2> QED
    BY <1>8, <2>1, <2>2, CountedSent DEF SendBind, NewPipe
<1> QED
  BY <1>3, <1>4, <1>5, <1>6, <1>7, <1>8, CountedChildStep DEF OtherStep

LEMMA CountedStep ==
  ASSUME Shapes, Fitting, Counted, [Next]_vars
  PROVE  Counted'
<1>1. CASE CheckDestroy \/ Freed \/ UNCHANGED vars
  <2>1. /\ mailbox' = mailbox /\ unseen' = unseen /\ termAcks' = termAcks
        /\ terminating' = terminating /\ destroyed' = destroyed /\ owned' = owned /\ found' = found
        /\ state' = state /\ pipes' = pipes /\ registered' = registered
        /\ phase' = phase \/ (phase = "reaping" /\ phase' = "freed")
    BY <1>1 DEF CheckDestroy, Freed, vars, appVars, ownVars, tableVars, nameVars, childVars
  <2>2. terminating' <=> phase' \in {"reaping", "freed"}
    BY <2>1 DEF Counted, Closing
  <2>3. (\A c \in Child : ChildQuiet(c)) /\ (\A p \in Pipe : BindQuiet(p))
    BY <2>1, QuietForAll
  <2> QED
    BY <2>1, <2>2, <2>3, CountedKept
<1> QED
  BY <1>1, CountedStartReaping, CountedCallStep, CountedCommandStep, CountedOtherStep DEF Next

LEMMA CountedInit == Init => Counted
<1> SUFFICES ASSUME Init PROVE Counted
  OBVIOUS
<1>1. \A x : ~In(mailbox, x)
  BY DEF Init, In
<1>2. OwnQueued = {} /\ BindQueued = {} /\ Leaving = {} /\ pipes = {}
  BY <1>1 DEF Init, OwnQueued, BindQueued, Leaving
<1>3. Counts
  BY <1>2, FS_EmptySet DEF Init, Counts
<1>4. \A c \in Child : ChildFit(c)
  BY <1>1 DEF Init, ChildFit, ChildInOrder, Ordered
<1>5. Closing
  BY DEF Init, Closing
<1> QED
  BY <1>3, <1>4, <1>5 DEF Counted

LEMMA CountedAlways == Spec => [](Shapes /\ Fitting /\ Counted)
<1>1. Init => Shapes /\ Fitting /\ Counted
  BY ShapesInit, FittingInit, CountedInit
<1>2. Shapes /\ Fitting /\ Counted /\ [Next]_vars => (Shapes /\ Fitting /\ Counted)'
  BY ShapesStep, FittingStep, CountedStep
<1> QED
  BY <1>1, <1>2, PTL DEF Spec

\* The sets the variables range over; the counters of acknowledgements to come
\* and of commands on their way never become negative, as own_t asserts of the first.
THEOREM TypeCorrect == Spec => []TypeOK
<1>1. Shapes /\ Fitting /\ Counted => TypeOK
  BY CountersNat
<1> QED
  BY <1>1, CountedAlways, PTL

\* A socket that is about to be deallocated has nothing left that could still come to its
\* mailbox, whatever was bound, connected, disconnected and accepted before, and while, it
\* was closed (socket_base.cpp:1293-1323, 1394-1408 and 1522-1538).
THEOREM DestroyedWithNothingLeft == Spec => []NothingLeft
<1>1. Shapes /\ Fitting /\ Counted => NothingLeft
  BY NothingLeftThen
<1> QED
  BY <1>1, CountedAlways, PTL
=============================================================================
