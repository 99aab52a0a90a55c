----------------------------- MODULE Membership -----------------------------
(***************************************************************************)
(* What the discovery protocol promises, without messages, sockets or a    *)
(* proxy: processes join, each builds its own view of who is there, and a  *)
(* view never holds a process that has not joined, nor loses one that has  *)
(* not decided to leave - not even one that was killed.                    *)
(***************************************************************************)
CONSTANT Peer

VARIABLES
  joined,   \* processes that have started, ever
  up,       \* processes that run
  leaving,  \* processes that have decided to leave
  view      \* view[p]: the processes p knows

mvars == <<joined, up, leaving, view>>

Init ==
  /\ joined = {}
  /\ up = {}
  /\ leaving = {}
  /\ view = [p \in Peer |-> {}]

Join(p) ==
  /\ p \notin joined
  /\ joined' = joined \cup {p}
  /\ up' = up \cup {p}
  /\ UNCHANGED <<leaving, view>>

\* A running process may decide to leave at any time, alone or together with a
\* step of its own; it does not change its mind.
Decide(p) == leaving' = leaving \/ leaving' = leaving \cup {p}

\* p comes to know a process that has joined, itself perhaps.
Learn(p, q) ==
  /\ p \in up
  /\ q \in joined \ view[p]
  /\ view' = [view EXCEPT ![p] = @ \cup {q}]
  /\ Decide(p)
  /\ up' \in {up, up \ (leaving' \cap {p})}
  /\ UNCHANGED joined

\* p forgets another process, which must have decided to leave.
Forget(p, q) ==
  /\ p \in up
  /\ q \in (view[p] \cap leaving) \ {p}
  /\ view' = [view EXCEPT ![p] = @ \ {q}]
  /\ Decide(p)
  /\ up' \in {up, up \ (leaving' \cap {p})}
  /\ UNCHANGED joined

\* p decides to leave, and perhaps goes at once.
Quit(p) ==
  /\ p \in up
  /\ leaving' = leaving \cup {p}
  /\ up' \in {up, up \ {p}}
  /\ UNCHANGED <<joined, view>>

\* p, having decided to leave, strikes itself off and goes.
Depart(p) ==
  /\ p \in up \cap leaving \cap view[p]
  /\ view' = [view EXCEPT ![p] = @ \ {p}]
  /\ up' = up \ {p}
  /\ UNCHANGED <<joined, leaving>>

\* p is killed; all the others go on knowing it.
Kill(p) ==
  /\ p \in up
  /\ up' = up \ {p}
  /\ UNCHANGED <<joined, leaving, view>>

Next ==
  \E p \in Peer :
    \/ Join(p) \/ Quit(p) \/ Depart(p) \/ Kill(p)
    \/ \E q \in Peer : Learn(p, q) \/ Forget(p, q)

Spec == Init /\ [][Next]_mvars
=============================================================================
