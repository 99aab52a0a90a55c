------------------------------ MODULE Pinging ------------------------------
(***************************************************************************)
(* What the signalling programs of threads/ are there to show              *)
(* (threads/README.md:34-38): every control thread sends its pings, every  *)
(* ping is received, once and in order, and only then does the program     *)
(* end.                                                                    *)
(***************************************************************************)
EXTENDS Naturals

CONSTANTS Thread, NumMsgs

VARIABLES
  sent,      \* how many pings a control thread has sent
  received,  \* how many of them have been received
  over       \* the program has ended

pvars == <<sent, received, over>>

Init ==
  /\ sent = [t \in Thread |-> 0]
  /\ received = [t \in Thread |-> 0]
  /\ over = FALSE

Send(t) ==
  /\ ~over /\ sent[t] < NumMsgs
  /\ sent' = [sent EXCEPT ![t] = @ + 1]
  /\ UNCHANGED <<received, over>>

Receive(t) ==
  /\ ~over /\ received[t] < sent[t]
  /\ received' = [received EXCEPT ![t] = @ + 1]
  /\ UNCHANGED <<sent, over>>

End ==
  /\ ~over
  /\ \A t \in Thread : received[t] = NumMsgs
  /\ over' = TRUE
  /\ UNCHANGED <<sent, received>>

Next == End \/ \E t \in Thread : Send(t) \/ Receive(t)

Spec == Init /\ [][Next]_pvars
=============================================================================
