--------------------------- MODULE MCSocketBase ---------------------------
(***************************************************************************)
(* Symmetry for the runs of SocketBase.                                    *)
(***************************************************************************)
EXTENDS SocketBase, TLC

Symmetric == Permutations(Child) \cup Permutations(Pipe)
=============================================================================
