---------------------------- MODULE MCSignaling ----------------------------
(***************************************************************************)
(* Symmetry for the runs of Signaling.                                     *)
(***************************************************************************)
EXTENDS Signaling, TLC

Symmetric == Permutations(Thread)
=============================================================================
