---------------------------- MODULE MCDiscovery ----------------------------
(***************************************************************************)
(* Constants for the runs of Discovery: each peer has a port of its own.   *)
(***************************************************************************)
EXTENDS Discovery, TLC

CONSTANTS p1, p2, p3

OwnPort   == [p \in Peer |-> p]
Symmetric == Permutations(LongLived)
=============================================================================
