---------------------------- MODULE MCEventStore ----------------------------
(***************************************************************************)
(* Instances of EventStore for TLC.                                         *)
(***************************************************************************)
EXTENDS EventStore, TLC

CONSTANTS s1, s2, order, user

Symmetry == Permutations(Sessions) \cup Permutations(Streams)
=============================================================================
