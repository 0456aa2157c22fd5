------------------------------- MODULE EventLog ------------------------------
(***************************************************************************)
(* What an event store promises: each stream is a log, and a batch of        *)
(* events is appended as a whole, right after the events it was decided on.  *)
(***************************************************************************)
EXTENDS Naturals, FiniteSets

CONSTANTS Streams, MaxBatch

VARIABLE log   \* the events, [stream, pos, seen]: pos in the stream, after the first seen ones

Length(st) == Cardinality({e \in log : e.stream = st})

Append(st, k) ==
  log' = log \cup {[stream |-> st, pos |-> Length(st) + i, seen |-> Length(st)] : i \in 1..k}

Init == log = {}

Next == \E st \in Streams, k \in 1..MaxBatch : Append(st, k)

Spec == Init /\ [][Next]_log
=============================================================================
