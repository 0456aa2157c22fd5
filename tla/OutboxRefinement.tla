-------------------------- MODULE OutboxRefinement --------------------------
(***************************************************************************)
(* The outbox implements an ordered log.  The log is the part of the table  *)
(* below the current xmin: it never shrinks, and what is still to come sorts *)
(* after all of it, which is why an offset is enough to remember a position. *)
(***************************************************************************)
EXTENDS Outbox

StableLog == {r \in rows : r.tid \in Snapshot}

WantedBy == [k \in Keys |-> UNION {Wanted(d) : d \in {e \in Dispatchers : OffsetKey(e) = k}}]

Log == INSTANCE OrderedLog WITH
         Consumers <- Keys,
         Topics    <- Uris,
         Wants     <- WantedBy,
         log       <- StableLog,
         cursor    <- offsets,
         start     <- base,
         got       <- got

\* Every behaviour of the outbox is one of the ordered log.
ImplementsLog == Log!Spec
=============================================================================
