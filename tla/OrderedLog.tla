----------------------------- MODULE OrderedLog -----------------------------
(***************************************************************************)
(* What an outbox promises its consumers: one append-only log of messages,  *)
(* ordered by position, that each consumer reads from its cursor without    *)
(* ever passing a message over, receiving each at least once.               *)
(***************************************************************************)
EXTENDS Integers

CONSTANTS
  Consumers,  \* the readers of the log
  Topics,     \* what a message is about
  Wants       \* Wants[k]: the topics consumer k reads

Position == [tid: Nat, pos: Nat]
Message  == [tid: Nat, pos: Nat, uri: Topics]
Start    == [tid |-> 0, pos |-> 0]

Precedes(a, b) == a.tid < b.tid \/ (a.tid = b.tid /\ a.pos < b.pos)

VARIABLES
  log,     \* the messages in the log
  cursor,  \* cursor[k]: consumer k has acknowledged everything up to here
  start,   \* start[k]: where consumer k was last told to read from
  got      \* got[k]: what consumer k has received since then

vars == <<log, cursor, start, got>>

Init ==
  /\ log = {}
  /\ cursor = [k \in Consumers |-> Start]
  /\ start = [k \in Consumers |-> Start]
  /\ got = [k \in Consumers |-> {}]

\* The log grows at its end only.
Append ==
  /\ log \subseteq log'
  /\ \A old \in log, new \in log' \ log : Precedes(old, new)

\* Consumer k receives the next message it wants, or one again that it has
\* received and not acknowledged.
Receive(k, m) ==
  /\ m.uri \in Wants[k]
  /\ Precedes(cursor[k], m)
  /\ \A n \in log : n.uri \in Wants[k] /\ Precedes(start[k], n) /\ Precedes(n, m)
                    => n \in got[k]
  /\ got' = [got EXCEPT ![k] = @ \cup {m}]
  /\ UNCHANGED <<cursor, start>>

Acknowledge(k, m) ==
  /\ m \in got[k]
  /\ Precedes(cursor[k], m)
  /\ cursor' = [cursor EXCEPT ![k] = [tid |-> m.tid, pos |-> m.pos]]
  /\ UNCHANGED <<start, got>>

\* Consumer k is told to read on from another position.
Seek(k) ==
  /\ start'[k] \in Position
  /\ start' = [start EXCEPT ![k] = start'[k]]
  /\ cursor' = [cursor EXCEPT ![k] = start'[k]]
  /\ got' = [got EXCEPT ![k] = {}]

Consume(k) ==
  \/ \E m \in log : Receive(k, m) \/ Acknowledge(k, m)
  \/ Seek(k)

Next == Append /\ ((\E k \in Consumers : Consume(k)) \/ UNCHANGED <<cursor, start, got>>)

Spec == Init /\ [][Next]_vars
=============================================================================
