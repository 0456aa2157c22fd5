------------------------------- MODULE Outbox -------------------------------
(***************************************************************************)
(* The transactional outbox (ascetic_ddd/outbox/outbox.py) over one         *)
(* PostgreSQL database in READ COMMITTED.  Business transactions insert     *)
(* messages stamped with their transaction id; dispatchers read, in         *)
(* (transaction_id, position) order, the messages of the transactions below *)
(* pg_snapshot_xmin, hand them to a subscriber, and move the offset of      *)
(* their consumer group in the same transaction that locked it.             *)
(***************************************************************************)
EXTENDS Integers, FiniteSets

CONSTANTS
  Txs,          \* the business transactions that may run
  Uris,         \* the uris messages are published under
  Dispatchers,  \* the worker loops of run(), over all processes
  Call,         \* Call[d]: the arguments worker loop d passes to dispatch()
  Under,        \* Under[f]: the uris that equal filter f or extend f/
  Hash,         \* Hash[u]: hashtext(u), a signed 32-bit integer
  BatchSize,    \* LIMIT of the fetch
  MaxPos,       \* bound: messages inserted
  MaxFailures,  \* bound: subscriber exceptions and dispatcher crashes
  MaxSeeks      \* bound: calls of set_position

NoFilter == ""  \* the default uri argument: every uri

ASSUME OutboxAssumption ==
  /\ Call \in [Dispatchers ->
                 [group: STRING, uri: {NoFilter} \cup DOMAIN Under, worker: Nat, workers: Nat]]
  /\ Under \in [DOMAIN Under -> SUBSET Uris]
  /\ Hash \in [Uris -> Int]
  /\ BatchSize \in Nat \ {0}
  /\ MaxPos \in Nat /\ MaxFailures \in Nat /\ MaxSeeks \in Nat

\* The sign of SQL's a % n is the sign of a.
SqlMod(a, n) == IF a >= 0 THEN a % n ELSE -((-a) % n)

\* The messages dispatch() selects: the uri filter and the partition filter.
Wanted(d) ==
  LET c == Call[d]
  IN {u \in Uris : /\ c.uri = NoFilter \/ u \in Under[c.uri]
                   /\ c.workers > 1 => SqlMod(Hash[u], c.workers) = c.worker}

\* The primary key of the offsets row: (effective_consumer_group, uri).
OffsetKey(d) ==
  LET c == Call[d]
  IN <<c.group, IF c.workers > 1 THEN c.worker ELSE -1, c.uri>>

Keys == {OffsetKey(d) : d \in Dispatchers}

\* Every worker loop that shares an offsets row selects the same messages:
\* the number of workers of a group is not changed while its offsets live on.
ConsistentPartitions ==
  \A d, e \in Dispatchers : OffsetKey(d) = OffsetKey(e) => Wanted(d) = Wanted(e)

Position == [tid: Nat, pos: Nat]
Row      == [tid: Nat, pos: Nat, uri: Uris]
Zero     == [tid |-> 0, pos |-> 0]

\* ORDER BY transaction_id, position; the row comparison of the fetch.
Before(a, b) == a.tid < b.tid \/ (a.tid = b.tid /\ a.pos < b.pos)
UpTo(a, b)   == a.tid < b.tid \/ (a.tid = b.tid /\ a.pos <= b.pos)

VARIABLES
  txState,    \* txState[t]: "new", "active", "committed" or "aborted"
  xid,        \* xid[t]: the transaction id of t, 0 while it has none
  nextXid,    \* the next transaction id
  nextPos,    \* the next value of the BIGSERIAL position
  rows,       \* the outbox table: rows of active and of committed transactions
  registered, \* the keys that have an offsets row
  offsets,    \* offsets[k]: (last_processed_transaction_id, offset_acked)
  pc,         \* pc[d]: where worker loop d is in dispatch()
  snap,       \* snap[d]: the transaction ids below the xmin of d's snapshot
  batch,      \* batch[d]: the messages fetched
  todo,       \* todo[d]: the messages of the batch not yet given to subscriber
  dxid,       \* dxid[d]: the transaction id of d's dispatch transaction
  failures,   \* exceptions and crashes so far
  seeks,      \* calls of set_position so far
  base,       \* history: base[k], the position last set by set_position
  got         \* history: got[k], the messages given to a subscriber since then

dbVars   == <<txState, xid, nextXid, nextPos, rows>>
dispVars == <<pc, snap, batch, todo, dxid>>
posVars  == <<registered, offsets, base, got>>
vars     == <<dbVars, dispVars, posVars, failures, seeks>>

TypeOK ==
  /\ txState \in [Txs -> {"new", "active", "committed", "aborted"}]
  /\ xid \in [Txs -> Nat]
  /\ nextXid \in Nat /\ nextPos \in Nat
  /\ rows \subseteq Row
  /\ registered \subseteq Keys
  /\ offsets \in [Keys -> Position]
  /\ pc \in [Dispatchers -> {"idle", "ready", "waiting", "processing", "stopped"}]
  /\ snap \in [Dispatchers -> SUBSET Nat]
  /\ batch \in [Dispatchers -> SUBSET Row]
  /\ todo \in [Dispatchers -> SUBSET Row]
  /\ dxid \in [Dispatchers -> Nat]
  /\ failures \in Nat /\ seeks \in Nat
  /\ base \in [Keys -> Position]
  /\ got \in [Keys -> SUBSET Row]

Init ==
  /\ txState = [t \in Txs |-> "new"]
  /\ xid = [t \in Txs |-> 0]
  /\ nextXid = 1 /\ nextPos = 1
  /\ rows = {}
  /\ registered = {}
  /\ offsets = [k \in Keys |-> Zero]
  /\ pc = [d \in Dispatchers |-> "idle"]
  /\ snap = [d \in Dispatchers |-> {}]
  /\ batch = [d \in Dispatchers |-> {}]
  /\ todo = [d \in Dispatchers |-> {}]
  /\ dxid = [d \in Dispatchers |-> 0]
  /\ failures = 0 /\ seeks = 0
  /\ base = [k \in Keys |-> Zero]
  /\ got = [k \in Keys |-> {}]

-----------------------------------------------------------------------------
(***************************************************************************)
(* PostgreSQL transaction ids and snapshots.                                *)
(***************************************************************************)

InProgress ==
  {xid[t] : t \in {s \in Txs : txState[s] = "active"}}
    \cup {dxid[d] : d \in {e \in Dispatchers : pc[e] = "processing"}}

\* Bug: every committed transaction is read, without the xmin rule.
SnapshotWithoutXmin == (1..(nextXid - 1)) \ InProgress

\* The transaction ids below pg_snapshot_xmin(pg_current_snapshot()), the oldest
\* id in progress.  Their transactions have ended, so the rows left are committed.
Snapshot == {x \in 1..(nextXid - 1) : \A y \in InProgress : x < y}

-----------------------------------------------------------------------------
(***************************************************************************)
(* Business transactions.                                                   *)
(***************************************************************************)

\* The first write of a business transaction assigns its transaction id.
Write(t) ==
  /\ txState[t] = "new"
  /\ txState' = [txState EXCEPT ![t] = "active"]
  /\ xid' = [xid EXCEPT ![t] = nextXid]
  /\ nextXid' = nextXid + 1
  /\ UNCHANGED <<nextPos, rows, dispVars, posVars, failures, seeks>>

\* Bug: publish() in a session of its own, committed at once.
PublishApart(t, u) ==
  /\ txState[t] = "active"
  /\ nextPos <= MaxPos
  /\ rows' = rows \cup {[tid |-> nextXid, pos |-> nextPos, uri |-> u]}
  /\ nextXid' = nextXid + 1
  /\ nextPos' = nextPos + 1
  /\ UNCHANGED <<txState, xid, dispVars, posVars, failures, seeks>>

\* publish() inside the transaction: the row gets the next position and the
\* transaction's id.
Publish(t, u) ==
  /\ txState[t] = "active"
  /\ nextPos <= MaxPos
  /\ rows' = rows \cup {[tid |-> xid[t], pos |-> nextPos, uri |-> u]}
  /\ nextPos' = nextPos + 1
  /\ UNCHANGED <<txState, xid, nextXid, dispVars, posVars, failures, seeks>>

Commit(t) ==
  /\ txState[t] = "active"
  /\ txState' = [txState EXCEPT ![t] = "committed"]
  /\ UNCHANGED <<xid, nextXid, nextPos, rows, dispVars, posVars, failures, seeks>>

\* The atomic() block raises: its rows go with it, their positions are not reused.
Abort(t) ==
  /\ txState[t] = "active"
  /\ txState' = [txState EXCEPT ![t] = "aborted"]
  /\ rows' = {r \in rows : r.tid # xid[t]}
  /\ UNCHANGED <<xid, nextXid, nextPos, dispVars, posVars, failures, seeks>>

-----------------------------------------------------------------------------
(***************************************************************************)
(* dispatch(), called over and over by the worker loop of run().            *)
(***************************************************************************)

\* Bug: ON CONFLICT DO UPDATE instead of DO NOTHING.
EnsureConsumerGroupReset(d) ==
  /\ pc[d] = "idle"
  /\ registered' = registered \cup {OffsetKey(d)}
  /\ offsets' = [offsets EXCEPT ![OffsetKey(d)] = Zero]
  /\ pc' = [pc EXCEPT ![d] = "ready"]
  /\ UNCHANGED <<dbVars, snap, batch, todo, dxid, base, got, failures, seeks>>

\* _ensure_consumer_group in a session of its own: ON CONFLICT DO NOTHING.
EnsureConsumerGroup(d) ==
  /\ pc[d] = "idle"
  /\ registered' = registered \cup {OffsetKey(d)}
  /\ pc' = [pc EXCEPT ![d] = "ready"]
  /\ UNCHANGED <<dbVars, snap, batch, todo, dxid, offsets, base, got, failures, seeks>>

\* The fetch statement starts: its snapshot is taken before FOR UPDATE waits.
TakeSnapshot(d) ==
  /\ pc[d] = "ready"
  /\ pc' = [pc EXCEPT ![d] = "waiting"]
  /\ snap' = [snap EXCEPT ![d] = Snapshot]
  /\ UNCHANGED <<dbVars, batch, todo, dxid, posVars, failures, seeks>>

\* Bug: the fetch without FOR UPDATE.
LockIgnored(d) == TRUE

\* The row lock on the offsets row is held by no other dispatch transaction.
LockFree(d) ==
  \A e \in Dispatchers : pc[e] = "processing" => OffsetKey(e) # OffsetKey(d)

\* The rows the fetch selects.  The lock has been granted, so the offset is the
\* current one, while the outbox rows are those of the statement's snapshot.
Selected(d) ==
  {r \in rows : /\ Before(offsets[OffsetKey(d)], r)
                /\ r.tid \in snap[d]
                /\ r.uri \in Wanted(d)}

\* Bug: the LIMIT is applied before the ORDER BY.
IsAnyBatch(b, S) ==
  /\ b \subseteq S
  /\ Cardinality(b) <= BatchSize
  /\ b # S => Cardinality(b) = BatchSize

\* b is the set S after ORDER BY transaction_id, position LIMIT BatchSize.
IsFirstBatch(b, S) ==
  /\ b \subseteq S
  /\ Cardinality(b) <= BatchSize
  /\ b # S => Cardinality(b) = BatchSize
  /\ \A r \in b, s \in S \ b : Before(r, s)

\* Nothing to do: dispatch() returns False and the loop polls again.
FetchNothing(d) ==
  /\ pc[d] = "waiting" /\ LockFree(d)
  /\ Selected(d) = {}
  /\ pc' = [pc EXCEPT ![d] = "idle"]
  /\ snap' = [snap EXCEPT ![d] = {}]
  /\ UNCHANGED <<dbVars, batch, todo, dxid, posVars, failures, seeks>>

\* The row lock gives the dispatch transaction an id, which holds the xmin back.
FetchMessages(d) ==
  /\ pc[d] = "waiting" /\ LockFree(d)
  /\ Selected(d) # {}
  /\ \E b \in SUBSET Selected(d) :
       /\ IsFirstBatch(b, Selected(d))
       /\ batch' = [batch EXCEPT ![d] = b]
       /\ todo' = [todo EXCEPT ![d] = b]
  /\ pc' = [pc EXCEPT ![d] = "processing"]
  /\ dxid' = [dxid EXCEPT ![d] = nextXid]
  /\ nextXid' = nextXid + 1
  /\ UNCHANGED <<txState, xid, nextPos, rows, snap, posVars, failures, seeks>>

\* `await subscriber(message)` for the next message of the batch.
Deliver(d, m) ==
  /\ pc[d] = "processing"
  /\ m \in todo[d]
  /\ \A r \in todo[d] : UpTo(m, r)
  /\ todo' = [todo EXCEPT ![d] = @ \ {m}]
  /\ got' = [got EXCEPT ![OffsetKey(d)] = @ \cup {m}]
  /\ UNCHANGED <<dbVars, pc, snap, batch, dxid, registered, offsets, base, failures, seeks>>

\* The dispatch transaction of d ends: lock, batch and transaction id are gone.
EndDispatch(d, to) ==
  /\ pc' = [pc EXCEPT ![d] = to]
  /\ snap' = [snap EXCEPT ![d] = {}]
  /\ batch' = [batch EXCEPT ![d] = {}]
  /\ todo' = [todo EXCEPT ![d] = {}]
  /\ dxid' = [dxid EXCEPT ![d] = 0]

\* _ack_message with the last message, then the commit.
Ack(d, last) ==
  /\ pc[d] = "processing" /\ todo[d] = {}
  /\ last \in batch[d]
  /\ \A r \in batch[d] : UpTo(r, last)
  /\ offsets' = [offsets EXCEPT ![OffsetKey(d)] = [tid |-> last.tid, pos |-> last.pos]]
  /\ registered' = registered \cup {OffsetKey(d)}
  /\ EndDispatch(d, "idle")
  /\ UNCHANGED <<dbVars, base, got, failures, seeks>>

\* Bug: the exception is swallowed and the batch acknowledged all the same.
FailAcknowledges(d) ==
  /\ pc[d] \in {"ready", "waiting", "processing"}
  /\ failures < MaxFailures
  /\ failures' = failures + 1
  /\ offsets' = IF pc[d] # "processing" THEN offsets
                ELSE [offsets EXCEPT ![OffsetKey(d)] =
                        LET last == CHOOSE r \in batch[d] : \A s \in batch[d] : UpTo(s, r)
                        IN [tid |-> last.tid, pos |-> last.pos]]
  /\ EndDispatch(d, "stopped")
  /\ UNCHANGED <<dbVars, registered, base, got, seeks>>

\* The subscriber raises, or the process dies: the transaction rolls back and
\* the worker loop is left by the exception.
Fail(d) ==
  /\ pc[d] \in {"ready", "waiting", "processing"}
  /\ failures < MaxFailures
  /\ failures' = failures + 1
  /\ EndDispatch(d, "stopped")
  /\ UNCHANGED <<dbVars, posVars, seeks>>

\* run() is called again.
Restart(d) ==
  /\ pc[d] = "stopped"
  /\ pc' = [pc EXCEPT ![d] = "idle"]
  /\ UNCHANGED <<dbVars, snap, batch, todo, dxid, posVars, failures, seeks>>

\* set_position(): an upsert that waits for the row lock like any other writer.
SetPosition(k, p) ==
  /\ seeks < MaxSeeks
  /\ \A e \in Dispatchers : pc[e] = "processing" => OffsetKey(e) # k
  /\ seeks' = seeks + 1
  /\ registered' = registered \cup {k}
  /\ offsets' = [offsets EXCEPT ![k] = p]
  /\ base' = [base EXCEPT ![k] = p]
  /\ got' = [got EXCEPT ![k] = {}]
  /\ UNCHANGED <<dbVars, dispVars, failures>>

\* The positions an operator rewinds or skips to: the start, or any message's.
SeekTargets == {Zero} \cup {[tid |-> r.tid, pos |-> r.pos] : r \in rows}

TxStep(t) == Write(t) \/ (\E u \in Uris : Publish(t, u)) \/ Commit(t) \/ Abort(t)

Dispatch(d) ==
  \/ EnsureConsumerGroup(d)
  \/ TakeSnapshot(d)
  \/ FetchNothing(d)
  \/ FetchMessages(d)
  \/ \E m \in todo[d] : Deliver(d, m)
  \/ \E m \in batch[d] : Ack(d, m)
  \/ Restart(d)

Next ==
  \/ \E t \in Txs : TxStep(t)
  \/ \E d \in Dispatchers : Dispatch(d) \/ Fail(d)
  \/ \E k \in Keys, p \in SeekTargets : SetPosition(k, p)

Spec == Init /\ [][Next]_vars

\* Transactions end, and every worker loop keeps taking steps (run() is
\* restarted after a failure).
Fairness ==
  /\ \A t \in Txs : WF_vars(Commit(t) \/ Abort(t))
  /\ \A d \in Dispatchers : WF_vars(Dispatch(d))

FairSpec == Spec /\ Fairness

-----------------------------------------------------------------------------
(***************************************************************************)
(* Safety.                                                                  *)
(***************************************************************************)

\* A consumer group's offset never passes a message it has not delivered, not
\* even one whose transaction is still running: "A consumer reading position >
\* 0 would see message 2 but miss message 1" is what the xmin rule prevents.
NoSkippedMessage ==
  \A d \in Dispatchers : LET k == OffsetKey(d) IN
    \A r \in rows : /\ r.uri \in Wanted(d)
                    /\ Before(base[k], r)
                    /\ UpTo(r, offsets[k])
                    => r \in got[k]

\* A group meets its messages in (transaction_id, position) order: when one has
\* been delivered, so has every earlier one, even if later messages were
\* committed first and the dispatcher crashed in between.
DeliveredInOrder ==
  \A d \in Dispatchers : LET k == OffsetKey(d) IN
    \A m \in got[k], r \in rows : /\ r.uri \in Wanted(d)
                                  /\ Before(base[k], r)
                                  /\ Before(r, m)
                                  => r \in got[k]

\* A message handed to a subscriber belongs to a business transaction that
\* committed: there is no dual write, and no rollback takes a delivery back.
DeliveredIsCommitted ==
  \A k \in Keys : \A m \in got[k] :
    \E t \in Txs : txState[t] = "committed" /\ xid[t] = m.tid

\* Two dispatch transactions never have a message of one consumer group in
\* hand, and none has one that the group has acknowledged: a dispatcher that
\* waited for the lock with an old snapshot reads the offset the other left.
NoAckedRedelivery ==
  \A d \in Dispatchers :
    /\ \A m \in todo[d] : Before(offsets[OffsetKey(d)], m)
    /\ \A e \in Dispatchers :
         d # e /\ OffsetKey(d) = OffsetKey(e) => batch[d] \cap batch[e] = {}

\* An offset moves backwards only by set_position.
OffsetsAdvance ==
  [][\A k \in Keys : UpTo(offsets[k], offsets'[k]) \/ seeks' # seeks]_vars

(***************************************************************************)
(* Liveness.                                                                *)
(***************************************************************************)

\* "Messages will be delivered at least once": a committed message reaches, by
\* one worker loop or another, every subscription that reads its uri.
Subscriptions == {[group |-> Call[d].group, uri |-> Call[d].uri] : d \in Dispatchers}

Received(s) ==
  UNION {got[OffsetKey(d)] : d \in {e \in Dispatchers : Call[e].group = s.group /\ Call[e].uri = s.uri}}

Owed(p, s) ==
  \E t \in Txs, r \in rows \ Received(s) :
    /\ txState[t] = "committed" /\ r.tid = xid[t]
    /\ r.pos = p
    /\ s.uri = NoFilter \/ r.uri \in Under[s.uri]

AtLeastOnce ==
  \A p \in 1..MaxPos, s \in Subscriptions : Owed(p, s) ~> ~Owed(p, s)
=============================================================================
