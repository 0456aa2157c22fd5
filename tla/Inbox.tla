-------------------------------- MODULE Inbox -------------------------------
(***************************************************************************)
(* The transactional inbox (ascetic_ddd/inbox/inbox.py) over one PostgreSQL *)
(* database in READ COMMITTED.  Publishers store messages; workers scan the *)
(* unprocessed ones in order of arrival with OFFSET n FOR UPDATE SKIP        *)
(* LOCKED, pass over those whose causal dependencies are not processed, and *)
(* run the subscriber in the transaction that marks the message processed.  *)
(***************************************************************************)
EXTENDS Integers, FiniteSets

CONSTANTS
  Msgs,         \* the messages, by primary key
  Deps,         \* Deps[m]: causal_dependencies of the metadata
  Hash,         \* Hash[m]: hashtext() of m's partition key, signed
  Workers,      \* the worker loops of run() and the loops over the iterator
  Args,         \* Args[w]: worker_id and num_workers passed to dispatch()
  Iterators,    \* the workers that read `async for session, message in inbox`
  MaxDup,       \* bound: deliveries of a message that is already stored
  MaxFailures   \* bound: exceptions of subscribers and crashes of workers

ASSUME InboxAssumption ==
  /\ Deps \in [Msgs -> SUBSET Msgs]
  /\ Hash \in [Msgs -> Int]
  /\ Args \in [Workers -> [worker: Nat, workers: Nat \ {0}]]
  /\ Iterators \subseteq Workers
  /\ \A w \in Iterators : Args[w] = [worker |-> 0, workers |-> 1]
  /\ MaxDup \in Nat /\ MaxFailures \in Nat

\* The sign of SQL's a % n is the sign of a.
SqlMod(a, n) == IF a >= 0 THEN a % n ELSE -((-a) % n)

\* The partition filter of worker w.
Mine(w) ==
  {m \in Msgs : Args[w].workers > 1 => SqlMod(Hash[m], Args[w].workers) = Args[w].worker}

None == 0

VARIABLES
  row,        \* row[m]: "absent", "inserting" (uncommitted) or "stored"
  received,   \* received[m]: received_position
  processed,  \* processed[m]: processed_position, None for NULL
  seq,        \* the sequence of both positions
  pc,         \* pc[w]: where worker w is
  locks,      \* locks[w]: the rows locked by w's transaction
  offset,     \* offset[w]: the OFFSET of w's next fetch
  cur,        \* cur[w]: the row fetched last
  marked,     \* marked[w]: the processed_position w has written, uncommitted
  effects,    \* effects[m]: committed effects of subscriber(session, m)
  dups,       \* duplicate deliveries so far
  failures    \* exceptions and crashes so far

tableVars  == <<row, received, processed>>
workerVars == <<pc, locks, offset, cur, marked>>
vars == <<tableVars, seq, workerVars, effects, dups, failures>>

Stages == {"idle", "scanning", "checking", "handling", "marking", "committing",
           "sleeping", "stopped"}

TypeOK ==
  /\ row \in [Msgs -> {"absent", "inserting", "stored"}]
  /\ received \in [Msgs -> Nat]
  /\ processed \in [Msgs -> Nat]
  /\ seq \in Nat
  /\ pc \in [Workers -> Stages]
  /\ locks \in [Workers -> SUBSET Msgs]
  /\ offset \in [Workers -> Nat]
  /\ cur \in [Workers -> SUBSET Msgs]
  /\ marked \in [Workers -> Nat]
  /\ effects \in [Msgs -> Nat]
  /\ dups \in Nat /\ failures \in Nat

Init ==
  /\ row = [m \in Msgs |-> "absent"]
  /\ received = [m \in Msgs |-> None]
  /\ processed = [m \in Msgs |-> None]
  /\ seq = 1
  /\ pc = [w \in Workers |-> "idle"]
  /\ locks = [w \in Workers |-> {}]
  /\ offset = [w \in Workers |-> 0]
  /\ cur = [w \in Workers |-> {}]
  /\ marked = [w \in Workers |-> None]
  /\ effects = [m \in Msgs |-> 0]
  /\ dups = 0 /\ failures = 0

-----------------------------------------------------------------------------
(***************************************************************************)
(* publish(): one INSERT in a transaction of its own.                       *)
(***************************************************************************)

Insert(m) ==
  /\ row[m] = "absent"
  /\ row' = [row EXCEPT ![m] = "inserting"]
  /\ received' = [received EXCEPT ![m] = seq]
  /\ seq' = seq + 1
  /\ UNCHANGED <<processed, workerVars, effects, dups, failures>>

CommitInsert(m) ==
  /\ row[m] = "inserting"
  /\ row' = [row EXCEPT ![m] = "stored"]
  /\ UNCHANGED <<received, processed, seq, workerVars, effects, dups, failures>>

\* Bug: ON CONFLICT DO UPDATE stores the duplicate as a new message.
InsertDuplicateUpdates(m) ==
  /\ row[m] = "stored"
  /\ dups < MaxDup
  /\ \A w \in Workers : m \notin locks[w]
  /\ dups' = dups + 1
  /\ received' = [received EXCEPT ![m] = seq]
  /\ processed' = [processed EXCEPT ![m] = None]
  /\ seq' = seq + 1
  /\ UNCHANGED <<row, workerVars, effects, failures>>

\* ON CONFLICT DO NOTHING: a duplicate uses up a sequence value.  While the
\* first insert is uncommitted the duplicate waits for it.
InsertDuplicate(m) ==
  /\ row[m] = "stored"
  /\ dups < MaxDup
  /\ dups' = dups + 1
  /\ seq' = seq + 1
  /\ UNCHANGED <<tableVars, workerVars, effects, failures>>

\* The publisher fails before its commit: the row is gone, the broker redelivers.
AbortInsert(m) ==
  /\ row[m] = "inserting"
  /\ failures < MaxFailures
  /\ failures' = failures + 1
  /\ row' = [row EXCEPT ![m] = "absent"]
  /\ received' = [received EXCEPT ![m] = None]
  /\ UNCHANGED <<processed, seq, workerVars, effects, dups>>

-----------------------------------------------------------------------------
(***************************************************************************)
(* dispatch() and the iterator.                                             *)
(***************************************************************************)

StartDispatch(w) ==
  /\ pc[w] = "idle"
  /\ pc' = [pc EXCEPT ![w] = "scanning"]
  /\ offset' = [offset EXCEPT ![w] = 0]
  /\ UNCHANGED <<tableVars, seq, locks, cur, marked, effects, dups, failures>>

\* Bug: the fetch without FOR UPDATE.
UnprocessedUnlocked(w) ==
  {m \in Mine(w) : row[m] = "stored" /\ processed[m] = None}

\* The rows a fetch of w can lock: unprocessed, of its partition, not locked by
\* another transaction.
Unprocessed(w) ==
  {m \in Mine(w) : /\ row[m] = "stored" /\ processed[m] = None
                   /\ \A v \in Workers : v # w => m \notin locks[v]}

\* ORDER BY received_position LIMIT 1 OFFSET n FOR UPDATE SKIP LOCKED: the
\* n rows passed over by OFFSET are locked as well as the one returned.
Scanned(S, n, b, m) ==
  /\ b \subseteq S /\ Cardinality(b) = n + 1 /\ m \in b
  /\ \A x \in b : received[x] <= received[m]
  /\ \A x \in S \ b : received[m] < received[x]

FetchUnprocessed(w) ==
  /\ pc[w] = "scanning"
  /\ \E b \in SUBSET Unprocessed(w), m \in Msgs :
       /\ Scanned(Unprocessed(w), offset[w], b, m)
       /\ locks' = [locks EXCEPT ![w] = @ \cup b]
       /\ cur' = [cur EXCEPT ![w] = {m}]
  /\ pc' = [pc EXCEPT ![w] = "checking"]
  /\ UNCHANGED <<tableVars, seq, offset, marked, effects, dups, failures>>

\* The transaction of w ends without effect and its locks are released.
Release(w, to) ==
  /\ pc' = [pc EXCEPT ![w] = to]
  /\ locks' = [locks EXCEPT ![w] = {}]
  /\ cur' = [cur EXCEPT ![w] = {}]
  /\ marked' = [marked EXCEPT ![w] = None]
  /\ UNCHANGED offset

\* OFFSET is past the last row: dispatch() returns False; the iterator sleeps
\* inside the transaction, holding the rows it has scanned.
FetchNothing(w) ==
  /\ pc[w] = "scanning"
  /\ Cardinality(Unprocessed(w)) <= offset[w]
  /\ IF w \in Iterators
       THEN /\ pc' = [pc EXCEPT ![w] = "sleeping"]
            /\ locks' = [locks EXCEPT ![w] = @ \cup Unprocessed(w)]
            /\ UNCHANGED <<offset, cur, marked>>
       ELSE Release(w, "idle")
  /\ UNCHANGED <<tableVars, seq, effects, dups, failures>>

EndSleep(w) ==
  /\ pc[w] = "sleeping"
  /\ Release(w, "idle")
  /\ UNCHANGED <<tableVars, seq, effects, dups, failures>>

\* Bug: a dependency counts once it has been received.
AreDependenciesReceived(m) == \A d \in Deps[m] : row[d] = "stored"

AreDependenciesSatisfied(m) == \A d \in Deps[m] : processed[d] # None

\* Bug: a blocked message ends the scan.
CheckDependenciesOfHead(w) ==
  /\ pc[w] = "checking"
  /\ \E m \in cur[w] :
       IF AreDependenciesSatisfied(m)
       THEN /\ pc' = [pc EXCEPT ![w] = "handling"]
            /\ UNCHANGED <<locks, offset, cur, marked>>
       ELSE Release(w, "idle")
  /\ UNCHANGED <<tableVars, seq, effects, dups, failures>>

CheckDependencies(w) ==
  /\ pc[w] = "checking"
  /\ \E m \in cur[w] :
       IF AreDependenciesSatisfied(m)
       THEN pc' = [pc EXCEPT ![w] = "handling"] /\ UNCHANGED offset
       ELSE /\ pc' = [pc EXCEPT ![w] = "scanning"]
            /\ offset' = [offset EXCEPT ![w] = @ + 1]
  /\ UNCHANGED <<tableVars, seq, locks, cur, marked, effects, dups, failures>>

\* subscriber(session, message): its effects are part of w's transaction.
Handle(w) ==
  /\ pc[w] = "handling"
  /\ pc' = [pc EXCEPT ![w] = "marking"]
  /\ UNCHANGED <<tableVars, seq, locks, offset, cur, marked, effects, dups, failures>>

\* Bug: MAX(processed_position) + 1 in place of the sequence.
MarkProcessedByMax(w) ==
  /\ pc[w] = "marking"
  /\ \E m \in Msgs :
       /\ \A n \in Msgs : processed[n] <= processed[m]
       /\ marked' = [marked EXCEPT ![w] = processed[m] + 1]
  /\ pc' = [pc EXCEPT ![w] = "committing"]
  /\ UNCHANGED <<tableVars, seq, locks, offset, cur, effects, dups, failures>>

\* _mark_processed takes the next value of the sequence received_position uses.
MarkProcessed(w) ==
  /\ pc[w] = "marking"
  /\ marked' = [marked EXCEPT ![w] = seq]
  /\ seq' = seq + 1
  /\ pc' = [pc EXCEPT ![w] = "committing"]
  /\ UNCHANGED <<tableVars, locks, offset, cur, effects, dups, failures>>

\* The effects and the mark become visible together.
Commit(w) ==
  /\ pc[w] = "committing"
  /\ \E m \in cur[w] : /\ processed' = [processed EXCEPT ![m] = marked[w]]
                       /\ effects' = [effects EXCEPT ![m] = @ + 1]
  /\ Release(w, "idle")
  /\ UNCHANGED <<row, received, seq, dups, failures>>

\* Bug: the subscriber's effects survive the rollback.
FailKeepsEffects(w) ==
  /\ pc[w] \notin {"idle", "stopped"}
  /\ failures < MaxFailures
  /\ failures' = failures + 1
  /\ effects' = IF pc[w] \in {"marking", "committing"}
                THEN [m \in Msgs |-> effects[m] + IF m \in cur[w] THEN 1 ELSE 0]
                ELSE effects
  /\ Release(w, "stopped")
  /\ UNCHANGED <<tableVars, seq, dups>>

\* An exception or a crash anywhere in the transaction rolls it back, and leaves
\* the loop.
Fail(w) ==
  /\ pc[w] \notin {"idle", "stopped"}
  /\ failures < MaxFailures
  /\ failures' = failures + 1
  /\ Release(w, "stopped")
  /\ UNCHANGED <<tableVars, seq, effects, dups>>

\* run() is called again.
Restart(w) ==
  /\ pc[w] = "stopped"
  /\ pc' = [pc EXCEPT ![w] = "idle"]
  /\ UNCHANGED <<tableVars, seq, locks, offset, cur, marked, effects, dups, failures>>

Publish(m) == Insert(m) \/ CommitInsert(m) \/ InsertDuplicate(m) \/ AbortInsert(m)

Work(w) ==
  \/ StartDispatch(w)
  \/ FetchUnprocessed(w)
  \/ FetchNothing(w)
  \/ EndSleep(w)
  \/ CheckDependencies(w)
  \/ Handle(w)
  \/ MarkProcessed(w)
  \/ Commit(w)
  \/ Restart(w)

Next == (\E m \in Msgs : Publish(m)) \/ (\E w \in Workers : Work(w) \/ Fail(w))

Spec == Init /\ [][Next]_vars

\* Worker loops keep running and restart after a failure; a publisher's
\* transaction ends.  Nothing makes a message arrive.
FairSpec == /\ Spec
            /\ \A w \in Workers : WF_vars(Work(w))
            /\ \A m \in Msgs : WF_vars(CommitInsert(m))

-----------------------------------------------------------------------------
(***************************************************************************)
(* Safety.                                                                  *)
(***************************************************************************)

\* "Messages are processed only after their causal dependencies": in the order
\* of processed_position too, although it is drawn before the commit.
CausalOrder ==
  \A m \in Msgs : processed[m] # None =>
    \A d \in Deps[m] : processed[d] # None /\ processed[d] < processed[m]

\* The subscriber's effects are applied exactly once for a processed message and
\* not at all for another, whatever workers, duplicates and failures do.
ExactlyOnceEffect ==
  \A m \in Msgs : effects[m] = IF processed[m] = None THEN 0 ELSE 1

\* A duplicate delivery, a crash or another worker never makes a processed message
\* unprocessed or gives it another place.
ProcessedForGood ==
  [][\A m \in Msgs : processed[m] # None => processed'[m] = processed[m]]_vars

\* Concurrent workers never give two messages one place in the order of
\* processing.
ProcessedOrderIsTotal ==
  \A m, n \in Msgs : processed[m] = processed[n] /\ processed[m] # None => m = n

(***************************************************************************)
(* Liveness.                                                                *)
(***************************************************************************)

\* "Reliable message processing": once a message and what it depends on have
\* arrived, a blocked message ahead of it, other workers' locks and failures do
\* not keep it from being processed.
Ready(m) == row[m] = "stored" /\ \A d \in Deps[m] : processed[d] # None

EventuallyProcessed == \A m \in Msgs : Ready(m) ~> processed[m] # None

-----------------------------------------------------------------------------
\* Every behaviour of the inbox is one of causal delivery.
Delivery == INSTANCE CausalDelivery WITH
  arrived <- {m \in Msgs : row[m] = "stored"},
  applied <- {m \in Msgs : processed[m] # None}

ImplementsCausalDelivery == Delivery!Spec
=============================================================================
