----------------------------- MODULE InboxProofs ----------------------------
(***************************************************************************)
(* Proofs about Inbox for any messages, dependencies, partitions, workers   *)
(* and bounds: its safety properties, and that it implements                *)
(* CausalDelivery.                                                          *)
(***************************************************************************)
EXTENDS Inbox, TLAPS

SeqInv ==
  /\ seq >= 1
  /\ \A m \in Msgs : processed[m] < seq /\ (processed[m] # None => row[m] = "stored")

\* A locked row is unprocessed and has one holder, which holds the row it works
\* on and nothing between transactions.
LockInv ==
  /\ \A v, w \in Workers : v # w => locks[v] \cap locks[w] = {}
  /\ \A w \in Workers : \A m \in locks[w] : row[m] = "stored" /\ processed[m] = None
  /\ \A w \in Workers : pc[w] \in {"idle", "stopped"} => locks[w] = {}
  /\ \A w \in Workers : cur[w] \subseteq locks[w] /\ \A m, n \in cur[w] : m = n

\* The answer of _are_dependencies_satisfied stays true until the commit.
ReadyInv ==
  \A w \in Workers : pc[w] \in {"handling", "marking", "committing"} =>
    \A m \in cur[w] : AreDependenciesSatisfied(m)

\* A place in the order of processing is drawn after those of the dependencies,
\* and by one worker.
MarkInv ==
  /\ \A w \in Workers : pc[w] = "committing" =>
       /\ marked[w] # None /\ marked[w] < seq
       /\ \A m \in Msgs : processed[m] # marked[w]
       /\ \A m \in cur[w] : \A d \in Deps[m] : processed[d] < marked[w]
  /\ \A v, w \in Workers :
       v # w /\ pc[v] = "committing" /\ pc[w] = "committing" => marked[v] # marked[w]

IInv ==
  /\ TypeOK /\ SeqInv /\ LockInv /\ ReadyInv /\ MarkInv
  /\ CausalOrder /\ ExactlyOnceEffect /\ ProcessedOrderIsTotal

-----------------------------------------------------------------------------
LEMMA TypeInit == Init => TypeOK
BY InboxAssumption DEF Init, TypeOK, Stages, None

LEMMA TypeStep == TypeOK /\ [Next]_vars => TypeOK'
<1>. USE InboxAssumption DEF TypeOK, Stages, None, tableVars, workerVars
<1>. SUFFICES ASSUME TypeOK, [Next]_vars PROVE TypeOK'
  OBVIOUS
<1>1. ASSUME NEW m \in Msgs, Publish(m) PROVE TypeOK'
  <2>1. CASE Insert(m)
    BY <2>1 DEF Insert
  <2>2. CASE CommitInsert(m)
    BY <2>2 DEF CommitInsert
  <2>3. CASE InsertDuplicate(m)
    BY <2>3 DEF InsertDuplicate
  <2>4. CASE AbortInsert(m)
    BY <2>4 DEF AbortInsert
  <2>. QED  BY <1>1, <2>1, <2>2, <2>3, <2>4 DEF Publish
<1>2. ASSUME NEW w \in Workers, Work(w) \/ Fail(w) PROVE TypeOK'
  <2>1. CASE StartDispatch(w)
    BY <2>1 DEF StartDispatch
  <2>2. CASE FetchUnprocessed(w)
    BY <2>2 DEF FetchUnprocessed, Unprocessed, Mine
  <2>3. CASE FetchNothing(w)
    <3>1. Unprocessed(w) \subseteq Msgs
      BY DEF Unprocessed, Mine
    <3>2. CASE w \in Iterators
      <4>1. /\ pc' = [pc EXCEPT ![w] = "sleeping"]
            /\ locks' = [locks EXCEPT ![w] = @ \cup Unprocessed(w)]
            /\ UNCHANGED <<tableVars, seq, offset, cur, marked, effects, dups, failures>>
        BY <2>3, <3>2 DEF FetchNothing
      <4>. QED  BY <3>1, <4>1
    <3>3. CASE w \notin Iterators
      <4>1. Release(w, "idle") /\ UNCHANGED <<tableVars, seq, effects, dups, failures>>
        BY <2>3, <3>3 DEF FetchNothing
      <4>. QED  BY <4>1 DEF Release
    <3>. QED  BY <3>2, <3>3
  <2>4. CASE EndSleep(w)
    BY <2>4 DEF EndSleep, Release
  <2>5. CASE CheckDependencies(w)
    <3>1. PICK m \in cur[w] :
            IF AreDependenciesSatisfied(m)
            THEN pc' = [pc EXCEPT ![w] = "handling"] /\ UNCHANGED offset
            ELSE /\ pc' = [pc EXCEPT ![w] = "scanning"]
                 /\ offset' = [offset EXCEPT ![w] = @ + 1]
      BY <2>5 DEF CheckDependencies
    <3>2. UNCHANGED <<tableVars, seq, locks, cur, marked, effects, dups, failures>>
      BY <2>5 DEF CheckDependencies
    <3>3. pc' \in [Workers -> Stages]
      BY <3>1
    <3>4. offset' \in [Workers -> Nat]
      BY <3>1
    <3>. QED  BY <3>2, <3>3, <3>4
  <2>6. CASE Handle(w)
    BY <2>6 DEF Handle
  <2>7. CASE MarkProcessed(w)
    BY <2>7 DEF MarkProcessed
  <2>8. CASE Commit(w)
    <3>1. PICK m \in cur[w] : /\ processed' = [processed EXCEPT ![m] = marked[w]]
                              /\ effects' = [effects EXCEPT ![m] = @ + 1]
      BY <2>8 DEF Commit
    <3>. QED  BY <2>8, <3>1 DEF Commit, Release
  <2>9. CASE Fail(w)
    BY <2>9 DEF Fail, Release
  <2>10. CASE Restart(w)
    BY <2>10 DEF Restart
  <2>. QED
    BY <1>2, <2>1, <2>2, <2>3, <2>4, <2>5, <2>6, <2>7, <2>8, <2>9, <2>10 DEF Work
<1>3. CASE UNCHANGED vars
  BY <1>3 DEF vars
<1>. QED  BY <1>1, <1>2, <1>3 DEF Next

\* Every variable keeps its type.
THEOREM TypeCorrect == Spec => []TypeOK
BY TypeInit, TypeStep, PTL DEF Spec

-----------------------------------------------------------------------------
LEMMA InvInit == Init => IInv
<1>. SUFFICES ASSUME Init PROVE IInv
  OBVIOUS
<1>1. TypeOK
  BY TypeInit
<1>. QED
  BY <1>1 DEF Init, IInv, SeqInv, LockInv, ReadyInv, MarkInv, CausalOrder,
              ExactlyOnceEffect, ProcessedOrderIsTotal, None

\* Publishers touch no row that is locked or processed.
LEMMA PublishInv ==
  ASSUME IInv, NEW p \in Msgs, Publish(p)
  PROVE  IInv'
<1>. USE InboxAssumption DEF IInv, None
<1>0. TypeOK'
  BY TypeStep DEF Next
<1>1. UNCHANGED <<processed, effects, pc, locks, cur, marked>> /\ seq' \in {seq, seq + 1}
  BY DEF Publish, Insert, CommitInsert, InsertDuplicate, AbortInsert, tableVars,
         workerVars, TypeOK
<1>2. \A m \in Msgs : row[m] = "stored" => row'[m] = "stored"
  BY DEF Publish, Insert, CommitInsert, InsertDuplicate, AbortInsert, tableVars, TypeOK
<1>3. SeqInv' /\ LockInv'
  BY <1>1, <1>2 DEF SeqInv, LockInv, TypeOK
<1>4. ReadyInv' /\ MarkInv'
  BY <1>1 DEF ReadyInv, MarkInv, AreDependenciesSatisfied, TypeOK, SeqInv
<1>5. CausalOrder' /\ ExactlyOnceEffect' /\ ProcessedOrderIsTotal'
  BY <1>1 DEF CausalOrder, ExactlyOnceEffect, ProcessedOrderIsTotal
<1>. QED  BY <1>0, <1>3, <1>4, <1>5

\* A transaction that ends without commit, and a restart.
LEMMA ReleaseInv ==
  ASSUME IInv, NEW w \in Workers, NEW to \in {"idle", "stopped"}, Release(w, to),
         TypeOK', UNCHANGED <<row, processed, seq, effects>>
  PROVE  IInv'
<1>. USE DEF IInv, Release, None
<1>1. SeqInv' /\ LockInv'
  BY DEF SeqInv, LockInv, TypeOK
<1>2. ReadyInv' /\ MarkInv'
  BY DEF ReadyInv, MarkInv, AreDependenciesSatisfied, TypeOK
<1>3. CausalOrder' /\ ExactlyOnceEffect' /\ ProcessedOrderIsTotal'
  BY DEF CausalOrder, ExactlyOnceEffect, ProcessedOrderIsTotal
<1>. QED  BY <1>1, <1>2, <1>3

\* Steps that move a worker on without touching the tables.
LEMMA ScanInv ==
  ASSUME IInv, NEW w \in Workers,
         \/ StartDispatch(w) \/ FetchUnprocessed(w) \/ FetchNothing(w) \/ EndSleep(w)
         \/ CheckDependencies(w) \/ Handle(w) \/ Restart(w) \/ Fail(w)
  PROVE  IInv'
<1>. USE InboxAssumption DEF IInv, None, tableVars, workerVars
<1>0. TypeOK'
  BY TypeStep DEF Next, Work
<1>1. CASE (FetchNothing(w) /\ w \notin Iterators) \/ EndSleep(w) \/ Fail(w)
  BY <1>0, <1>1, ReleaseInv DEF FetchNothing, EndSleep, Fail
<1>2. CASE \/ StartDispatch(w) \/ FetchUnprocessed(w) \/ (FetchNothing(w) /\ w \in Iterators)
           \/ CheckDependencies(w) \/ Handle(w) \/ Restart(w)
  <2>1. UNCHANGED <<row, processed, seq, effects, marked>>
    BY <1>2 DEF StartDispatch, FetchUnprocessed, FetchNothing, CheckDependencies, Handle, Restart
  <2>2. \A v \in Workers : v # w => pc'[v] = pc[v] /\ locks'[v] = locks[v] /\ cur'[v] = cur[v]
    BY <1>2 DEF StartDispatch, FetchUnprocessed, FetchNothing, CheckDependencies, Handle, Restart, TypeOK
  <2>3. pc'[w] # "committing"
    BY <1>2 DEF StartDispatch, FetchUnprocessed, FetchNothing, CheckDependencies, Handle, Restart, TypeOK
  <2>4. LockInv'
    <3>1. CASE StartDispatch(w) \/ CheckDependencies(w) \/ Handle(w) \/ Restart(w)
      <4>1. UNCHANGED <<locks, cur>> /\ pc[w] \in Stages
        BY <3>1 DEF StartDispatch, CheckDependencies, Handle, Restart, TypeOK
      <4>2. pc'[w] \in {"idle", "stopped"} => pc[w] \in {"idle", "stopped"}
        BY <3>1 DEF StartDispatch, CheckDependencies, Handle, Restart, TypeOK
      <4>. QED  BY <2>1, <2>2, <4>1, <4>2 DEF LockInv
    <3>2. CASE FetchUnprocessed(w)
      <4>1. PICK b \in SUBSET Unprocessed(w), m \in Msgs :
              /\ Scanned(Unprocessed(w), offset[w], b, m)
              /\ locks' = [locks EXCEPT ![w] = @ \cup b]
              /\ cur' = [cur EXCEPT ![w] = {m}]
        BY <3>2 DEF FetchUnprocessed
      <4>2. m \in b
        BY <4>1 DEF Scanned
      <4>3. pc'[w] = "checking"
        BY <3>2 DEF FetchUnprocessed, TypeOK
      <4>. QED  BY <2>1, <2>2, <4>1, <4>2, <4>3 DEF LockInv, Unprocessed, Mine, TypeOK
    <3>3. CASE FetchNothing(w) /\ w \in Iterators
      <4>1. locks' = [locks EXCEPT ![w] = @ \cup Unprocessed(w)] /\ UNCHANGED cur
        BY <3>3 DEF FetchNothing
      <4>2. pc'[w] = "sleeping"
        BY <3>3 DEF FetchNothing, TypeOK
      <4>3. /\ \A m \in Unprocessed(w) : row[m] = "stored" /\ processed[m] = None
            /\ \A v \in Workers : v # w => Unprocessed(w) \cap locks[v] = {}
        BY DEF Unprocessed
      <4>. QED  BY <2>1, <2>2, <4>1, <4>2, <4>3 DEF LockInv, TypeOK
    <3>. QED  BY <1>2, <3>1, <3>2, <3>3
  <2>5. ReadyInv'
    <3>1. \A m \in Msgs : AreDependenciesSatisfied(m) => AreDependenciesSatisfied(m)'
      BY <2>1 DEF AreDependenciesSatisfied
    <3>2. ASSUME pc'[w] \in {"handling", "marking", "committing"}, NEW m \in cur'[w]
          PROVE  AreDependenciesSatisfied(m)'
      <4>1. CheckDependencies(w) \/ Handle(w)
        BY <1>2, <3>2 DEF StartDispatch, FetchUnprocessed, FetchNothing, Restart, TypeOK
      <4>2. cur'[w] = cur[w] /\ m \in Msgs
        BY <4>1, <3>2 DEF CheckDependencies, Handle, TypeOK
      <4>3. AreDependenciesSatisfied(m)
        BY <4>1, <4>2, <3>2 DEF CheckDependencies, Handle, ReadyInv, LockInv, TypeOK
      <4>. QED  BY <3>1, <4>2, <4>3
    <3>. QED  BY <2>2, <3>1, <3>2 DEF ReadyInv, TypeOK
  <2>6. MarkInv'
    BY <2>1, <2>2, <2>3 DEF MarkInv, TypeOK
  <2>7. SeqInv' /\ CausalOrder' /\ ExactlyOnceEffect' /\ ProcessedOrderIsTotal'
    BY <2>1 DEF SeqInv, CausalOrder, ExactlyOnceEffect, ProcessedOrderIsTotal
  <2>. QED  BY <1>0, <2>4, <2>5, <2>6, <2>7
<1>. QED  BY <1>1, <1>2

\* The place drawn is above every place given or drawn before.
LEMMA MarkProcessedInv ==
  ASSUME IInv, NEW w \in Workers, MarkProcessed(w)
  PROVE  IInv'
<1>. USE InboxAssumption DEF IInv, None, tableVars, workerVars
<1>0. TypeOK'
  BY TypeStep DEF Next, Work
<1>1. UNCHANGED <<row, processed, effects, locks, cur>> /\ seq' = seq + 1
  BY DEF MarkProcessed
<1>2. \A v \in Workers : v # w => pc'[v] = pc[v] /\ marked'[v] = marked[v]
  BY DEF MarkProcessed, TypeOK
<1>3. pc[w] = "marking" /\ pc'[w] = "committing" /\ marked'[w] = seq
  BY DEF MarkProcessed, TypeOK
<1>4. SeqInv' /\ LockInv'
  BY <1>1, <1>2, <1>3 DEF SeqInv, LockInv, TypeOK
<1>5. ReadyInv'
  BY <1>1, <1>2, <1>3 DEF ReadyInv, AreDependenciesSatisfied, TypeOK
<1>6. MarkInv'
  <2>1. \A m \in cur[w] : \A d \in Deps[m] : d \in Msgs /\ processed[d] < seq
    BY DEF SeqInv, TypeOK
  <2>2. /\ marked'[w] # None /\ marked'[w] < seq'
        /\ \A m \in Msgs : processed'[m] # marked'[w]
        /\ \A m \in cur'[w] : \A d \in Deps[m] : processed'[d] < marked'[w]
    BY <1>1, <1>3, <2>1 DEF SeqInv, TypeOK
  <2>3. ASSUME NEW v \in Workers, v # w, pc'[v] = "committing"
        PROVE  /\ marked'[v] # None /\ marked'[v] < seq' /\ marked'[v] # marked'[w]
               /\ \A m \in Msgs : processed'[m] # marked'[v]
               /\ \A m \in cur'[v] : \A d \in Deps[m] : processed'[d] < marked'[v]
    BY <1>1, <1>2, <1>3, <2>3 DEF MarkInv, TypeOK
  <2>4. \A u, v \in Workers :
          u # v /\ pc'[u] = "committing" /\ pc'[v] = "committing" => marked'[u] # marked'[v]
    BY <1>2, <2>3 DEF MarkInv
  <2>. QED  BY <2>2, <2>3, <2>4 DEF MarkInv
<1>7. CausalOrder' /\ ExactlyOnceEffect' /\ ProcessedOrderIsTotal'
  BY <1>1 DEF CausalOrder, ExactlyOnceEffect, ProcessedOrderIsTotal
<1>. QED  BY <1>0, <1>4, <1>5, <1>6, <1>7

\* What a commit does, in terms of the one message it is about.
LEMMA CommitOne ==
  ASSUME IInv, NEW w \in Workers, Commit(w)
  PROVE  \E m \in cur[w] :
           /\ m \in Msgs /\ row[m] = "stored" /\ processed[m] = None
           /\ marked[w] # None
           /\ \A d \in Deps[m] : d \in Msgs /\ processed[d] # None /\ processed[d] < marked[w]
           /\ processed' = [processed EXCEPT ![m] = marked[w]]
           /\ effects' = [effects EXCEPT ![m] = @ + 1]
<1>1. PICK m \in cur[w] : /\ processed' = [processed EXCEPT ![m] = marked[w]]
                          /\ effects' = [effects EXCEPT ![m] = @ + 1]
  BY DEF Commit
<1>2. m \in Msgs /\ row[m] = "stored" /\ processed[m] = None
  BY DEF IInv, TypeOK, LockInv
<1>3. pc[w] = "committing"
  BY DEF Commit
<1>4. marked[w] # None /\ \A d \in Deps[m] : processed[d] < marked[w]
  BY <1>3 DEF IInv, MarkInv
<1>5. \A d \in Deps[m] : d \in Msgs /\ processed[d] # None
  BY <1>2, <1>3, InboxAssumption DEF IInv, ReadyInv, AreDependenciesSatisfied
<1>. QED  BY <1>1, <1>2, <1>4, <1>5

LEMMA CommitInv ==
  ASSUME IInv, NEW w \in Workers, Commit(w)
  PROVE  IInv'
<1>. USE InboxAssumption DEF IInv, None
<1>0. TypeOK'
  BY TypeStep DEF Next, Work
<1>1. PICK m \in cur[w] :
        /\ m \in Msgs /\ row[m] = "stored" /\ processed[m] = None
        /\ marked[w] # None
        /\ \A d \in Deps[m] : d \in Msgs /\ processed[d] # None /\ processed[d] < marked[w]
        /\ processed' = [processed EXCEPT ![m] = marked[w]]
        /\ effects' = [effects EXCEPT ![m] = @ + 1]
  BY CommitOne
<1>2. UNCHANGED <<row, seq>> /\ pc[w] = "committing" /\ Release(w, "idle")
  BY DEF Commit
<1>3. marked[w] < seq /\ \A n \in Msgs : processed[n] # marked[w]
  BY <1>2 DEF MarkInv
<1>4. m \in locks[w] /\ \A n \in Msgs : n # m => processed'[n] = processed[n]
  BY <1>1 DEF LockInv, TypeOK
<1>5. processed'[m] = marked[w] /\ marked[w] \in Nat
  BY <1>1 DEF TypeOK
<1>6. \A v \in Workers : v # w =>
        pc'[v] = pc[v] /\ locks'[v] = locks[v] /\ cur'[v] = cur[v] /\ marked'[v] = marked[v]
  BY <1>2 DEF Release, TypeOK
<1>7. pc'[w] = "idle" /\ locks'[w] = {} /\ cur'[w] = {}
  BY <1>2 DEF Release, TypeOK
<1>8. SeqInv'
  BY <1>1, <1>2, <1>3, <1>4, <1>5 DEF SeqInv, TypeOK
<1>9. LockInv'
  <2>1. \A v \in Workers : v # w => m \notin locks[v]
    BY <1>4 DEF LockInv
  <2>2. \A v \in Workers : locks'[v] \subseteq locks[v] /\ cur'[v] \subseteq cur[v]
    BY <1>6, <1>7
  <2>3. \A v \in Workers : \A n \in locks'[v] : row'[n] = "stored" /\ processed'[n] = None
    BY <1>2, <1>4, <1>6, <1>7, <2>1 DEF LockInv, TypeOK
  <2>4. \A u, v \in Workers : u # v => locks'[u] \cap locks'[v] = {}
    BY <2>2 DEF LockInv
  <2>. QED  BY <1>6, <1>7, <2>2, <2>3, <2>4 DEF LockInv
<1>10. ReadyInv'
  <2>1. \A n \in Msgs : AreDependenciesSatisfied(n) => AreDependenciesSatisfied(n)'
    BY <1>1, <1>4, <1>5 DEF AreDependenciesSatisfied
  <2>. QED  BY <1>6, <1>7, <2>1 DEF ReadyInv, TypeOK
<1>11. MarkInv'
  <2>1. ASSUME NEW v \in Workers, v # w, pc[v] = "committing"
        PROVE  /\ marked[v] # None /\ marked[v] < seq
               /\ \A n \in Msgs : processed'[n] # marked[v]
               /\ \A n \in cur[v] : \A d \in Deps[n] : processed'[d] < marked[v]
    <3>1. marked[v] # marked[w] /\ marked[v] # None /\ marked[v] < seq
      BY <1>2, <2>1 DEF MarkInv
    <3>2. \A n \in Msgs : processed'[n] # marked[v]
      BY <1>4, <1>5, <2>1, <3>1 DEF MarkInv
    <3>3. ASSUME NEW n \in cur[v], NEW d \in Deps[n] PROVE processed'[d] < marked[v]
      <4>1. n \in Msgs /\ d \in Msgs
        BY DEF TypeOK
      <4>2. processed[d] # None /\ processed[d] < marked[v]
        BY <2>1, <4>1 DEF ReadyInv, AreDependenciesSatisfied, MarkInv
      <4>. QED  BY <1>1, <1>4, <4>1, <4>2
    <3>. QED  BY <3>1, <3>2, <3>3
  <2>2. \A v \in Workers : pc'[v] = "committing" => v # w /\ pc[v] = "committing"
    BY <1>6, <1>7
  <2>3. \A u, v \in Workers :
          u # v /\ pc'[u] = "committing" /\ pc'[v] = "committing" => marked'[u] # marked'[v]
    BY <1>6, <2>2 DEF MarkInv
  <2>. QED  BY <1>2, <1>6, <2>1, <2>2, <2>3 DEF MarkInv
<1>12. CausalOrder'
  <2>1. ASSUME NEW n \in Msgs, processed'[n] # None, NEW d \in Deps[n]
        PROVE  processed'[d] # None /\ processed'[d] < processed'[n]
    <3>1. d \in Msgs
      OBVIOUS
    <3>2. CASE n = m
      BY <1>1, <1>4, <1>5, <3>1, <3>2 DEF TypeOK
    <3>3. CASE n # m
      <4>1. processed[d] # None /\ processed[d] < processed[n]
        BY <1>4, <2>1, <3>3 DEF CausalOrder
      <4>. QED  BY <1>1, <1>4, <3>1, <3>3, <4>1
    <3>. QED  BY <3>2, <3>3
  <2>. QED  BY <2>1 DEF CausalOrder
<1>13. ExactlyOnceEffect'
  BY <1>1, <1>4, <1>5 DEF ExactlyOnceEffect, TypeOK
<1>14. ProcessedOrderIsTotal'
  BY <1>1, <1>3, <1>4, <1>5 DEF ProcessedOrderIsTotal
<1>. QED  BY <1>0, <1>8, <1>9, <1>10, <1>11, <1>12, <1>13, <1>14

LEMMA InvStep == IInv /\ [Next]_vars => IInv'
<1>. SUFFICES ASSUME IInv, [Next]_vars PROVE IInv'
  OBVIOUS
<1>1. ASSUME NEW m \in Msgs, Publish(m) PROVE IInv'
  BY <1>1, PublishInv
<1>2. ASSUME NEW w \in Workers, Work(w) \/ Fail(w) PROVE IInv'
  BY <1>2, ScanInv, MarkProcessedInv, CommitInv DEF Work
<1>3. CASE UNCHANGED vars
  BY <1>3 DEF vars, tableVars, workerVars, IInv, TypeOK, SeqInv, LockInv, ReadyInv, MarkInv,
              AreDependenciesSatisfied, CausalOrder, ExactlyOnceEffect, ProcessedOrderIsTotal
<1>. QED  BY <1>1, <1>2, <1>3 DEF Next

LEMMA Invariance == Spec => []IInv
BY InvInit, InvStep, PTL DEF Spec

-----------------------------------------------------------------------------
\* Messages are processed after their causal dependencies, also in the order of
\* processed_position.
THEOREM CausalConsistency == Spec => []CausalOrder
<1>1. IInv => CausalOrder
  BY DEF IInv
<1>. QED  BY <1>1, Invariance, PTL

\* The subscriber's effects are applied exactly once for a processed message.
THEOREM ExactlyOnce == Spec => []ExactlyOnceEffect
<1>1. IInv => ExactlyOnceEffect
  BY DEF IInv
<1>. QED  BY <1>1, Invariance, PTL

\* No two messages share a processed_position.
THEOREM TotalOrder == Spec => []ProcessedOrderIsTotal
<1>1. IInv => ProcessedOrderIsTotal
  BY DEF IInv
<1>. QED  BY <1>1, Invariance, PTL

\* Only a commit gives a message its place.
LEMMA OnlyCommitProcesses ==
  ASSUME IInv, [Next]_vars
  PROVE  \/ UNCHANGED <<processed, effects>>
         \/ \E w \in Workers : Commit(w)
BY DEF Next, Publish, Work, Insert, CommitInsert, InsertDuplicate, AbortInsert, StartDispatch,
       FetchUnprocessed, FetchNothing, EndSleep, CheckDependencies, Handle, MarkProcessed, Fail,
       Restart, vars, tableVars

\* A processed message stays processed, at its place.
THEOREM ProcessedStays == Spec => ProcessedForGood
<1>1. ASSUME IInv, [Next]_vars, NEW m \in Msgs, processed[m] # None
      PROVE  processed'[m] = processed[m]
  <2>1. ASSUME NEW w \in Workers, Commit(w) PROVE processed'[m] = processed[m]
    BY <1>1, <2>1, CommitOne DEF IInv, TypeOK
  <2>. QED  BY <1>1, <2>1, OnlyCommitProcesses
<1>2. IInv /\ [Next]_vars
      => [\A m \in Msgs : processed[m] # None => processed'[m] = processed[m]]_vars
  BY <1>1
<1>. QED  BY <1>2, Invariance, PTL DEF Spec, ProcessedForGood

-----------------------------------------------------------------------------
\* The inbox implements causal delivery: a stored row is an arrival, the commit
\* of a dispatch applies its message, and every other step is invisible.
THEOREM InboxImplementsCausalDelivery == Spec => ImplementsCausalDelivery
<1>1. Init => Delivery!Init
  BY DEF Init, Delivery!Init
<1>2. IInv /\ [Next]_vars => [Delivery!Next]_(Delivery!vars)
  <2>. SUFFICES ASSUME IInv, [Next]_vars PROVE [Delivery!Next]_(Delivery!vars)
    OBVIOUS
  <2>. USE DEF Delivery!vars
  <2>1. ASSUME NEW w \in Workers, Commit(w) PROVE [Delivery!Next]_(Delivery!vars)
    <3>1. PICK m \in cur[w] :
            /\ m \in Msgs /\ row[m] = "stored" /\ processed[m] = None
            /\ marked[w] # None
            /\ \A d \in Deps[m] : d \in Msgs /\ processed[d] # None /\ processed[d] < marked[w]
            /\ processed' = [processed EXCEPT ![m] = marked[w]]
            /\ effects' = [effects EXCEPT ![m] = @ + 1]
      BY <2>1, CommitOne
    <3>2. {n \in Msgs : processed'[n] # None} = {n \in Msgs : processed[n] # None} \cup {m}
      BY <3>1 DEF IInv, TypeOK
    <3>3. UNCHANGED row
      BY <2>1 DEF Commit
    <3>4. Delivery!Apply(m)
      BY <3>1, <3>2, <3>3 DEF Delivery!Apply
    <3>. QED  BY <3>1, <3>4 DEF Delivery!Next
  <2>2. ASSUME NEW m \in Msgs, CommitInsert(m) PROVE [Delivery!Next]_(Delivery!vars)
    <3>1. {n \in Msgs : row'[n] = "stored"} = {n \in Msgs : row[n] = "stored"} \cup {m}
      BY <2>2 DEF CommitInsert, IInv, TypeOK
    <3>2. row[m] # "stored" /\ UNCHANGED <<processed, effects>>
      BY <2>2 DEF CommitInsert
    <3>3. Delivery!Arrive(m)
      BY <3>1, <3>2 DEF Delivery!Arrive
    <3>. QED  BY <3>3 DEF Delivery!Next
  <2>3. ASSUME \A w \in Workers : ~Commit(w), \A m \in Msgs : ~CommitInsert(m)
        PROVE  UNCHANGED Delivery!vars
    <3>1. UNCHANGED <<processed, effects>>
      BY <2>3, OnlyCommitProcesses
    <3>2. \A n \in Msgs : row'[n] = "stored" <=> row[n] = "stored"
      BY <2>3 DEF Next, Publish, Work, Insert, InsertDuplicate, AbortInsert, StartDispatch,
                  FetchUnprocessed, FetchNothing, EndSleep, CheckDependencies, Handle,
                  MarkProcessed, Fail, Restart, vars, tableVars, IInv, TypeOK
    <3>. QED  BY <3>1, <3>2
  <2>. QED  BY <2>1, <2>2, <2>3
<1>. QED
  BY <1>1, <1>2, Invariance, PTL DEF Spec, ImplementsCausalDelivery, Delivery!Spec
=============================================================================
