---------------------------- MODULE OutboxProofs ----------------------------
(***************************************************************************)
(* Proofs of the safety properties of Outbox, and that it implements an     *)
(* ordered log, for any transactions, uris, worker loops and bounds.        *)
(***************************************************************************)
EXTENDS OutboxRefinement, TLAPS

\* Nothing can be added to or taken from the rows of transaction ids up to x.
Settled(x) == x < nextXid /\ \A t \in Txs : txState[t] = "active" => x < xid[t]

XidInv ==
  /\ nextXid >= 1
  /\ \A t \in Txs : txState[t] # "new" => 1 <= xid[t] /\ xid[t] < nextXid
  /\ \A s, t \in Txs : s # t /\ txState[s] # "new" /\ txState[t] # "new" => xid[s] # xid[t]

RowInv ==
  /\ \A r \in rows : /\ r.pos < nextPos
                     /\ \E t \in Txs : txState[t] \in {"active", "committed"} /\ xid[t] = r.tid
  /\ \A r, s \in rows : r.pos = s.pos => r = s

SnapInv == \A d \in Dispatchers : \A x \in snap[d] : Settled(x) /\ 1..x \subseteq snap[d]

GotInv == \A k \in Keys : \A m \in got[k] : m \in rows /\ Settled(m.tid)

OffsetInv ==
  \A k \in Keys : /\ UpTo(base[k], offsets[k])
                  /\ offsets[k] = base[k] \/ Settled(offsets[k].tid)

LockInv ==
  \A d, e \in Dispatchers :
    pc[d] = "processing" /\ pc[e] = "processing" /\ d # e => OffsetKey(d) # OffsetKey(e)

IdleInv ==
  \A d \in Dispatchers : pc[d] # "processing" => batch[d] = {} /\ todo[d] = {}

\* What a dispatch transaction holds: the wanted messages right after the offset.
BatchInv ==
  \A d \in Dispatchers : pc[d] = "processing" =>
    /\ todo[d] \subseteq batch[d]
    /\ batch[d] \ todo[d] \subseteq got[OffsetKey(d)]
    /\ \A m \in batch[d] :
         /\ m \in rows /\ Settled(m.tid) /\ m.uri \in Wanted(d)
         /\ Before(offsets[OffsetKey(d)], m)
         /\ \A r \in rows : /\ r.uri \in Wanted(d)
                            /\ Before(offsets[OffsetKey(d)], r)
                            /\ Before(r, m)
                            => r \in batch[d]

IInv ==
  /\ TypeOK /\ XidInv /\ RowInv /\ SnapInv /\ GotInv /\ OffsetInv /\ LockInv
  /\ IdleInv /\ BatchInv /\ NoSkippedMessage /\ DeliveredInOrder

-----------------------------------------------------------------------------
LEMMA KeyOfDispatcher == \A d \in Dispatchers : OffsetKey(d) \in Keys
BY DEF Keys

LEMMA Trichotomy ==
  ASSUME NEW r \in Row, NEW p \in Position
  PROVE  UpTo(r, p) \/ Before(p, r)
BY DEF UpTo, Before, Row, Position

LEMMA TypeInit == Init => TypeOK
BY OutboxAssumption DEF Init, TypeOK, Position, Zero

LEMMA TypeStep == TypeOK /\ [Next]_vars => TypeOK'
<1>. USE OutboxAssumption
<1>. SUFFICES ASSUME TypeOK, [Next]_vars PROVE TypeOK'
  OBVIOUS
<1>1. ASSUME NEW t \in Txs, TxStep(t) PROVE TypeOK'
  <2>1. CASE Write(t)
    BY <2>1 DEF TypeOK, Write, dispVars, posVars
  <2>2. ASSUME NEW u \in Uris, Publish(t, u) PROVE TypeOK'
    <3>1. [tid |-> xid[t], pos |-> nextPos, uri |-> u] \in Row
      BY DEF TypeOK, Row
    <3>. QED  BY <2>2, <3>1 DEF TypeOK, Publish, dispVars, posVars
  <2>3. CASE Commit(t)
    BY <2>3 DEF TypeOK, Commit, dispVars, posVars
  <2>4. CASE Abort(t)
    BY <2>4 DEF TypeOK, Abort, dispVars, posVars
  <2>. QED  BY <1>1, <2>1, <2>2, <2>3, <2>4 DEF TxStep
<1>2. ASSUME NEW d \in Dispatchers, Dispatch(d) PROVE TypeOK'
  <2>1. CASE EnsureConsumerGroup(d)
    BY <2>1, KeyOfDispatcher DEF TypeOK, EnsureConsumerGroup, dbVars
  <2>2. CASE TakeSnapshot(d)
    BY <2>2 DEF TypeOK, TakeSnapshot, Snapshot, dbVars, posVars
  <2>3. CASE FetchNothing(d)
    BY <2>3 DEF TypeOK, FetchNothing, dbVars, posVars
  <2>4. CASE FetchMessages(d)
    BY <2>4 DEF TypeOK, FetchMessages, Selected, posVars
  <2>5. ASSUME NEW m \in todo[d], Deliver(d, m) PROVE TypeOK'
    BY <2>5, KeyOfDispatcher DEF TypeOK, Deliver, dbVars
  <2>6. ASSUME NEW m \in batch[d], Ack(d, m) PROVE TypeOK'
    BY <2>6, KeyOfDispatcher DEF TypeOK, Ack, EndDispatch, Position, Row, dbVars
  <2>7. CASE Restart(d)
    BY <2>7 DEF TypeOK, Restart, dbVars, posVars
  <2>. QED  BY <1>2, <2>1, <2>2, <2>3, <2>4, <2>5, <2>6, <2>7 DEF Dispatch
<1>3. ASSUME NEW d \in Dispatchers, Fail(d) PROVE TypeOK'
  BY <1>3 DEF TypeOK, Fail, EndDispatch, dbVars, posVars
<1>4. ASSUME NEW k \in Keys, NEW p \in SeekTargets, SetPosition(k, p) PROVE TypeOK'
  <2>1. p \in Position
    BY DEF TypeOK, SeekTargets, Row, Position, Zero
  <2>. QED  BY <1>4, <2>1 DEF TypeOK, SetPosition, dbVars, dispVars
<1>5. CASE UNCHANGED vars
  BY <1>5 DEF TypeOK, vars, dbVars, dispVars, posVars
<1>. QED  BY <1>1, <1>2, <1>3, <1>4, <1>5 DEF Next

\* Every variable keeps its type.
THEOREM TypeCorrect == Spec => []TypeOK
BY TypeInit, TypeStep, PTL DEF Spec

-----------------------------------------------------------------------------
LEMMA InvInit == Init => IInv
<1>. SUFFICES ASSUME Init PROVE IInv
  OBVIOUS
<1>1. TypeOK
  BY TypeInit
<1>. QED
  BY <1>1, KeyOfDispatcher
     DEF Init, IInv, XidInv, RowInv, SnapInv, GotInv, OffsetInv, LockInv, IdleInv,
         BatchInv, NoSkippedMessage, DeliveredInOrder, UpTo, Before, Zero

\* Steps of business transactions.  No row of a settled transaction id appears
\* or disappears, so what is known of snapshots, batches and offsets stays true.
LEMMA TxStepInv ==
  ASSUME IInv, NEW t \in Txs, TxStep(t)
  PROVE  IInv'
<1>. USE DEF IInv
<1>0. TypeOK'
  BY TypeStep DEF Next
<1>1. CASE Write(t)
  <2>1. \A x \in Nat : Settled(x) => Settled(x)'
    BY <1>1 DEF Settled, Write, TypeOK
  <2>2. UNCHANGED <<nextPos, rows, registered, offsets, pc, snap, batch, todo, base, got>>
    BY <1>1 DEF Write, dispVars, posVars
  <2>3. XidInv'
    BY <1>1 DEF XidInv, Write, TypeOK
  <2>4. RowInv'
    BY <1>1, <2>2 DEF RowInv, Write, TypeOK
  <2>5. SnapInv' /\ GotInv' /\ OffsetInv' /\ BatchInv'
    BY <2>1, <2>2 DEF SnapInv, GotInv, OffsetInv, BatchInv, TypeOK, Row, Position
  <2>6. LockInv' /\ IdleInv' /\ NoSkippedMessage' /\ DeliveredInOrder'
    BY <2>2 DEF LockInv, IdleInv, NoSkippedMessage, DeliveredInOrder
  <2>. QED  BY <1>0, <2>3, <2>4, <2>5, <2>6
<1>2. ASSUME NEW u \in Uris, Publish(t, u) PROVE IInv'
  <2>. DEFINE new == [tid |-> xid[t], pos |-> nextPos, uri |-> u]
  <2>1. UNCHANGED <<txState, xid, nextXid, registered, offsets, pc, snap, batch, todo, base, got>>
    BY <1>2 DEF Publish, dispVars, posVars
  <2>2. rows' = rows \cup {new} /\ nextPos' = nextPos + 1 /\ txState[t] = "active"
    BY <1>2 DEF Publish
  <2>3. XidInv' /\ SnapInv' /\ OffsetInv' /\ LockInv' /\ IdleInv'
    BY <2>1 DEF XidInv, SnapInv, OffsetInv, LockInv, IdleInv, Settled
  <2>4. RowInv'
    BY <2>1, <2>2 DEF RowInv, TypeOK, Row
  <2>5. GotInv'
    BY <2>1, <2>2 DEF GotInv, Settled
  <2>6. \A x \in Nat : Settled(x) => x < new.tid
    BY <2>2 DEF Settled
  <2>7. BatchInv'
    <3>. SUFFICES ASSUME NEW d \in Dispatchers, pc[d] = "processing"
                  PROVE  /\ todo[d] \subseteq batch[d]
                         /\ batch[d] \ todo[d] \subseteq got[OffsetKey(d)]
                         /\ \A m \in batch[d] :
                              /\ m \in rows' /\ Settled(m.tid) /\ m.uri \in Wanted(d)
                              /\ Before(offsets[OffsetKey(d)], m)
                              /\ \A r \in rows' : /\ r.uri \in Wanted(d)
                                                  /\ Before(offsets[OffsetKey(d)], r)
                                                  /\ Before(r, m)
                                                  => r \in batch[d]
      BY <2>1 DEF BatchInv, Settled
    <3>1. \A m \in batch[d] : ~Before(new, m)
      BY <2>6 DEF BatchInv, Before, TypeOK, Row
    <3>. QED  BY <2>2, <3>1 DEF BatchInv
  <2>8. NoSkippedMessage'
    <3>1. \A d \in Dispatchers : Before(base[OffsetKey(d)], new) => ~UpTo(new, offsets[OffsetKey(d)])
      BY <2>6, KeyOfDispatcher DEF OffsetInv, Before, UpTo, TypeOK, Position
    <3>. QED  BY <2>1, <2>2, <3>1 DEF NoSkippedMessage
  <2>9. DeliveredInOrder'
    <3>1. \A d \in Dispatchers : \A m \in got[OffsetKey(d)] : ~Before(new, m)
      BY <2>6, KeyOfDispatcher DEF GotInv, Before, TypeOK, Row
    <3>. QED  BY <2>1, <2>2, <3>1 DEF DeliveredInOrder
  <2>. QED  BY <1>0, <2>3, <2>4, <2>5, <2>7, <2>8, <2>9
<1>3. CASE Commit(t) \/ Abort(t)
  <2>1. UNCHANGED <<xid, nextXid, nextPos, registered, offsets, pc, snap, batch, todo, base, got>>
    BY <1>3 DEF Commit, Abort, dispVars, posVars
  <2>2. /\ txState[t] = "active"
        /\ rows' \subseteq rows
        /\ \A r \in rows : r \in rows' \/ r.tid = xid[t]
        /\ \A s \in Txs : s # t => txState'[s] = txState[s]
        /\ txState'[t] # "active" /\ txState'[t] # "new"
        /\ txState'[t] = "committed" \/ \A r \in rows' : r.tid # xid[t]
    BY <1>3 DEF Commit, Abort, TypeOK
  <2>3. \A x \in Nat : Settled(x) => Settled(x)' /\ x # xid[t]
    BY <2>1, <2>2 DEF Settled, TypeOK
  <2>4. XidInv'
    BY <2>1, <2>2 DEF XidInv
  <2>5. RowInv'
    BY <2>1, <2>2 DEF RowInv
  <2>6. SnapInv' /\ OffsetInv' /\ LockInv' /\ IdleInv'
    BY <2>1, <2>3 DEF SnapInv, OffsetInv, LockInv, IdleInv, TypeOK, Position
  <2>7. GotInv'
    BY <2>1, <2>2, <2>3 DEF GotInv, TypeOK, Row
  <2>8. BatchInv'
    BY <2>1, <2>2, <2>3 DEF BatchInv, TypeOK, Row
  <2>9. NoSkippedMessage' /\ DeliveredInOrder'
    BY <2>1, <2>2 DEF NoSkippedMessage, DeliveredInOrder
  <2>. QED  BY <1>0, <2>4, <2>5, <2>6, <2>7, <2>8, <2>9
<1>. QED  BY <1>1, <1>2, <1>3 DEF TxStep

\* Steps of a dispatch() that leave the database alone.
LEMMA QuietDispatchInv ==
  ASSUME IInv, NEW d \in Dispatchers,
         \/ EnsureConsumerGroup(d) \/ TakeSnapshot(d) \/ FetchNothing(d) \/ Restart(d) \/ Fail(d)
  PROVE  IInv'
<1>. USE DEF IInv
<1>0. TypeOK'
  BY TypeStep DEF Next, Dispatch
<1>1. UNCHANGED <<dbVars, offsets, base, got>>
  BY DEF EnsureConsumerGroup, TakeSnapshot, FetchNothing, Restart, Fail, posVars
<1>2. \A x \in Nat : Settled(x)' <=> Settled(x)
  BY <1>1 DEF Settled, dbVars
<1>3. /\ pc'[d] # "processing"
      /\ \A e \in Dispatchers \ {d} : pc'[e] = pc[e]
  BY <1>0 DEF TypeOK, EnsureConsumerGroup, TakeSnapshot, FetchNothing, Restart, Fail, EndDispatch
<1>4. /\ \A e \in Dispatchers \ {d} : batch'[e] = batch[e] /\ todo'[e] = todo[e]
      /\ pc[d] = "processing" \/ (batch'[d] = batch[d] /\ todo'[d] = todo[d])
                              \/ (batch'[d] = {} /\ todo'[d] = {})
      /\ pc[d] = "processing" => batch'[d] = {} /\ todo'[d] = {}
  BY DEF TypeOK, EnsureConsumerGroup, TakeSnapshot, FetchNothing, Restart, Fail, EndDispatch
<1>5. SnapInv'
  <2>1. \A e \in Dispatchers : snap'[e] = snap[e] \/ snap'[e] = {} \/ snap'[e] = Snapshot
    BY DEF TypeOK, EnsureConsumerGroup, TakeSnapshot, FetchNothing, Restart, Fail, EndDispatch
  <2>2. \A x \in Snapshot : Settled(x) /\ 1..x \subseteq Snapshot
    BY DEF Snapshot, InProgress, Settled, TypeOK
  <2>. QED  BY <1>0, <1>2, <2>1, <2>2 DEF SnapInv, TypeOK
<1>6. XidInv' /\ RowInv' /\ OffsetInv' /\ NoSkippedMessage' /\ DeliveredInOrder'
  BY <1>1 DEF XidInv, RowInv, OffsetInv, NoSkippedMessage, DeliveredInOrder, Settled, dbVars
<1>7. GotInv'
  BY <1>1 DEF GotInv, Settled, dbVars
<1>8. LockInv' /\ IdleInv'
  BY <1>3, <1>4 DEF LockInv, IdleInv
<1>9. BatchInv'
  BY <1>1, <1>3, <1>4 DEF BatchInv, Settled, dbVars
<1>. QED  BY <1>0, <1>5, <1>6, <1>7, <1>8, <1>9

\* The lock and the snapshot together make the batch the messages that follow
\* the offset, with nothing still to come between them.
LEMMA FetchMessagesInv ==
  ASSUME IInv, NEW d \in Dispatchers, FetchMessages(d)
  PROVE  IInv'
<1>. USE DEF IInv
<1>0. TypeOK'
  BY TypeStep DEF Next, Dispatch
<1>1. PICK b \in SUBSET Selected(d) :
        /\ IsFirstBatch(b, Selected(d))
        /\ batch' = [batch EXCEPT ![d] = b]
        /\ todo' = [todo EXCEPT ![d] = b]
  BY DEF FetchMessages
<1>2. /\ UNCHANGED <<txState, xid, nextPos, rows, snap, registered, offsets, base, got>>
      /\ nextXid' = nextXid + 1
      /\ pc' = [pc EXCEPT ![d] = "processing"]
      /\ LockFree(d)
  BY DEF FetchMessages, posVars
<1>3. \A x \in Nat : Settled(x) => Settled(x)'
  BY <1>2 DEF Settled, TypeOK
<1>4. XidInv' /\ RowInv' /\ NoSkippedMessage' /\ DeliveredInOrder'
  BY <1>2 DEF XidInv, RowInv, NoSkippedMessage, DeliveredInOrder, TypeOK
<1>5. SnapInv' /\ GotInv' /\ OffsetInv'
  BY <1>2, <1>3 DEF SnapInv, GotInv, OffsetInv, TypeOK, Row, Position
<1>6. LockInv' /\ IdleInv'
  BY <1>1, <1>2 DEF LockInv, IdleInv, LockFree, TypeOK
<1>7. BatchInv'
  <2>1. ASSUME NEW m \in b
        PROVE  /\ m \in rows /\ Settled(m.tid) /\ m.uri \in Wanted(d)
               /\ Before(offsets[OffsetKey(d)], m)
               /\ \A r \in rows : /\ r.uri \in Wanted(d)
                                  /\ Before(offsets[OffsetKey(d)], r)
                                  /\ Before(r, m)
                                  => r \in b
    <3>1. m \in Selected(d) /\ m \in rows /\ m.tid \in snap[d]
      BY <1>1, <2>1 DEF Selected
    <3>2. \A x \in snap[d] : x \in Nat /\ Settled(x)
      BY DEF SnapInv, TypeOK
    <3>3. ASSUME NEW r \in rows, r.uri \in Wanted(d),
                 Before(offsets[OffsetKey(d)], r), Before(r, m)
          PROVE  r \in b
      <4>1. r.tid <= m.tid
        BY <3>1, <3>3 DEF Before, TypeOK, Row
      <4>2. r.tid \in snap[d]
        BY <3>1, <3>3, <4>1 DEF SnapInv, RowInv, XidInv, TypeOK, Row
      <4>3. r \in Selected(d)
        BY <3>3, <4>2 DEF Selected
      <4>4. ~Before(m, r)
        BY <3>1, <3>3 DEF Before, TypeOK, Row
      <4>. QED  BY <1>1, <2>1, <4>3, <4>4 DEF IsFirstBatch
    <3>. QED  BY <3>1, <3>2, <3>3 DEF Selected
  <2>. QED  BY <1>1, <1>2, <1>3, <2>1 DEF BatchInv, TypeOK, Row
<1>. QED  BY <1>0, <1>4, <1>5, <1>6, <1>7

\* The delivered message is the least of the batch not delivered yet, so every
\* wanted message before it was below the offset or delivered from the batch.
LEMMA DeliverInv ==
  ASSUME IInv, ConsistentPartitions, NEW d \in Dispatchers, NEW m \in todo[d], Deliver(d, m)
  PROVE  IInv'
<1>. USE DEF IInv
<1>. DEFINE k == OffsetKey(d)
<1>0. TypeOK'
  BY TypeStep DEF Next, Dispatch
<1>1. /\ UNCHANGED <<dbVars, pc, snap, batch, registered, offsets, base>>
      /\ todo' = [todo EXCEPT ![d] = @ \ {m}]
      /\ got' = [got EXCEPT ![k] = @ \cup {m}]
      /\ pc[d] = "processing"
      /\ \A r \in todo[d] : UpTo(m, r)
  BY DEF Deliver
<1>2. k \in Keys
  BY KeyOfDispatcher
<1>3. m \in batch[d] /\ m \in rows /\ Settled(m.tid) /\ Before(offsets[k], m)
  BY <1>1 DEF BatchInv
<1>4. XidInv' /\ RowInv' /\ SnapInv' /\ OffsetInv' /\ LockInv'
  BY <1>1 DEF XidInv, RowInv, SnapInv, OffsetInv, LockInv, Settled, dbVars
<1>5. GotInv'
  BY <1>1, <1>2, <1>3 DEF GotInv, Settled, dbVars, TypeOK
<1>6. IdleInv'
  BY <1>1 DEF IdleInv, TypeOK
<1>7. BatchInv'
  <2>1. \A j \in Keys : got[j] \subseteq got'[j]
    BY <1>1 DEF TypeOK
  <2>2. m \in got'[k]
    BY <1>1, <1>2 DEF TypeOK
  <2>3. \A e \in Dispatchers : todo'[e] \subseteq todo[e] /\ (e = d \/ todo'[e] = todo[e])
    BY <1>1 DEF TypeOK
  <2>4. todo[d] \subseteq todo'[d] \cup {m}
    BY <1>1 DEF TypeOK
  <2>. QED  BY <1>1, <2>1, <2>2, <2>3, <2>4, KeyOfDispatcher DEF BatchInv, Settled, dbVars
<1>8. NoSkippedMessage'
  BY <1>1, <1>2 DEF NoSkippedMessage, TypeOK, dbVars
<1>9. DeliveredInOrder'
  <2>1. ASSUME NEW r \in rows, r.uri \in Wanted(d), Before(base[k], r), Before(r, m)
        PROVE  r \in got[k]
    <3>1. CASE UpTo(r, offsets[k])
      BY <2>1, <3>1 DEF NoSkippedMessage
    <3>2. CASE ~UpTo(r, offsets[k])
      <4>1. Before(offsets[k], r)
        BY <1>2, <3>2, Trichotomy DEF TypeOK
      <4>2. r \in batch[d]
        BY <1>1, <1>3, <2>1, <4>1 DEF BatchInv
      <4>3. r \notin todo[d]
        BY <1>1, <1>3, <2>1 DEF UpTo, Before, TypeOK, Row
      <4>. QED  BY <1>1, <4>2, <4>3 DEF BatchInv
    <3>. QED  BY <3>1, <3>2
  <2>2. ASSUME NEW e \in Dispatchers, OffsetKey(e) = k PROVE Wanted(e) = Wanted(d)
    BY <2>2 DEF ConsistentPartitions
  <2>3. SUFFICES ASSUME NEW e \in Dispatchers, NEW n \in got'[OffsetKey(e)], NEW r \in rows,
                        r.uri \in Wanted(e), Before(base[OffsetKey(e)], r), Before(r, n)
                 PROVE  r \in got'[OffsetKey(e)]
    BY <1>1 DEF DeliveredInOrder, dbVars
  <2>4. CASE n \in got[OffsetKey(e)]
    BY <1>1, <1>2, <2>3, <2>4, KeyOfDispatcher DEF DeliveredInOrder, TypeOK
  <2>5. CASE n \notin got[OffsetKey(e)]
    <3>1. OffsetKey(e) = k /\ n = m
      BY <1>1, <1>2, <2>3, <2>5, KeyOfDispatcher DEF TypeOK
    <3>. QED  BY <1>1, <1>2, <2>1, <2>2, <2>3, <3>1 DEF TypeOK
  <2>. QED  BY <2>4, <2>5
<1>. QED  BY <1>0, <1>4, <1>5, <1>6, <1>7, <1>8, <1>9

\* The new offset is the last message of a batch delivered in full: whatever lies
\* between the old offset and the new one was in the batch.
LEMMA AckInv ==
  ASSUME IInv, ConsistentPartitions, NEW d \in Dispatchers, NEW last \in batch[d], Ack(d, last)
  PROVE  IInv' /\ Before(offsets[OffsetKey(d)], last)
<1>. USE DEF IInv
<1>. DEFINE k == OffsetKey(d)
            p == [tid |-> last.tid, pos |-> last.pos]
<1>0. TypeOK'
  BY TypeStep DEF Next, Dispatch
<1>1. /\ UNCHANGED <<dbVars, base, got>>
      /\ offsets' = [offsets EXCEPT ![k] = p]
      /\ pc[d] = "processing" /\ todo[d] = {}
      /\ pc' = [pc EXCEPT ![d] = "idle"]
      /\ snap' = [snap EXCEPT ![d] = {}]
      /\ batch' = [batch EXCEPT ![d] = {}]
      /\ todo' = [todo EXCEPT ![d] = {}]
  BY DEF Ack, EndDispatch
<1>2. k \in Keys
  BY KeyOfDispatcher
<1>3. /\ last \in rows /\ Settled(last.tid) /\ Before(offsets[k], last)
      /\ last \in Row
  BY <1>1 DEF BatchInv, TypeOK
<1>4. \A x \in Nat : Settled(x)' <=> Settled(x)
  BY <1>1 DEF Settled, dbVars
<1>5. XidInv' /\ RowInv' /\ GotInv' /\ DeliveredInOrder'
  BY <1>1 DEF XidInv, RowInv, GotInv, DeliveredInOrder, Settled, dbVars
<1>6. SnapInv' /\ LockInv' /\ IdleInv'
  BY <1>0, <1>1, <1>4 DEF SnapInv, LockInv, IdleInv, TypeOK
<1>7. OffsetInv'
  <2>1. UpTo(base[k], p)
    BY <1>2, <1>3 DEF OffsetInv, UpTo, Before, TypeOK, Position, Row
  <2>. QED  BY <1>1, <1>2, <1>3, <1>4, <2>1 DEF OffsetInv, TypeOK, Position, Row
<1>8. BatchInv'
  <2>1. \A e \in Dispatchers : pc'[e] = "processing" =>
          /\ e # d /\ pc[e] = "processing" /\ OffsetKey(e) # k
          /\ batch'[e] = batch[e] /\ todo'[e] = todo[e]
          /\ offsets'[OffsetKey(e)] = offsets[OffsetKey(e)]
    BY <1>1, KeyOfDispatcher DEF LockInv, TypeOK
  <2>. QED  BY <1>1, <2>1 DEF BatchInv, Settled, dbVars
<1>9. NoSkippedMessage'
  <2>1. SUFFICES ASSUME NEW e \in Dispatchers, NEW r \in rows, r.uri \in Wanted(e),
                        Before(base[OffsetKey(e)], r), UpTo(r, offsets'[OffsetKey(e)])
                 PROVE  r \in got[OffsetKey(e)]
    BY <1>1 DEF NoSkippedMessage, dbVars
  <2>2. CASE OffsetKey(e) # k \/ UpTo(r, offsets[OffsetKey(e)])
    BY <1>1, <2>1, <2>2, KeyOfDispatcher DEF NoSkippedMessage, TypeOK
  <2>3. CASE OffsetKey(e) = k /\ ~UpTo(r, offsets[k])
    <3>1. Wanted(e) = Wanted(d)
      BY <2>3 DEF ConsistentPartitions
    <3>2. UpTo(r, p) /\ Before(offsets[k], r)
      BY <1>1, <1>2, <2>1, <2>3, Trichotomy DEF TypeOK
    <3>3. r = last \/ Before(r, last)
      BY <1>3, <3>2 DEF UpTo, Before, RowInv, TypeOK, Row
    <3>4. r \in batch[d]
      BY <1>1, <2>1, <3>1, <3>2, <3>3 DEF BatchInv
    <3>. QED  BY <1>1, <2>3, <3>4 DEF BatchInv
  <2>. QED  BY <2>2, <2>3
<1>. QED  BY <1>0, <1>3, <1>5, <1>6, <1>7, <1>8, <1>9

\* The history starts again at the position that is set.
LEMMA SetPositionInv ==
  ASSUME IInv, NEW k \in Keys, NEW p \in SeekTargets, SetPosition(k, p)
  PROVE  IInv'
<1>. USE DEF IInv
<1>0. TypeOK'
  BY TypeStep DEF Next
<1>1. /\ UNCHANGED <<dbVars, dispVars>>
      /\ offsets' = [offsets EXCEPT ![k] = p]
      /\ base' = [base EXCEPT ![k] = p]
      /\ got' = [got EXCEPT ![k] = {}]
      /\ \A e \in Dispatchers : pc[e] = "processing" => OffsetKey(e) # k
  BY DEF SetPosition
<1>2. p \in Position
  BY DEF TypeOK, SeekTargets, Row, Position, Zero
<1>3. XidInv' /\ RowInv' /\ SnapInv' /\ LockInv' /\ IdleInv'
  BY <1>1 DEF XidInv, RowInv, SnapInv, LockInv, IdleInv, Settled, dbVars, dispVars
<1>4. GotInv'
  BY <1>1 DEF GotInv, Settled, dbVars, TypeOK
<1>5. OffsetInv'
  BY <1>1, <1>2 DEF OffsetInv, UpTo, Settled, dbVars, TypeOK, Position
<1>6. BatchInv'
  <2>1. \A e \in Dispatchers : pc[e] = "processing" =>
          /\ got'[OffsetKey(e)] = got[OffsetKey(e)]
          /\ offsets'[OffsetKey(e)] = offsets[OffsetKey(e)]
    BY <1>1, KeyOfDispatcher DEF TypeOK
  <2>. QED  BY <1>1, <2>1 DEF BatchInv, Settled, dbVars, dispVars
<1>7. NoSkippedMessage'
  BY <1>1, <1>2, KeyOfDispatcher
     DEF NoSkippedMessage, UpTo, Before, dbVars, TypeOK, Position, Row
<1>8. DeliveredInOrder'
  BY <1>1, KeyOfDispatcher DEF DeliveredInOrder, dbVars, TypeOK
<1>. QED  BY <1>0, <1>3, <1>4, <1>5, <1>6, <1>7, <1>8

-----------------------------------------------------------------------------
LEMMA InvStep == ConsistentPartitions /\ IInv /\ [Next]_vars => IInv'
<1>. SUFFICES ASSUME ConsistentPartitions, IInv, [Next]_vars PROVE IInv'
  OBVIOUS
<1>1. ASSUME NEW t \in Txs, TxStep(t) PROVE IInv'
  BY <1>1, TxStepInv
<1>2. ASSUME NEW d \in Dispatchers, Dispatch(d) \/ Fail(d) PROVE IInv'
  <2>1. ASSUME NEW m \in todo[d], Deliver(d, m) PROVE IInv'
    BY <2>1, DeliverInv
  <2>2. ASSUME NEW m \in batch[d], Ack(d, m) PROVE IInv'
    BY <2>2, AckInv
  <2>. QED  BY <1>2, <2>1, <2>2, QuietDispatchInv, FetchMessagesInv DEF Dispatch
<1>3. ASSUME NEW k \in Keys, NEW p \in SeekTargets, SetPosition(k, p) PROVE IInv'
  BY <1>3, SetPositionInv
<1>4. CASE UNCHANGED vars
  BY <1>4 DEF IInv, TypeOK, XidInv, RowInv, SnapInv, GotInv, OffsetInv, LockInv, IdleInv,
              BatchInv, NoSkippedMessage, DeliveredInOrder, Settled,
              vars, dbVars, dispVars, posVars
<1>. QED  BY <1>1, <1>2, <1>3, <1>4 DEF Next

LEMMA Invariance ==
  ASSUME ConsistentPartitions
  PROVE  Spec => []IInv
<1>1. IInv /\ [Next]_vars => IInv'
  BY InvStep
<1>. QED  BY <1>1, InvInit, PTL DEF Spec

\* No offset passes a message that its group has not been given.
THEOREM NothingSkipped ==
  ASSUME ConsistentPartitions
  PROVE  Spec => []NoSkippedMessage
BY Invariance, PTL DEF IInv

\* Groups meet their messages in (transaction_id, position) order.
THEOREM OrderedDelivery ==
  ASSUME ConsistentPartitions
  PROVE  Spec => []DeliveredInOrder
BY Invariance, PTL DEF IInv

\* Only messages of committed business transactions are delivered.
THEOREM CommittedDelivery ==
  ASSUME ConsistentPartitions
  PROVE  Spec => []DeliveredIsCommitted
<1>1. IInv => DeliveredIsCommitted
  BY DEF IInv, GotInv, RowInv, Settled, DeliveredIsCommitted, TypeOK
<1>. QED  BY <1>1, Invariance, PTL

\* No message in the hands of a dispatcher is acknowledged or another's.
THEOREM NoRedeliveryOnceAcked ==
  ASSUME ConsistentPartitions
  PROVE  Spec => []NoAckedRedelivery
<1>1. IInv => NoAckedRedelivery
  BY DEF IInv, LockInv, IdleInv, BatchInv, NoAckedRedelivery
<1>. QED  BY <1>1, Invariance, PTL

\* Only set_position moves an offset backwards.
THEOREM OffsetsOnlyAdvance ==
  ASSUME ConsistentPartitions
  PROVE  Spec => OffsetsAdvance
<1>1. IInv /\ [Next]_vars
      => [\A k \in Keys : UpTo(offsets[k], offsets'[k]) \/ seeks' # seeks]_vars
  <2>. SUFFICES ASSUME IInv, Next, NEW k \in Keys, seeks' = seeks
                PROVE  UpTo(offsets[k], offsets'[k])
    BY DEF vars
  <2>1. TypeOK
    BY DEF IInv
  <2>2. offsets' = offsets => UpTo(offsets[k], offsets'[k])
    BY <2>1 DEF UpTo, TypeOK, Position
  <2>3. ASSUME NEW d \in Dispatchers, NEW m \in batch[d], Ack(d, m)
        PROVE  UpTo(offsets[k], offsets'[k])
    <3>1. Before(offsets[OffsetKey(d)], m)
      BY <2>3, AckInv
    <3>2. offsets' = [offsets EXCEPT ![OffsetKey(d)] = [tid |-> m.tid, pos |-> m.pos]]
      BY <2>3 DEF Ack
    <3>3. CASE k = OffsetKey(d)
      <4>1. offsets'[k].tid = m.tid /\ offsets'[k].pos = m.pos
        BY <2>1, <3>2, <3>3 DEF TypeOK
      <4>2. m \in Row /\ offsets[k] \in Position
        BY <2>1 DEF TypeOK
      <4>. QED  BY <3>1, <3>3, <4>1, <4>2 DEF UpTo, Before, Row, Position
    <3>4. CASE k # OffsetKey(d)
      <4>1. offsets'[k] = offsets[k]
        BY <2>1, <3>2, <3>4 DEF TypeOK
      <4>2. offsets[k] \in Position
        BY <2>1 DEF TypeOK
      <4>. QED  BY <4>1, <4>2 DEF UpTo, Position
    <3>. QED  BY <3>3, <3>4
  <2>4. ASSUME NEW j \in Keys, NEW p \in SeekTargets, SetPosition(j, p) PROVE FALSE
    BY <2>1, <2>4 DEF SetPosition, TypeOK
  <2>. QED
    BY <2>2, <2>3, <2>4
       DEF Next, TxStep, Write, Publish, Commit, Abort, Dispatch, Fail, EnsureConsumerGroup,
           TakeSnapshot, FetchNothing, FetchMessages, Deliver, Restart, posVars
<1>. QED  BY <1>1, Invariance, PTL DEF Spec, OffsetsAdvance
-----------------------------------------------------------------------------
\* What a dispatch transaction has read, or may still read, stays below the xmin.
StableInv ==
  \A d \in Dispatchers : snap[d] \subseteq Snapshot /\ \A m \in batch[d] : m.tid \in Snapshot

-----------------------------------------------------------------------------
(***************************************************************************)
(* The xmin never moves back, and nothing happens to the rows below it.     *)
(***************************************************************************)
LEMMA InProgressTypes == TypeOK => InProgress \subseteq Nat
BY DEF TypeOK, InProgress

LEMMA SnapshotGrows ==
  ASSUME TypeOK, [Next]_vars
  PROVE  Snapshot \subseteq Snapshot'
<1>1. /\ nextXid \in Nat /\ nextXid' \in Nat /\ nextXid <= nextXid'
      /\ InProgress' \subseteq InProgress \cup {nextXid}
  <2>. USE DEF TypeOK, InProgress
  <2>1. ASSUME NEW t \in Txs, TxStep(t)
        PROVE  nextXid' \in {nextXid, nextXid + 1} /\ InProgress' \subseteq InProgress \cup {nextXid}
    BY <2>1 DEF TxStep, Write, Publish, Commit, Abort, dispVars
  <2>2. ASSUME NEW d \in Dispatchers, Dispatch(d) \/ Fail(d)
        PROVE  nextXid' \in {nextXid, nextXid + 1} /\ InProgress' \subseteq InProgress \cup {nextXid}
    <3>1. CASE FetchMessages(d)
      BY <3>1 DEF FetchMessages
    <3>2. CASE EnsureConsumerGroup(d) \/ TakeSnapshot(d) \/ FetchNothing(d) \/ Restart(d)
      BY <3>2 DEF EnsureConsumerGroup, TakeSnapshot, FetchNothing, Restart, dbVars
    <3>3. CASE Fail(d) \/ \E m \in batch[d] : Ack(d, m)
      BY <3>3 DEF Fail, Ack, EndDispatch, dbVars
    <3>4. CASE \E m \in todo[d] : Deliver(d, m)
      BY <3>4 DEF Deliver, dbVars
    <3>. QED  BY <2>2, <3>1, <3>2, <3>3, <3>4 DEF Dispatch
  <2>3. ASSUME NEW k \in Keys, NEW p \in SeekTargets, SetPosition(k, p)
        PROVE  nextXid' = nextXid /\ InProgress' = InProgress
    BY <2>3 DEF SetPosition, dbVars, dispVars
  <2>4. CASE UNCHANGED vars
    BY <2>4 DEF vars, dbVars, dispVars
  <2>5. nextXid \in Nat
    OBVIOUS
  <2>. HIDE DEF TypeOK, InProgress
  <2>6. CASE Next
    BY <2>1, <2>2, <2>3, <2>5, <2>6 DEF Next
  <2>. QED  BY <2>4, <2>5, <2>6
<1>. QED  BY <1>1, InProgressTypes DEF Snapshot

LEMMA RowsBelow ==
  ASSUME TypeOK, [Next]_vars
  PROVE  \A r \in Row : r.tid \in Snapshot => (r \in rows' <=> r \in rows)
<1>1. ASSUME NEW t \in Txs, TxStep(t), NEW r \in Row, r.tid \in Snapshot PROVE r \in rows' <=> r \in rows
  <2>1. CASE Write(t) \/ Commit(t)
    BY <2>1 DEF Write, Commit
  <2>2. ASSUME txState[t] = "active" PROVE r.tid # xid[t]
    <3>1. xid[t] \in InProgress
      BY <2>2 DEF InProgress
    <3>2. xid[t] \in Nat /\ r.tid < xid[t]
      BY <1>1, <3>1, InProgressTypes DEF Snapshot
    <3>. QED  BY <3>2 DEF Row
  <2>3. CASE Abort(t) \/ \E u \in Uris : Publish(t, u)
    BY <2>2, <2>3 DEF Abort, Publish
  <2>. QED  BY <1>1, <2>1, <2>3 DEF TxStep
<1>2. ASSUME NEW d \in Dispatchers, Dispatch(d) \/ Fail(d) PROVE rows' = rows
  BY <1>2 DEF Dispatch, EnsureConsumerGroup, TakeSnapshot, FetchNothing, FetchMessages, Deliver,
              Ack, Restart, Fail, dbVars
<1>3. ASSUME NEW k \in Keys, NEW p \in SeekTargets, SetPosition(k, p) PROVE rows' = rows
  BY <1>3 DEF SetPosition, dbVars
<1>4. CASE UNCHANGED vars
  BY <1>4 DEF vars, dbVars
<1>. QED  BY <1>1, <1>2, <1>3, <1>4 DEF Next

\* Whatever a step does, the log grows at its end only.
LEMMA LogAppends ==
  ASSUME TypeOK, TypeOK', [Next]_vars
  PROVE  Log!Append
<1>1. StableLog \subseteq StableLog'
  BY SnapshotGrows, RowsBelow DEF StableLog, TypeOK
<1>2. ASSUME NEW old \in StableLog, NEW new \in StableLog' \ StableLog
      PROVE  old.tid < new.tid
  <2>1. old \in Row /\ new \in Row /\ old.tid \in Snapshot /\ new.tid \in Snapshot'
    BY DEF StableLog, TypeOK
  <2>2. new.tid \notin Snapshot
    BY <2>1, RowsBelow DEF StableLog
  <2>3. new.tid \in Nat /\ 1 <= new.tid /\ old.tid \in Nat
    BY <2>1 DEF Snapshot, TypeOK, Row
  <2>4. ASSUME new.tid <= old.tid PROVE new.tid \in Snapshot
    BY <2>1, <2>3, <2>4, InProgressTypes DEF Snapshot, TypeOK
  <2>. QED  BY <2>2, <2>3, <2>4
<1>. QED  BY <1>1, <1>2 DEF Log!Append, Log!Precedes

LEMMA StableInit == Init => StableInv
BY DEF Init, StableInv

LEMMA StableStep ==
  ASSUME TypeOK, StableInv, [Next]_vars
  PROVE  StableInv'
<1>1. \A d \in Dispatchers : /\ snap'[d] \subseteq snap[d] \cup Snapshot
                             /\ \A m \in batch'[d] : m \in batch[d] \/ m.tid \in snap[d]
  <2>. USE DEF TypeOK
  <2>1. ASSUME NEW t \in Txs, TxStep(t) PROVE UNCHANGED <<snap, batch>>
    BY <2>1 DEF TxStep, Write, Publish, Commit, Abort, dispVars
  <2>2. ASSUME NEW e \in Dispatchers, Dispatch(e) \/ Fail(e)
        PROVE  \A d \in Dispatchers : /\ snap'[d] \subseteq snap[d] \cup Snapshot
                                      /\ \A m \in batch'[d] : m \in batch[d] \/ m.tid \in snap[d]
    <3>1. CASE FetchMessages(e)
      BY <3>1 DEF FetchMessages, Selected
    <3>2. CASE EnsureConsumerGroup(e) \/ TakeSnapshot(e) \/ FetchNothing(e) \/ Restart(e)
      BY <3>2 DEF EnsureConsumerGroup, TakeSnapshot, FetchNothing, Restart
    <3>3. CASE Fail(e) \/ \E m \in batch[e] : Ack(e, m)
      BY <3>3 DEF Fail, Ack, EndDispatch
    <3>4. CASE \E m \in todo[e] : Deliver(e, m)
      BY <3>4 DEF Deliver
    <3>. QED  BY <2>2, <3>1, <3>2, <3>3, <3>4 DEF Dispatch
  <2>3. ASSUME NEW k \in Keys, NEW p \in SeekTargets, SetPosition(k, p) PROVE UNCHANGED <<snap, batch>>
    BY <2>3 DEF SetPosition, dispVars
  <2>4. CASE UNCHANGED vars
    BY <2>4 DEF vars, dispVars
  <2>. QED  BY <2>1, <2>2, <2>3, <2>4 DEF Next
<1>. QED  BY <1>1, SnapshotGrows DEF StableInv

-----------------------------------------------------------------------------
(***************************************************************************)
(* Each step is one of the log's consumers, or nothing to them.             *)
(***************************************************************************)
LEMMA WantedByKey ==
  ASSUME NEW k \in Keys, NEW u
  PROVE  u \in WantedBy[k] <=> \E d \in Dispatchers : OffsetKey(d) = k /\ u \in Wanted(d)
BY DEF WantedBy

LEMMA DeliverReceives ==
  ASSUME IInv, IInv', StableInv, NEW d \in Dispatchers, NEW m \in todo[d], Deliver(d, m)
  PROVE  m \in StableLog /\ Log!Receive(OffsetKey(d), m)
<1>. DEFINE k == OffsetKey(d)
<1>1. /\ UNCHANGED <<dbVars, offsets, base>>
      /\ got' = [got EXCEPT ![k] = @ \cup {m}]
      /\ pc[d] = "processing"
  BY DEF Deliver
<1>2. k \in Keys
  BY KeyOfDispatcher
<1>3. m \in batch[d] /\ m \in rows /\ m.uri \in Wanted(d) /\ Before(offsets[k], m) /\ m \in Row
  BY <1>1 DEF IInv, BatchInv, TypeOK
<1>4. m \in StableLog
  BY <1>3 DEF StableInv, StableLog
<1>5. ASSUME NEW n \in StableLog, n.uri \in WantedBy[k], Before(base[k], n), Before(n, m)
      PROVE  n \in got[k]
  <2>1. PICK e \in Dispatchers : OffsetKey(e) = k /\ n.uri \in Wanted(e)
    BY <1>2, <1>5, WantedByKey
  <2>2. n \in rows /\ n \in Row /\ n # m
    BY <1>3, <1>5 DEF StableLog, IInv, TypeOK, Before, Row
  <2>3. m \in got'[k] /\ (n \in got'[k] => n \in got[k])
    BY <1>1, <1>2, <2>2 DEF IInv, TypeOK
  <2>4. n \in got'[k]
    BY <1>1, <1>5, <2>1, <2>2, <2>3 DEF IInv, DeliveredInOrder, dbVars
  <2>. QED  BY <2>3, <2>4
<1>. QED  BY <1>1, <1>2, <1>3, <1>4, <1>5, WantedByKey DEF Log!Receive, Log!Precedes, Before

LEMMA AckAcknowledges ==
  ASSUME IInv, StableInv, NEW d \in Dispatchers, NEW last \in batch[d], Ack(d, last)
  PROVE  last \in StableLog /\ Log!Acknowledge(OffsetKey(d), last)
<1>1. /\ UNCHANGED <<base, got>>
      /\ offsets' = [offsets EXCEPT ![OffsetKey(d)] = [tid |-> last.tid, pos |-> last.pos]]
      /\ pc[d] = "processing" /\ todo[d] = {}
  BY DEF Ack
<1>2. last \in rows /\ Before(offsets[OffsetKey(d)], last) /\ last \in got[OffsetKey(d)]
  BY <1>1 DEF IInv, BatchInv
<1>3. last \in StableLog
  BY <1>2 DEF StableInv, StableLog
<1>. QED  BY <1>1, <1>2, <1>3 DEF Log!Acknowledge, Log!Precedes, Before

LEMMA SetPositionSeeks ==
  ASSUME IInv, NEW k \in Keys, NEW p \in SeekTargets, SetPosition(k, p)
  PROVE  Log!Seek(k)
<1>1. p \in Log!Position
  BY DEF IInv, TypeOK, SeekTargets, Row, Zero, Log!Position
<1>2. base'[k] = p
  BY DEF SetPosition, IInv, TypeOK
<1>. QED  BY <1>1, <1>2 DEF SetPosition, Log!Seek

LEMMA StepRefines ==
  ASSUME IInv, IInv', StableInv, [Next]_vars
  PROVE  [Log!Next]_(Log!vars)
<1>1. Log!Append
  BY LogAppends DEF IInv
<1>2. (\E k \in Keys : Log!Consume(k)) \/ UNCHANGED <<offsets, base, got>>
  <2>1. ASSUME NEW d \in Dispatchers, NEW m \in todo[d], Deliver(d, m)
        PROVE  \E k \in Keys : Log!Consume(k)
    BY <2>1, DeliverReceives, KeyOfDispatcher DEF Log!Consume
  <2>2. ASSUME NEW d \in Dispatchers, NEW m \in batch[d], Ack(d, m)
        PROVE  \E k \in Keys : Log!Consume(k)
    BY <2>2, AckAcknowledges, KeyOfDispatcher DEF Log!Consume
  <2>3. ASSUME NEW k \in Keys, NEW p \in SeekTargets, SetPosition(k, p)
        PROVE  Log!Consume(k)
    BY <2>3, SetPositionSeeks DEF Log!Consume
  <2>4. ASSUME NEW t \in Txs, TxStep(t) PROVE UNCHANGED <<offsets, base, got>>
    BY <2>4 DEF TxStep, Write, Publish, Commit, Abort, posVars
  <2>5. ASSUME NEW d \in Dispatchers,
               \/ EnsureConsumerGroup(d) \/ TakeSnapshot(d) \/ FetchNothing(d) \/ FetchMessages(d)
               \/ Restart(d) \/ Fail(d)
        PROVE  UNCHANGED <<offsets, base, got>>
    BY <2>5 DEF EnsureConsumerGroup, TakeSnapshot, FetchNothing, FetchMessages, Restart, Fail, posVars
  <2>6. CASE UNCHANGED vars
    BY <2>6 DEF vars, posVars
  <2>. QED  BY <2>1, <2>2, <2>3, <2>4, <2>5, <2>6 DEF Next, Dispatch
<1>. QED  BY <1>1, <1>2 DEF Log!Next

LEMMA InitRefines == Init => Log!Init
BY DEF Init, Zero, StableLog, Log!Init, Log!Start

\* The outbox is an ordered log to its consumers: the rows below the xmin only ever grow at
\* their end, and every consumer group reads them from its offset without passing one over
\* (_fetch_messages() under the xmin rule, _ack_message() and set_position()).
THEOREM OutboxImplementsLog ==
  ASSUME ConsistentPartitions
  PROVE  Spec => ImplementsLog
<1>1. StableInv /\ IInv /\ [Next]_vars => StableInv'
  BY StableStep DEF IInv
<1>2. StableInv /\ IInv /\ IInv' /\ [Next]_vars => [Log!Next]_(Log!vars)
  BY StepRefines
<1>. QED  BY <1>1, <1>2, StableInit, InitRefines, Invariance, PTL DEF Spec, ImplementsLog, Log!Spec
=============================================================================
