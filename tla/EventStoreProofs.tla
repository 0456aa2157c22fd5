-------------------------- MODULE EventStoreProofs --------------------------
(***************************************************************************)
(* Proofs about EventStore, for any sessions, streams, use cases and bounds: *)
(* its types, and that it implements EventLog; then about its keys: with     *)
(* operators that do not delete while a rewrap runs (Exclusive), what is     *)
(* shredded stays shredded, and every event not shredded can be read.        *)
(***************************************************************************)
EXTENDS EventStore, FiniteSetTheorems, TLAPS

\* Where a use case can be.
Placed(s) ==
  \/ op[s] = "none" /\ pc[s] = "idle"
  \/ op[s] = "load" /\ pc[s] \in {"unwrap", "fold"}
  \/ op[s] = "save" /\ pc[s] \in {"decide", "selectDek", "unwrap", "currentKek", "rotate",
                                  "insertKek", "insertDek", "insert", "commit"}
  \/ op[s] = "rotate" /\ pc[s] \in {"rotate", "insertKek", "commit"}
  \/ op[s] = "rewrap" /\ pc[s] \in {"next", "unwrap", "currentKek", "rotate", "insertKek",
                                    "updateDek", "commit"}
  \/ op[s] \in Deletes /\ pc[s] \in {"delete", "commit"}

\* What a use case has in hand where it uses it.
InHand(s) ==
  /\ pc[s] \in {"unwrap", "fold", "insertDek", "insert", "updateDek"} => cur[s] \in Dek
  /\ op[s] = "rewrap" /\ pc[s] \in {"currentKek", "rotate", "insertKek"} => cur[s] \in Dek
  /\ op[s] \in {"load", "save", "deleteDek"} => stream[s] \in Streams
  /\ op[s] = "rewrap" /\ pc[s] \notin {"next", "commit"} => stream[s] \in Streams
  /\ pc[s] = "insertKek" => kek[s] \in [ver: Versions, key: KeyIds]

PlaceInv == \A s \in Sessions : Placed(s) /\ InHand(s)

\* The rows with these positions, no others.
Covers(rows, lo, hi) ==
  /\ \A e \in rows : e.pos \in lo..hi
  /\ \A p \in lo..hi : \E e \in rows : e.pos = p

\* A saving session has inserted the events it decided up to agg.saved.
BatchInv ==
  \A s \in Sessions :
    /\ op[s] # "save" => eventWrites[s] = {}
    /\ op[s] = "save" =>
         /\ agg[s] \in Aggregate
         /\ agg[s].seen <= agg[s].saved /\ agg[s].saved <= agg[s].version
         /\ agg[s].version <= agg[s].seen + MaxBatch
         /\ pc[s] = "decide" => agg[s].saved = agg[s].seen
         /\ pc[s] = "commit" => agg[s].saved = agg[s].version
         /\ pc[s] \notin {"decide", "commit"} => agg[s].saved < agg[s].version
         /\ \A e \in eventWrites[s] : e.stream = stream[s] /\ e.seen = agg[s].seen
         /\ Covers(eventWrites[s], agg[s].seen + 1, agg[s].saved)

\* One row at a position of a stream, committed or not.
PositionInv ==
  /\ \A e, f \in events : e.stream = f.stream /\ e.pos = f.pos => e = f
  /\ \A s \in Sessions :
       /\ \A e, f \in eventWrites[s] : e.pos = f.pos => e = f
       /\ \A e \in eventWrites[s], f \in events : e.stream = f.stream => e.pos # f.pos
       /\ \A o \in Sessions \ {s} : \A e \in eventWrites[s], f \in eventWrites[o] :
            e.stream = f.stream => e.pos # f.pos

LengthInv ==
  \A st \in Streams : \E n \in 0..MaxEvents : Covers(EventsOf(events, st), 1, n)

\* An aggregate was loaded from committed events, and nothing was appended to the stream
\* since, once a row of it is inserted.
SeenInv ==
  \A s \in Sessions : op[s] = "save" =>
    /\ \A p \in 1..agg[s].seen : \E e \in EventsOf(events, stream[s]) : e.pos = p
    /\ eventWrites[s] # {} => Covers(EventsOf(events, stream[s]), 1, agg[s].seen)

IInv == /\ TypeOK /\ PlaceInv /\ BatchInv /\ PositionInv /\ LengthInv /\ SeenInv

-----------------------------------------------------------------------------
(***************************************************************************)
(* Rows, and how many there are.                                            *)
(***************************************************************************)
LEMMA RowTypes ==
  /\ \A k \in Kek : k # None /\ k # Untouched
  /\ \A d \in Dek : d # None /\ d # Untouched
  /\ None # Untouched
BY DEF Kek, Dek, None, Untouched

LEMMA SeenTypes ==
  ASSUME TypeOK, NEW s \in Sessions
  PROVE  /\ \A v \in Versions : KekSeen(s, v) \in Kek \cup {None}
         /\ \A st \in Streams : DekSeen(s, st) \in Dek \cup {None}
BY DEF TypeOK, KeyTypeOK, KekSeen, DekSeen

\* Rows with the positions 1 to n, one row at each, are n rows.
LEMMA CoversCount ==
  ASSUME NEW rows, NEW n \in Nat, Covers(rows, 1, n),
         \A e, f \in rows : e.pos = f.pos => e = f
  PROVE  IsFiniteSet(rows) /\ Cardinality(rows) = n
<1>. DEFINE at == [e \in rows |-> e.pos]
<1>1. at \in Injection(rows, 1..n) /\ at \in Surjection(rows, 1..n)
  BY DEF Covers, Injection, Surjection, IsInjective
<1>2. IsFiniteSet(1..n) /\ Cardinality(1..n) = n
  BY FS_Interval
<1>. QED  BY <1>1, <1>2, FS_Injection

-----------------------------------------------------------------------------
(***************************************************************************)
(* Types, and where a use case is with what in hand.                        *)
(***************************************************************************)
LEMMA CurrentKekTypes ==
  ASSUME TypeOK, NEW s \in Sessions, NEW v \in CurrentKek(s)
  PROVE  v \in Versions /\ KekSeen(s, v) \in Kek
BY SeenTypes DEF CurrentKek, KekVersions

\* The keys made and the data keys wrapped are ones.
LEMMA NewKeyTypes ==
  ASSUME TypeOK, PlaceInv, NEW s \in Sessions
  PROVE  /\ GenerateDek(s) => \E d \in Dek : cur' = [cur EXCEPT ![s] = d] /\ minted + 1 \in 0..MaxKeys
         /\ EncryptDek(s) => \E d \in Dek : cur' = [cur EXCEPT ![s] = d]
         /\ RotateKek(s) => \E k \in [ver: Versions, key: KeyIds] :
                             kek' = [kek EXCEPT ![s] = k] /\ minted + 1 \in 0..MaxKeys
<1>. USE KeyStoreAssumption
<1>1. ASSUME GenerateDek(s)
      PROVE  \E d \in Dek : cur' = [cur EXCEPT ![s] = d] /\ minted + 1 \in 0..MaxKeys
  <2>1. PICK v \in CurrentKek(s) :
          cur' = [cur EXCEPT ![s] = Encrypt(minted + 1, v, KekSeen(s, v))]
    BY <1>1 DEF GenerateDek
  <2>2. Encrypt(minted + 1, v, KekSeen(s, v)) \in Dek /\ minted + 1 \in 0..MaxKeys
    BY <1>1, CurrentKekTypes DEF GenerateDek, Encrypt, Dek, Kek, KeyIds, TypeOK, KeyTypeOK
  <2>. QED  BY <2>1, <2>2
<1>2. ASSUME EncryptDek(s)
      PROVE  \E d \in Dek : cur' = [cur EXCEPT ![s] = d]
  <2>1. PICK v \in CurrentKek(s) :
          cur' = [cur EXCEPT ![s] = Encrypt(cur[s].dek, v, KekSeen(s, v))]
    BY <1>2 DEF EncryptDek
  <2>2. cur[s] \in Dek
    BY <1>2 DEF EncryptDek, PlaceInv, InHand
  <2>3. Encrypt(cur[s].dek, v, KekSeen(s, v)) \in Dek
    BY <2>2, CurrentKekTypes DEF Encrypt, Dek, Kek
  <2>. QED  BY <2>1, <2>3
<1>3. ASSUME RotateKek(s)
      PROVE  \E k \in [ver: Versions, key: KeyIds] :
               kek' = [kek EXCEPT ![s] = k] /\ minted + 1 \in 0..MaxKeys
  <2>1. PICK new \in NewKeks(CurrentKek(s)) : kek' = [kek EXCEPT ![s] = new]
    BY <1>3 DEF RotateKek
  <2>2. new \in [ver: Versions, key: KeyIds] /\ minted + 1 \in 0..MaxKeys
    BY <1>3 DEF RotateKek, NewKeks, KeyIds, TypeOK, KeyTypeOK
  <2>. QED  BY <2>1, <2>2
<1>. QED  BY <1>1, <1>2, <1>3

LEMMA KeyStepTypes ==
  ASSUME TypeOK, PlaceInv, NEW s \in Sessions, KeyStep(s), UNCHANGED eventVars
  PROVE  TypeOK'
<1>. USE KeyStoreAssumption
<1>0. SUFFICES KeyTypeOK'
  BY DEF TypeOK, eventVars
<1>1. CASE SelectLatestDek(s)
  <2>1. stream[s] \in Streams
    BY <1>1 DEF SelectLatestDek, PlaceInv, Placed, InHand, Deletes
  <2>. QED  BY <1>1, <2>1, SeenTypes DEF TypeOK, KeyTypeOK, SelectLatestDek, tableVars, Goto, PCs
<1>2. CASE DecryptDek(s)
  BY <1>2 DEF TypeOK, KeyTypeOK, DecryptDek, tableVars, Goto, PCs
<1>3. CASE InsertDek(s)
  <2>1. stream[s] \in Streams /\ cur[s] \in Dek
    BY <1>3 DEF InsertDek, PlaceInv, Placed, InHand, Deletes
  <2>. QED  BY <1>3, <2>1 DEF TypeOK, KeyTypeOK, InsertDek, Goto, PCs
<1>4. CASE NoCurrentKek(s)
  BY <1>4 DEF TypeOK, KeyTypeOK, NoCurrentKek, tableVars, Goto, PCs
<1>5. CASE GenerateDek(s)
  <2>1. PICK k \in Dek : cur' = [cur EXCEPT ![s] = k]
    BY <1>5, NewKeyTypes
  <2>. QED  BY <1>5, <2>1, NewKeyTypes DEF TypeOK, KeyTypeOK, GenerateDek, tableVars, Goto, PCs
<1>6. CASE EncryptDek(s)
  <2>1. PICK k \in Dek : cur' = [cur EXCEPT ![s] = k]
    BY <1>6, NewKeyTypes
  <2>. QED  BY <1>6, <2>1, NewKeyTypes DEF TypeOK, KeyTypeOK, EncryptDek, tableVars, Goto, PCs
<1>7. CASE RotateKek(s)
  <2>1. PICK k \in [ver: Versions, key: KeyIds] : kek' = [kek EXCEPT ![s] = k]
    BY <1>7, NewKeyTypes
  <2>. QED  BY <1>7, <2>1, NewKeyTypes DEF TypeOK, KeyTypeOK, RotateKek, tableVars, Goto, PCs
<1>8. CASE SaveKek(s)
  <2>1. kek[s].ver \in Versions /\ [key |-> kek[s].key] \in Kek
    BY <1>8 DEF SaveKek, PlaceInv, InHand, Kek
  <2>. QED  BY <1>8, <2>1 DEF TypeOK, KeyTypeOK, SaveKek, Goto, PCs
<1>9. CASE BeginRotate(s)
  BY <1>9 DEF TypeOK, KeyTypeOK, BeginRotate, Begin, tableVars, Goto, PCs, AllOps
<1>10. CASE BeginRewrap(s)
  BY <1>10 DEF TypeOK, KeyTypeOK, BeginRewrap, Begin, tableVars, Goto, PCs, AllOps
<1>11. CASE BeginDelete(s)
  <2>1. ASSUME NEW o \in Deletes, Begin(s, o, "delete"), UNCHANGED todo,
               \/ UNCHANGED stream
               \/ \E st \in Streams : stream' = [stream EXCEPT ![s] = st]
        PROVE  KeyTypeOK'
    <3>1. stream' \in [Sessions -> Streams \cup {NoStream}]
      BY <2>1 DEF TypeOK, KeyTypeOK
    <3>2. op' \in [Sessions -> AllOps \cup {"none"}] /\ pc' \in [Sessions -> PCs]
      BY <2>1 DEF TypeOK, KeyTypeOK, Begin, Goto, PCs, AllOps, Deletes
    <3>. QED  BY <2>1, <3>1, <3>2 DEF TypeOK, KeyTypeOK, Begin, tableVars
  <2>. QED  BY <1>11, <2>1 DEF BeginDelete, Deletes
<1>12. CASE RewrapNext(s)
  <2>1. ASSUME NEW r \in todo[s],
               stream' = [stream EXCEPT ![s] = r.stream],
               cur' = [cur EXCEPT ![s] = r.row],
               todo' = [todo EXCEPT ![s] = @ \ {r}],
               Goto(s, "unwrap")
        PROVE  KeyTypeOK'
    <3>1. r.stream \in Streams /\ r.row \in Dek /\ todo[s] \in SUBSET [stream: Streams, row: Dek]
      BY DEF TypeOK, KeyTypeOK
    <3>. QED  BY <1>12, <2>1, <3>1 DEF TypeOK, KeyTypeOK, RewrapNext, tableVars, Goto, PCs
  <2>. QED  BY <1>12, <2>1 DEF TypeOK, KeyTypeOK, RewrapNext, tableVars, Goto, PCs
<1>13. CASE UpdateDek(s)
  <2>1. stream[s] \in Streams /\ cur[s] \in Dek
    BY <1>13 DEF UpdateDek, PlaceInv, Placed, InHand, Deletes
  <2>. QED  BY <1>13, <2>1 DEF TypeOK, KeyTypeOK, UpdateDek, Goto, PCs
<1>14. CASE DeleteKek(s)
  <2>1. StoredDeks(Streams) \subseteq KeyIds
    BY RowTypes DEF StoredDeks, TypeOK, KeyTypeOK, Dek
  <2>2. {KekSeen(s, v).key : v \in KekVersions(s)} \subseteq KeyIds
    BY SeenTypes DEF KekVersions, Kek
  <2>. QED  BY <1>14, <2>1, <2>2
            DEF TypeOK, KeyTypeOK, DeleteKek, DeleteVersions, Goto, PCs, KekVersions
<1>15. CASE DeleteDek(s)
  <2>1. stream[s] \in Streams
    BY <1>15 DEF DeleteDek, PlaceInv, InHand
  <2>2. StoredDeks({stream[s]}) \subseteq KeyIds
    BY <2>1, RowTypes DEF StoredDeks, TypeOK, KeyTypeOK, Dek
  <2>. QED  BY <1>15, <2>1, <2>2 DEF TypeOK, KeyTypeOK, DeleteDek, Goto, PCs
<1>. QED
  BY <1>1, <1>2, <1>3, <1>4, <1>5, <1>6, <1>7, <1>8, <1>9, <1>10, <1>11, <1>12, <1>13, <1>14,
     <1>15 DEF KeyStep

\* A step of one session leaves the others where they are, with what they have in hand.
LEMMA KeyStepOthers ==
  ASSUME TypeOK, NEW s \in Sessions, KeyStep(s), NEW o \in Sessions \ {s}
  PROVE  /\ op'[o] = op[o] /\ pc'[o] = pc[o] /\ stream'[o] = stream[o]
         /\ kek'[o] = kek[o] /\ cur'[o] = cur[o] /\ todo'[o] = todo[o] /\ victims'[o] = victims[o]
         /\ kekWrites'[o] = kekWrites[o] /\ dekWrites'[o] = dekWrites[o]
<1>. USE DEF tableVars, Goto
<1>1. CASE SelectLatestDek(s) \/ DecryptDek(s) \/ InsertDek(s) \/ NoCurrentKek(s)
  BY <1>1 DEF TypeOK, KeyTypeOK, SelectLatestDek, DecryptDek, InsertDek, NoCurrentKek
<1>2. CASE GenerateDek(s) \/ EncryptDek(s) \/ RotateKek(s) \/ SaveKek(s)
  BY <1>2 DEF TypeOK, KeyTypeOK, GenerateDek, EncryptDek, RotateKek, SaveKek
<1>3. CASE BeginRotate(s) \/ BeginRewrap(s) \/ BeginDelete(s)
  BY <1>3 DEF TypeOK, KeyTypeOK, BeginRotate, BeginRewrap, BeginDelete, Begin
<1>4. CASE RewrapNext(s) \/ UpdateDek(s) \/ DeleteKek(s) \/ DeleteDek(s)
  BY <1>4 DEF TypeOK, KeyTypeOK, RewrapNext, UpdateDek, DeleteKek, DeleteVersions, DeleteDek
<1>. QED  BY <1>1, <1>2, <1>3, <1>4 DEF KeyStep


LEMMA KeyStepPlaces ==
  ASSUME TypeOK, PlaceInv, NEW s \in Sessions, KeyStep(s)
  PROVE  PlaceInv'
<1>. USE DEF tableVars, Goto, Deletes
<1>0. SUFFICES Placed(s)' /\ InHand(s)'
  BY KeyStepOthers DEF PlaceInv, Placed, InHand
<1>. Placed(s) /\ InHand(s)
  BY DEF PlaceInv
<1>1. CASE SelectLatestDek(s)
  <2>1. DekSeen(s, stream[s]) \in Dek \cup {None}
    BY <1>1, SeenTypes DEF SelectLatestDek, Placed, InHand
  <2>. QED  BY <1>1, <2>1 DEF TypeOK, KeyTypeOK, SelectLatestDek, Placed, InHand
<1>2. CASE DecryptDek(s)
  <2>1. pc' = [pc EXCEPT ![s] = IF op[s] = "load" THEN "fold"
                                ELSE IF op[s] = "save" THEN "insert" ELSE "currentKek"]
    BY <1>2 DEF DecryptDek
  <2>. QED  BY <1>2, <2>1 DEF TypeOK, KeyTypeOK, DecryptDek, Placed, InHand
<1>3. CASE InsertDek(s) \/ NoCurrentKek(s)
  BY <1>3 DEF TypeOK, KeyTypeOK, InsertDek, NoCurrentKek, Placed, InHand
<1>4. CASE GenerateDek(s) \/ EncryptDek(s)
  <2>1. PICK d \in Dek : cur' = [cur EXCEPT ![s] = d]
    BY <1>4, NewKeyTypes
  <2>. QED  BY <1>4, <2>1 DEF TypeOK, KeyTypeOK, GenerateDek, EncryptDek, Placed, InHand
<1>5. CASE RotateKek(s)
  <2>1. PICK k \in [ver: Versions, key: KeyIds] : kek' = [kek EXCEPT ![s] = k]
    BY <1>5, NewKeyTypes
  <2>. QED  BY <1>5, <2>1 DEF TypeOK, KeyTypeOK, RotateKek, Placed, InHand
<1>6. CASE SaveKek(s)
  BY <1>6 DEF TypeOK, KeyTypeOK, SaveKek, Placed, InHand
<1>7. CASE BeginRotate(s) \/ BeginRewrap(s) \/ BeginDelete(s)
  BY <1>7 DEF TypeOK, KeyTypeOK, BeginRotate, BeginRewrap, BeginDelete, Begin, Placed, InHand
<1>8. CASE RewrapNext(s)
  BY <1>8 DEF TypeOK, KeyTypeOK, RewrapNext, Placed, InHand
<1>9. CASE UpdateDek(s) \/ DeleteKek(s) \/ DeleteDek(s)
  BY <1>9 DEF TypeOK, KeyTypeOK, UpdateDek, DeleteKek, DeleteVersions, DeleteDek, Placed, InHand
<1>. QED
  BY <1>1, <1>2, <1>3, <1>4, <1>5, <1>6, <1>7, <1>8, <1>9 DEF KeyStep

-----------------------------------------------------------------------------
(***************************************************************************)
(* Streams and the batches of saving sessions.                              *)
(***************************************************************************)
LEMMA CoversUnique ==
  ASSUME NEW rows, NEW m \in Nat, NEW n \in Nat, Covers(rows, 1, m), Covers(rows, 1, n)
  PROVE  m = n
<1>1. \A i, j \in Nat : Covers(rows, 1, i) /\ Covers(rows, 1, j) => i <= j
  <2>1. SUFFICES ASSUME NEW i \in Nat, NEW j \in Nat, Covers(rows, 1, i), Covers(rows, 1, j)
                 PROVE  i <= j
    OBVIOUS
  <2>2. i # 0 => \E e \in rows : e.pos = i
    BY <2>1 DEF Covers
  <2>. QED  BY <2>1, <2>2 DEF Covers
<1>. QED  BY <1>1

\* The number of committed events of a stream is the last position.
LEMMA StreamLength ==
  ASSUME TypeOK, PositionInv, LengthInv, NEW st \in Streams
  PROVE  LET rows == EventsOf(events, st) IN
           /\ Cardinality(rows) \in 0..MaxEvents
           /\ Covers(rows, 1, Cardinality(rows))
<1>. DEFINE rows == EventsOf(events, st)
<1>1. PICK n \in 0..MaxEvents : Covers(rows, 1, n)
  BY DEF LengthInv
<1>2. \A e, f \in rows : e.pos = f.pos => e = f
  BY DEF PositionInv, EventsOf
<1>3. Cardinality(rows) = n
  BY <1>1, <1>2, CoversCount
<1>. QED  BY <1>1, <1>3

\* Of the sessions that save to a stream one has rows in it.
LEMMA OneWriter ==
  ASSUME TypeOK, PlaceInv, BatchInv, PositionInv, SeenInv,
         NEW s \in Sessions, NEW o \in Sessions, stream[s] = stream[o],
         eventWrites[s] # {}, eventWrites[o] # {}
  PROVE  s = o
<1>1. op[s] = "save" /\ op[o] = "save"
  BY DEF BatchInv
<1>2. agg[s].seen \in Nat /\ agg[o].seen \in Nat
  BY <1>1, EventStoreAssumption DEF BatchInv, Aggregate
<1>3. agg[s].seen = agg[o].seen
  BY <1>1, <1>2, CoversUnique DEF SeenInv
<1>4. ASSUME NEW x \in {s, o}
      PROVE  \E e \in eventWrites[x] : e.pos = agg[x].seen + 1 /\ e.stream = stream[x]
  <2>1. agg[x].saved \in Nat /\ agg[x].seen \in Nat /\ eventWrites[x] # {}
    BY <1>1, <1>2, EventStoreAssumption DEF BatchInv, Aggregate
  <2>2. agg[x].seen + 1 \in agg[x].seen + 1 .. agg[x].saved
    BY <1>1, <2>1 DEF BatchInv, Covers
  <2>. QED  BY <1>1, <2>2 DEF BatchInv, Covers
<1>. QED  BY <1>3, <1>4 DEF PositionInv

LEMMA KeyStepSaves ==
  ASSUME TypeOK, PlaceInv, NEW s \in Sessions, KeyStep(s)
  PROVE  /\ op'[s] = "save" <=> op[s] = "save"
         /\ op[s] = "save" => /\ stream'[s] = stream[s]
                              /\ pc[s] \notin {"decide", "commit"}
                              /\ pc'[s] \notin {"decide", "commit"}
<1>. USE DEF tableVars, Goto, Deletes
<1>. Placed(s)
  BY DEF PlaceInv
<1>1. CASE SelectLatestDek(s) \/ InsertDek(s) \/ NoCurrentKek(s)
  BY <1>1 DEF TypeOK, KeyTypeOK, SelectLatestDek, InsertDek, NoCurrentKek, Placed
<1>2. CASE DecryptDek(s)
  <2>1. pc' = [pc EXCEPT ![s] = IF op[s] = "load" THEN "fold"
                                ELSE IF op[s] = "save" THEN "insert" ELSE "currentKek"]
    BY <1>2 DEF DecryptDek
  <2>. QED  BY <1>2, <2>1 DEF TypeOK, KeyTypeOK, DecryptDek, Placed
<1>3. CASE GenerateDek(s) \/ EncryptDek(s) \/ RotateKek(s) \/ SaveKek(s)
  BY <1>3 DEF TypeOK, KeyTypeOK, GenerateDek, EncryptDek, RotateKek, SaveKek, Placed
<1>4. CASE BeginRotate(s) \/ BeginRewrap(s) \/ BeginDelete(s)
  BY <1>4 DEF TypeOK, KeyTypeOK, BeginRotate, BeginRewrap, BeginDelete, Begin, Placed
<1>5. CASE RewrapNext(s) \/ UpdateDek(s) \/ DeleteKek(s) \/ DeleteDek(s)
  BY <1>5 DEF TypeOK, KeyTypeOK, RewrapNext, UpdateDek, DeleteKek, DeleteVersions, DeleteDek,
              Placed
<1>. QED  BY <1>1, <1>2, <1>3, <1>4, <1>5 DEF KeyStep

LEMMA KeysStep ==
  ASSUME IInv, NEW s \in Sessions, Keys(s)
  PROVE  IInv'
<1>. USE DEF IInv, Keys, eventVars
<1>1. TypeOK' /\ PlaceInv'
  BY KeyStepTypes, KeyStepPlaces
<1>2. BatchInv'
  BY KeyStepOthers, KeyStepSaves DEF BatchInv, Covers
<1>3. PositionInv' /\ LengthInv'
  BY DEF PositionInv, LengthInv, EventsOf, Covers
<1>4. SeenInv'
  <2>1. ASSUME NEW o \in Sessions, op'[o] = "save"
        PROVE  op[o] = "save" /\ stream'[o] = stream[o]
    BY <2>1, KeyStepOthers, KeyStepSaves
  <2>. QED  BY <2>1 DEF SeenInv, EventsOf, Covers
<1>. QED  BY <1>1, <1>2, <1>3, <1>4

-----------------------------------------------------------------------------
(***************************************************************************)
(* One lemma per action of the event store.                                 *)
(***************************************************************************)
LEMMA InitInv == Init => IInv
<1>. USE KeyStoreAssumption, EventStoreAssumption DEF Init, KeyInit
<1>. SUFFICES ASSUME Init PROVE IInv
  OBVIOUS
<1>1. TypeOK
  BY DEF TypeOK, KeyTypeOK, PCs
<1>2. PlaceInv
  BY DEF PlaceInv, Placed, InHand
<1>3. BatchInv /\ PositionInv /\ SeenInv
  BY DEF BatchInv, PositionInv, SeenInv
<1>4. LengthInv
  <2>1. \A st \in Streams : Covers(EventsOf(events, st), 1, 0)
    BY DEF Covers, EventsOf
  <2>2. 0 \in 0..MaxEvents
    OBVIOUS
  <2>. QED  BY <2>1, <2>2 DEF LengthInv
<1>. QED  BY <1>1, <1>2, <1>3, <1>4 DEF IInv

LEMMA CreateStep ==
  ASSUME IInv, NEW s \in Sessions, Create(s)
  PROVE  IInv'
<1>. USE EventStoreAssumption DEF IInv
<1>1. PICK st \in Streams : /\ Begin(s, "save", "decide")
                            /\ stream' = [stream EXCEPT ![s] = st]
                            /\ agg' = [agg EXCEPT ![s] = [seen |-> 0, version |-> 0, saved |-> 0]]
                            /\ UNCHANGED <<todo, events, eventWrites>>
  BY DEF Create
<1>2. [seen |-> 0, version |-> 0, saved |-> 0] \in Aggregate
  BY DEF Aggregate
<1>3. TypeOK'
  BY <1>1, <1>2 DEF TypeOK, KeyTypeOK, Begin, Goto, tableVars, PCs, AllOps
<1>4. PlaceInv'
  BY <1>1 DEF TypeOK, KeyTypeOK, PlaceInv, Placed, InHand, Begin, Goto
<1>5. eventWrites[s] = {} /\ op'[s] = "save" /\ pc'[s] = "decide" /\ stream'[s] = st
  BY <1>1 DEF TypeOK, KeyTypeOK, PlaceInv, Placed, BatchInv, Begin, Goto, Deletes
<1>6. \A o \in Sessions \ {s} : /\ op'[o] = op[o] /\ pc'[o] = pc[o]
                                /\ stream'[o] = stream[o] /\ agg'[o] = agg[o]
  BY <1>1 DEF TypeOK, KeyTypeOK, Begin, Goto
<1>7. agg'[s] = [seen |-> 0, version |-> 0, saved |-> 0]
  BY <1>1 DEF TypeOK
<1>8. BatchInv'
  BY <1>1, <1>2, <1>5, <1>6, <1>7 DEF BatchInv, Covers
<1>9. PositionInv' /\ LengthInv'
  BY <1>1 DEF PositionInv, LengthInv, EventsOf, Covers
<1>10. SeenInv'
  BY <1>1, <1>5, <1>6, <1>7 DEF SeenInv, EventsOf, Covers
<1>. QED  BY <1>3, <1>4, <1>8, <1>9, <1>10

LEMMA BeginLoadStep ==
  ASSUME IInv, NEW s \in Sessions, BeginLoad(s)
  PROVE  IInv'
<1>. USE EventStoreAssumption DEF IInv
<1>1. PICK st \in Streams : /\ pc[s] = "idle"
                            /\ op' = [op EXCEPT ![s] = "load"]
                            /\ stream' = [stream EXCEPT ![s] = st]
                            /\ deks[st] # None /\ cur' = [cur EXCEPT ![s] = deks[st]]
                            /\ Goto(s, "unwrap")
                            /\ UNCHANGED <<tableVars, minted, kek, todo, victims, shredded, eventVars>>
  BY DEF BeginLoad, GetAll
<1>2. deks[st] \in Dek
  BY <1>1 DEF TypeOK, KeyTypeOK
<1>3. TypeOK'
  BY <1>1, <1>2 DEF TypeOK, KeyTypeOK, Goto, tableVars, eventVars, PCs, AllOps
<1>4. PlaceInv'
  BY <1>1, <1>2 DEF TypeOK, KeyTypeOK, PlaceInv, Placed, InHand, Goto
<1>5. /\ UNCHANGED <<events, eventWrites, agg>>
      /\ op[s] # "save" /\ op'[s] # "save"
      /\ \A o \in Sessions \ {s} : op'[o] = op[o] /\ pc'[o] = pc[o] /\ stream'[o] = stream[o]
  BY <1>1 DEF TypeOK, KeyTypeOK, PlaceInv, Placed, Goto, eventVars, Deletes
<1>6. BatchInv'
  BY <1>5 DEF BatchInv, Covers
<1>7. PositionInv' /\ LengthInv'
  BY <1>5 DEF PositionInv, LengthInv, EventsOf, Covers
<1>8. SeenInv'
  BY <1>5 DEF SeenInv, EventsOf, Covers
<1>. QED  BY <1>3, <1>4, <1>6, <1>7, <1>8

LEMMA FoldStep ==
  ASSUME IInv, NEW s \in Sessions, Fold(s)
  PROVE  IInv'
<1>. USE EventStoreAssumption DEF IInv
<1>. DEFINE v == Cardinality(EventsOf(events, stream[s]))
<1>1. /\ pc[s] = "fold" /\ op[s] = "load" /\ stream[s] \in Streams
      /\ agg' = [agg EXCEPT ![s] = [seen |-> v, version |-> v, saved |-> v]]
      /\ op' = [op EXCEPT ![s] = "save"] /\ Goto(s, "decide")
      /\ UNCHANGED <<tableVars, minted, stream, kek, cur, todo, victims, shredded, events, eventWrites>>
  BY DEF Fold, PlaceInv, Placed, InHand, Deletes
<1>2. v \in 0..MaxEvents /\ Covers(EventsOf(events, stream[s]), 1, v)
  BY <1>1, StreamLength
<1>. HIDE DEF v
<1>3. [seen |-> v, version |-> v, saved |-> v] \in Aggregate
  BY <1>2 DEF Aggregate
<1>4. TypeOK'
  BY <1>1, <1>3 DEF TypeOK, KeyTypeOK, Goto, tableVars, PCs, AllOps
<1>5. PlaceInv'
  BY <1>1 DEF TypeOK, KeyTypeOK, PlaceInv, Placed, InHand, Goto
<1>6. /\ eventWrites[s] = {} /\ op'[s] = "save" /\ pc'[s] = "decide"
      /\ agg'[s] = [seen |-> v, version |-> v, saved |-> v]
  BY <1>1 DEF TypeOK, KeyTypeOK, BatchInv, Goto
<1>7. \A o \in Sessions \ {s} : op'[o] = op[o] /\ pc'[o] = pc[o] /\ agg'[o] = agg[o]
  BY <1>1 DEF TypeOK, KeyTypeOK, Goto
<1>8. BatchInv'
  BY <1>1, <1>2, <1>3, <1>6, <1>7 DEF BatchInv, Covers
<1>9. PositionInv' /\ LengthInv'
  BY <1>1 DEF PositionInv, LengthInv, EventsOf, Covers
<1>10. SeenInv'
  BY <1>1, <1>2, <1>6, <1>7 DEF SeenInv, EventsOf, Covers
<1>. QED  BY <1>4, <1>5, <1>8, <1>9, <1>10

LEMMA DecideStep ==
  ASSUME IInv, NEW s \in Sessions, Decide(s)
  PROVE  IInv'
<1>. USE EventStoreAssumption DEF IInv, Decide
<1>1. op[s] = "save" /\ agg[s] \in Aggregate
  BY DEF PlaceInv, Placed, BatchInv, Deletes
<1>2. [agg[s] EXCEPT !.version = @ + 1] \in Aggregate /\ agg[s].version \in Nat /\ agg[s].seen \in Nat
  BY <1>1 DEF Aggregate
<1>3. TypeOK'
  BY <1>2 DEF TypeOK, KeyTypeOK, keyVars, tableVars, localVars
<1>4. PlaceInv'
  BY DEF PlaceInv, Placed, InHand, keyVars, localVars
<1>5. /\ agg'[s] = [agg[s] EXCEPT !.version = @ + 1]
      /\ \A o \in Sessions \ {s} : agg'[o] = agg[o]
  BY DEF TypeOK
<1>6. agg'[s] \in Aggregate /\ agg'[s].version = agg[s].version + 1
      /\ agg'[s].seen = agg[s].seen /\ agg'[s].saved = agg[s].saved
  BY <1>1, <1>2, <1>5 DEF Aggregate
<1>7. BatchInv'
  BY <1>1, <1>2, <1>5, <1>6 DEF BatchInv, Covers, keyVars, localVars, Aggregate
<1>8. PositionInv' /\ LengthInv'
  BY DEF PositionInv, LengthInv, EventsOf, Covers
<1>9. SeenInv'
  BY <1>5, <1>6 DEF SeenInv, EventsOf, Covers, keyVars, localVars
<1>. QED  BY <1>3, <1>4, <1>7, <1>8, <1>9

LEMMA BeginSaveStep ==
  ASSUME IInv, NEW s \in Sessions, BeginSave(s)
  PROVE  IInv'
<1>. USE EventStoreAssumption DEF IInv, BeginSave, Goto
<1>1. op[s] = "save" /\ agg[s] \in Aggregate
  BY DEF PlaceInv, Placed, BatchInv, Deletes
<1>2. TypeOK'
  BY DEF TypeOK, KeyTypeOK, tableVars, eventVars, PCs
<1>3. PlaceInv'
  BY <1>1 DEF TypeOK, KeyTypeOK, PlaceInv, Placed, InHand
<1>4. BatchInv'
  BY <1>1 DEF TypeOK, KeyTypeOK, BatchInv, Covers, eventVars, Aggregate
<1>5. PositionInv' /\ LengthInv' /\ SeenInv'
  BY DEF PositionInv, LengthInv, SeenInv, EventsOf, Covers, eventVars
<1>. QED  BY <1>2, <1>3, <1>4, <1>5

LEMMA FailStep ==
  ASSUME IInv, NEW s \in Sessions, Fail(s)
  PROVE  IInv'
<1>. USE DEF IInv, Fail, FailKeys, EndSession, Leave
<1>1. TypeOK'
  BY DEF TypeOK, KeyTypeOK, PCs
<1>2. PlaceInv'
  BY DEF TypeOK, KeyTypeOK, PlaceInv, Placed, InHand
<1>3. BatchInv'
  BY DEF TypeOK, KeyTypeOK, BatchInv, Covers
<1>4. PositionInv' /\ LengthInv'
  BY DEF TypeOK, PositionInv, LengthInv, EventsOf, Covers
<1>5. /\ op'[s] = "none" /\ events' = events
      /\ \A o \in Sessions \ {s} : /\ op'[o] = op[o] /\ stream'[o] = stream[o]
                                    /\ agg'[o] = agg[o] /\ eventWrites'[o] = eventWrites[o]
  BY DEF TypeOK, KeyTypeOK
<1>6. SeenInv'
  BY <1>5 DEF SeenInv, EventsOf, Covers
<1>. QED  BY <1>1, <1>2, <1>3, <1>4, <1>6

LEMMA InsertEventStep ==
  ASSUME IInv, NEW s \in Sessions, InsertEvent(s)
  PROVE  IInv'
<1>. USE EventStoreAssumption DEF IInv
<1>. DEFINE p == agg[s].saved + 1
            row == Row(s, p)
<1>1. /\ pc[s] = "insert" /\ op[s] = "save" /\ stream[s] \in Streams /\ cur[s] \in Dek
      /\ agg[s] \in Aggregate /\ agg[s].saved < agg[s].version
      /\ agg[s].seen <= agg[s].saved
  BY DEF InsertEvent, InsertAt, PlaceInv, Placed, InHand, BatchInv, Deletes
<1>2. /\ agg[s].seen \in Nat /\ agg[s].saved \in Nat /\ agg[s].version \in 0..MaxEvents
      /\ p \in Positions /\ p \in 0..MaxEvents
  BY <1>1 DEF Aggregate, Positions
<1>3. /\ eventWrites' = [eventWrites EXCEPT ![s] = @ \cup {row}]
      /\ agg' = [agg EXCEPT ![s].saved = @ + 1]
      /\ Goto(s, IF p = agg[s].version THEN "commit" ELSE "insert")
      /\ UNCHANGED <<tableVars, minted, op, stream, kek, cur, todo, victims, shredded, events>>
      /\ PosFree(s, stream[s], p) /\ Vacant(s, stream[s], p)
  BY DEF InsertEvent, InsertAt
<1>4. /\ row \in Event /\ row.stream = stream[s] /\ row.pos = p /\ row.seen = agg[s].seen
  BY <1>1, <1>2 DEF Row, Event, Dek, Aggregate
<1>. HIDE DEF row
<1>5. /\ agg'[s] \in Aggregate /\ agg'[s].saved = p
      /\ agg'[s].seen = agg[s].seen /\ agg'[s].version = agg[s].version
      /\ \A o \in Sessions \ {s} : agg'[o] = agg[o]
  BY <1>1, <1>2, <1>3 DEF TypeOK, Aggregate
<1>6. TypeOK'
  <2>1. agg' \in [Sessions -> Aggregate \cup {None}]
    BY <1>3, <1>5 DEF TypeOK
  <2>2. eventWrites' \in [Sessions -> SUBSET Event]
    BY <1>3, <1>4 DEF TypeOK
  <2>. QED  BY <1>3, <2>1, <2>2 DEF TypeOK, KeyTypeOK, tableVars, Goto, PCs
<1>7. PlaceInv'
  BY <1>1, <1>3 DEF TypeOK, KeyTypeOK, PlaceInv, Placed, InHand, Goto
<1>8. /\ eventWrites'[s] = eventWrites[s] \cup {row}
      /\ \A o \in Sessions \ {s} : eventWrites'[o] = eventWrites[o]
      /\ events' = events /\ op' = op /\ stream' = stream
  BY <1>3 DEF TypeOK
<1>9. /\ pc'[s] = (IF p = agg[s].version THEN "commit" ELSE "insert")
      /\ \A o \in Sessions \ {s} : pc'[o] = pc[o]
  BY <1>3 DEF TypeOK, KeyTypeOK, Goto
<1>10. BatchInv'
  <2>1. Covers(eventWrites'[s], agg[s].seen + 1, p)
    <3>1. Covers(eventWrites[s], agg[s].seen + 1, agg[s].saved)
      BY <1>1 DEF BatchInv
    <3>. QED  BY <1>1, <1>2, <1>4, <1>8, <3>1 DEF Covers
  <2>2. \A e \in eventWrites'[s] : e.stream = stream[s] /\ e.seen = agg[s].seen
    BY <1>1, <1>4, <1>8 DEF BatchInv
  <2>3. ASSUME NEW o \in Sessions
        PROVE  op[o] = "save" => Covers(eventWrites'[o], agg'[o].seen + 1, agg'[o].saved)
    BY <1>5, <1>8, <2>1 DEF BatchInv
  <2>. QED  BY <1>1, <1>2, <1>5, <1>8, <1>9, <2>2, <2>3 DEF BatchInv
<1>11. PositionInv'
  <2>1. \A e \in events \cup eventWrites[s] : e.stream = stream[s] => e.pos # p
    BY <1>3 DEF Vacant, Visible, EventsOf
  <2>2. \A o \in Sessions \ {s} : \A e \in eventWrites[o] : e.stream = stream[s] => e.pos # p
    BY <1>3 DEF PosFree, EventsOf
  <2>3. \A e \in eventWrites[s] : e.stream = stream[s]
    BY <1>1 DEF BatchInv
  <2>. QED  BY <1>4, <1>8, <2>1, <2>2, <2>3 DEF PositionInv
<1>12. LengthInv'
  BY <1>8 DEF LengthInv
<1>13. SeenInv'
  <2>1. Covers(EventsOf(events, stream[s]), 1, agg[s].seen)
    <3>1. CASE eventWrites[s] # {}
      BY <1>1, <3>1 DEF SeenInv
    <3>2. CASE eventWrites[s] = {}
      <4>1. agg[s].saved = agg[s].seen
        BY <1>1, <1>2, <3>2 DEF BatchInv, Covers
      <4>2. PICK n \in 0..MaxEvents : Covers(EventsOf(events, stream[s]), 1, n)
        BY <1>1 DEF LengthInv
      <4>3. ~ (p <= n)
        BY <1>2, <1>3, <4>2 DEF Covers, Vacant, Visible, EventsOf
      <4>4. agg[s].seen <= n
        <5>1. agg[s].seen # 0 => \E e \in EventsOf(events, stream[s]) : e.pos = agg[s].seen
          BY <1>1, <1>2 DEF SeenInv
        <5>. QED  BY <1>2, <4>2, <5>1 DEF Covers
      <4>5. n = agg[s].seen
        BY <1>2, <4>1, <4>3, <4>4
      <4>. QED  BY <4>2, <4>5
    <3>. QED  BY <3>1, <3>2
  <2>. QED  BY <1>5, <1>8, <2>1 DEF SeenInv
<1>. QED  BY <1>6, <1>7, <1>10, <1>11, <1>12, <1>13

\* A batch that is committed follows the events the aggregate was loaded from.
LEMMA BatchFollows ==
  ASSUME IInv, NEW s \in Sessions, pc[s] = "commit", eventWrites[s] # {}
  PROVE  /\ op[s] = "save" /\ stream[s] \in Streams
         /\ agg[s].seen \in Nat /\ agg[s].version \in 0..MaxEvents
         /\ agg[s].seen <= agg[s].version /\ agg[s].version <= agg[s].seen + MaxBatch
         /\ Covers(EventsOf(events, stream[s]), 1, agg[s].seen)
         /\ Covers(eventWrites[s], agg[s].seen + 1, agg[s].version)
         /\ \A e \in eventWrites[s] : e.stream = stream[s] /\ e.seen = agg[s].seen
<1>. USE EventStoreAssumption DEF IInv
<1>1. op[s] = "save" /\ agg[s] \in Aggregate
  BY DEF BatchInv
<1>2. stream[s] \in Streams
  BY <1>1 DEF PlaceInv, InHand
<1>. QED  BY <1>1, <1>2 DEF BatchInv, SeenInv, Aggregate

LEMMA CommitStep ==
  ASSUME IInv, NEW s \in Sessions, Commit(s)
  PROVE  IInv'
<1>. USE KeyStoreAssumption, EventStoreAssumption DEF IInv
<1>1. /\ events' = events \cup eventWrites[s]
      /\ eventWrites' = [eventWrites EXCEPT ![s] = {}]
      /\ agg' = [agg EXCEPT ![s] = None]
      /\ op' = [op EXCEPT ![s] = "none"]
      /\ pc' = [pc EXCEPT ![s] = "idle"]
      /\ stream' = [stream EXCEPT ![s] = NoStream]
      /\ pc[s] = "commit"
  BY DEF Commit, CommitKeys, EndSession, Leave
<1>2. TypeOK'
  <2>1. /\ keks' \in [Versions -> Kek \cup {None}]
        /\ deks' \in [Streams -> Dek \cup {None}]
    BY SeenTypes DEF Commit, CommitKeys
  <2>2. shredded' \subseteq KeyIds
    BY DEF Commit, CommitKeys, TypeOK, KeyTypeOK
  <2>. QED  BY <1>1, <2>1, <2>2 DEF TypeOK, KeyTypeOK, PCs, Commit, CommitKeys, EndSession
<1>3. PlaceInv'
  BY DEF Commit, CommitKeys, EndSession, TypeOK, KeyTypeOK, PlaceInv, Placed, InHand
<1>4. /\ op'[s] = "none" /\ eventWrites'[s] = {}
      /\ \A o \in Sessions \ {s} : /\ op'[o] = op[o] /\ pc'[o] = pc[o] /\ stream'[o] = stream[o]
                                   /\ agg'[o] = agg[o] /\ eventWrites'[o] = eventWrites[o]
  BY <1>1 DEF TypeOK, KeyTypeOK
<1>5. BatchInv'
  BY <1>4 DEF BatchInv, Covers
<1>6. PositionInv'
  <2>1. \A e, f \in eventWrites[s] : e.pos = f.pos => e = f
    BY DEF PositionInv
  <2>2. \A e \in eventWrites[s], f \in events : e.stream = f.stream => e.pos # f.pos
    BY DEF PositionInv
  <2>3. \A o \in Sessions \ {s} : \A e \in eventWrites[o], f \in events' :
          e.stream = f.stream => e.pos # f.pos
    BY <1>1 DEF PositionInv
  <2>4. \A e, f \in events' : e.stream = f.stream /\ e.pos = f.pos => e = f
    BY <1>1, <2>1, <2>2 DEF PositionInv
  <2>. QED  BY <1>4, <2>3, <2>4 DEF PositionInv
<1>7. ASSUME NEW st \in Streams, eventWrites[s] = {} \/ st # stream[s]
      PROVE  EventsOf(events, st)' = EventsOf(events, st)
  <2>1. \A e \in eventWrites[s] : e.stream = stream[s]
    BY <1>1, BatchFollows
  <2>. QED  BY <1>1, <1>7, <2>1 DEF EventsOf
<1>8. LengthInv'
  <2>. SUFFICES ASSUME NEW st \in Streams
                PROVE  \E n \in 0..MaxEvents : Covers(EventsOf(events, st)', 1, n)
    BY DEF LengthInv
  <2>1. CASE eventWrites[s] = {} \/ st # stream[s]
    BY <1>7, <2>1 DEF LengthInv
  <2>2. CASE eventWrites[s] # {} /\ st = stream[s]
    <3>1. EventsOf(events, st)' = EventsOf(events, st) \cup eventWrites[s]
      BY <1>1, <2>2, BatchFollows DEF EventsOf
    <3>2. Covers(EventsOf(events, st)', 1, agg[s].version)
      <4>1. /\ Covers(EventsOf(events, st), 1, agg[s].seen)
            /\ Covers(eventWrites[s], agg[s].seen + 1, agg[s].version)
            /\ agg[s].seen \in Nat /\ agg[s].version \in Nat /\ agg[s].seen <= agg[s].version
        BY <1>1, <2>2, BatchFollows
      <4>2. \A p \in 1..agg[s].version : p \in 1..agg[s].seen \/ p \in agg[s].seen + 1..agg[s].version
        BY <4>1
      <4>. QED  BY <3>1, <4>1, <4>2 DEF Covers
    <3>. QED  BY <1>1, <2>2, <3>2, BatchFollows
  <2>. QED  BY <2>1, <2>2
<1>9. SeenInv'
  <2>. SUFFICES ASSUME NEW o \in Sessions, o # s, op[o] = "save"
                PROVE  /\ \A p \in 1..agg[o].seen : \E e \in EventsOf(events, stream[o])' : e.pos = p
                       /\ eventWrites[o] # {} =>
                            Covers(EventsOf(events, stream[o])', 1, agg[o].seen)
    BY <1>4 DEF SeenInv
  <2>1. stream'[o] = stream[o] /\ stream[o] \in Streams
    BY <1>4 DEF PlaceInv, InHand
  <2>2. EventsOf(events, stream[o]) \subseteq EventsOf(events, stream[o])'
    BY <1>1, <2>1 DEF EventsOf
  <2>3. eventWrites[o] # {} => EventsOf(events, stream[o])' = EventsOf(events, stream[o])
    <3>1. eventWrites[o] # {} => eventWrites[s] = {} \/ stream[o] # stream[s]
      BY OneWriter
    <3>. QED  BY <1>1, <1>7, <2>1, <3>1 DEF EventsOf
  <2>. QED  BY <2>2, <2>3 DEF SeenInv
<1>. QED  BY <1>2, <1>3, <1>5, <1>6, <1>8, <1>9

LEMMA Invariance == Spec => []IInv
<1>1. IInv /\ [Next]_vars => IInv'
  <2>. SUFFICES ASSUME IInv, [Next]_vars PROVE IInv'
    OBVIOUS
  <2>1. CASE UNCHANGED vars
    <3>. USE <2>1 DEF vars, keyVars, tableVars, localVars, eventVars, IInv
    <3>1. TypeOK' /\ PlaceInv'
      BY DEF TypeOK, KeyTypeOK, PlaceInv, Placed, InHand
    <3>2. BatchInv' /\ PositionInv' /\ LengthInv' /\ SeenInv'
      BY DEF BatchInv, PositionInv, LengthInv, SeenInv, Covers, EventsOf
    <3>. QED  BY <3>1, <3>2
  <2>2. ASSUME NEW s \in Sessions, Create(s) \/ BeginLoad(s) \/ Fold(s) \/ Decide(s)
        PROVE  IInv'
    BY <2>2, CreateStep, BeginLoadStep, FoldStep, DecideStep
  <2>3. ASSUME NEW s \in Sessions,
               BeginSave(s) \/ InsertEvent(s) \/ Keys(s) \/ Commit(s) \/ Fail(s)
        PROVE  IInv'
    BY <2>3, BeginSaveStep, InsertEventStep, KeysStep, CommitStep, FailStep
  <2>. QED  BY <2>1, <2>2, <2>3 DEF Next
<1>. QED  BY InitInv, <1>1, PTL DEF Spec

\* Every variable of the key store and the event store keeps its type: in particular what is
\* wrapped, inserted or folded is there when the code uses it, and no stream outgrows the
\* positions its rows have.
THEOREM TypeCorrect == Spec => []TypeOK
<1>1. IInv => TypeOK
  BY DEF IInv
<1>. QED  BY Invariance, <1>1, PTL

-----------------------------------------------------------------------------
(***************************************************************************)
(* The refinement of EventLog.                                              *)
(***************************************************************************)
Bare(e) == [stream |-> e.stream, pos |-> e.pos, seen |-> e.seen]

Stored == {[stream |-> e.stream, pos |-> e.pos, seen |-> e.seen] : e \in events}

LEMMA StoredLength ==
  ASSUME TypeOK, PositionInv, NEW st \in Streams, NEW n \in Nat, Covers(EventsOf(events, st), 1, n)
  PROVE  Log!Length(st) = n
<1>. DEFINE rows == {r \in Stored : r.stream = st}
<1>1. \A r \in rows : \E e \in EventsOf(events, st) : r = Bare(e)
  BY DEF Stored, EventsOf, Bare
<1>2. \A e \in EventsOf(events, st) : Bare(e) \in rows /\ Bare(e).pos = e.pos
  BY DEF Stored, EventsOf, Bare
<1>3. Covers(rows, 1, n)
  BY <1>1, <1>2 DEF Covers
<1>4. \A r, q \in rows : r.pos = q.pos => r = q
  BY <1>1, <1>2 DEF PositionInv, EventsOf
<1>5. Cardinality(rows) = n
  BY <1>3, <1>4, CoversCount
<1>. QED  BY <1>5, Zenon DEF Log!Length, Stored, Log!Cardinality, Cardinality

\* A commit appends the batch, if any, right after the events its author had loaded.
LEMMA CommitAppends ==
  ASSUME IInv, NEW s \in Sessions, Commit(s)
  PROVE  Log!Next \/ UNCHANGED Stored
<1>. USE EventStoreAssumption DEF IInv
<1>1. pc[s] = "commit" /\ events' = events \cup eventWrites[s]
  BY DEF Commit, CommitKeys
<1>2. CASE eventWrites[s] = {}
  BY <1>1, <1>2 DEF Stored
<1>3. CASE eventWrites[s] # {}
  <2>. DEFINE a == agg[s]
              k == a.version - a.seen
              new == {[stream |-> stream[s], pos |-> a.seen + i, seen |-> a.seen] : i \in 1..k}
  <2>1. /\ stream[s] \in Streams /\ a.seen \in Nat /\ a.version \in Nat
        /\ a.seen <= a.version /\ a.version <= a.seen + MaxBatch
        /\ Covers(EventsOf(events, stream[s]), 1, a.seen)
        /\ Covers(eventWrites[s], a.seen + 1, a.version)
        /\ \A e \in eventWrites[s] : e.stream = stream[s] /\ e.seen = a.seen
    BY <1>1, <1>3, BatchFollows
  <2>2. k \in 1..MaxBatch
    BY <1>3, <2>1 DEF Covers
  <2>3. Log!Length(stream[s]) = a.seen
    BY <2>1, StoredLength
  <2>4. {Bare(e) : e \in eventWrites[s]} = new
    <3>1. ASSUME NEW e \in eventWrites[s]
          PROVE  Bare(e) \in new
      <4>1. e.pos - a.seen \in 1..k /\ a.seen + (e.pos - a.seen) = e.pos
        BY <2>1 DEF Covers
      <4>. QED  BY <2>1, <4>1 DEF Bare
    <3>2. ASSUME NEW i \in 1..k
          PROVE  \E e \in eventWrites[s] :
                   Bare(e) = [stream |-> stream[s], pos |-> a.seen + i, seen |-> a.seen]
      <4>1. a.seen + i \in a.seen + 1 .. a.version
        BY <2>1
      <4>. QED  BY <2>1, <4>1 DEF Covers, Bare
    <3>. QED  BY <3>1, <3>2
  <2>5. Stored' = Stored \cup {Bare(e) : e \in eventWrites[s]}
    BY <1>1 DEF Stored, Bare
  <2>6. \E st \in Streams, n \in 1..MaxBatch :
          Stored' = Stored \cup {[stream |-> st, pos |-> Log!Length(st) + i,
                                seen |-> Log!Length(st)] : i \in 1..n}
    <3>. stream[s] \in Streams /\ k \in 1..MaxBatch
      BY <2>1, <2>2
    <3>. WITNESS stream[s] \in Streams, k \in 1..MaxBatch
    <3>. QED  BY <2>3, <2>4, <2>5
  <2>. QED  BY <2>6 DEF Log!Next, Log!Append, Stored
<1>. QED  BY <1>2, <1>3

LEMMA LogStep == IInv /\ [Next]_vars => Log!Next \/ UNCHANGED Stored
<1>. SUFFICES ASSUME IInv, [Next]_vars PROVE Log!Next \/ UNCHANGED Stored
  OBVIOUS
<1>1. ASSUME UNCHANGED events PROVE UNCHANGED Stored
  BY <1>1 DEF Stored
<1>2. CASE UNCHANGED vars
  BY <1>1, <1>2 DEF vars, eventVars
<1>3. ASSUME NEW s \in Sessions, ~Commit(s),
             \/ Create(s) \/ BeginLoad(s) \/ Fold(s) \/ Decide(s) \/ BeginSave(s)
             \/ InsertEvent(s) \/ Keys(s) \/ Fail(s)
      PROVE  UNCHANGED events
  BY <1>3 DEF Create, BeginLoad, Fold, Decide, BeginSave, InsertEvent, InsertAt, Keys, Fail, eventVars
<1>. QED  BY <1>1, <1>2, <1>3, CommitAppends DEF Next

\* Two sessions that load the same stream and save never both succeed, and a batch is stored as
\* a whole: for any number of them, and however their loads, inserts and commits interleave
\* with rotations, rewraps and deletes of the keys, event_log is the log of appends, each right
\* after the events its author had loaded.
THEOREM Implementation == Spec => ImplementsEventLog
<1>1. Init => Log!Init
  BY DEF Init, Log!Init
<1>2. IInv /\ [Next]_vars => [Log!Next]_Stored
  BY LogStep
<1>. QED  BY Invariance, <1>1, <1>2, PTL DEF Spec, ImplementsEventLog, Log!Spec, Stored

-----------------------------------------------------------------------------
(* The keys.                                                                *)

\* The serial numbers of committed KEKs, of those a session has generated and not
\* committed, and of the DEK it has generated and not committed.
CommittedKeks == {k \in KeyIds : \E v \in Versions : keks[v] = [key |-> k]}

PendingKeks(s) ==
  {k \in KeyIds : \/ \E v \in Versions : kekWrites[s][v] = [key |-> k]
                  \/ pc[s] = "insertKek" /\ kek[s].key = k}

NewDeks(s) ==
  {d \in KeyIds : \/ pc[s] = "insertDek" /\ cur[s].dek = d
                  \/ /\ op[s] = "save"
                     /\ \E st \in Streams : dekWrites[s][st] \in Dek /\ dekWrites[s][st].dek = d}

\* The wrapped DEKs a session has fetched or made.
RowsOf(s) ==
  {r \in Dek : \/ cur[s] = r
               \/ \E st \in Streams : dekWrites[s][st] = r
               \/ \E st \in Streams : [stream |-> st, row |-> r] \in todo[s]}

StoredRows == {r \in Dek : \E st \in Streams : deks[st] = r}

\* A rewrap and a delete do not meet.
ExclusiveInv == \A s, o \in Sessions : op[s] = "rewrap" => op[o] \notin Deletes

\* A row that a transaction has written is locked.
LockInv ==
  \A s, o \in Sessions :
    /\ \A v \in Versions : kekWrites[s][v] # Untouched /\ kekWrites[o][v] # Untouched => s = o
    /\ \A st \in Streams : dekWrites[s][st] # Untouched /\ dekWrites[o][st] # Untouched => s = o

\* What each use case writes: a save a first DEK, a rewrap the DEK of the stream under another
\* KEK, a delete nothing but deletions, all of them together; KEKs are inserted where none is.
Writes(s) ==
  /\ \A v \in Versions :
       \/ kekWrites[s][v] = Untouched
       \/ kekWrites[s][v] \in Kek /\ keks[v] = None /\ op[s] \in {"save", "rotate", "rewrap"}
       \/ /\ kekWrites[s][v] = None /\ op[s] = "deleteKek" /\ pc[s] = "commit"
          /\ keks[v] # None /\ keks[v].key \in victims[s]
  /\ \A st \in Streams :
       \/ dekWrites[s][st] = Untouched
       \/ dekWrites[s][st] \in Dek /\ deks[st] = None /\ op[s] = "save" /\ st = stream[s]
       \/ /\ dekWrites[s][st] \in Dek /\ deks[st] # None /\ op[s] = "rewrap"
          /\ deks[st].dek = dekWrites[s][st].dek /\ deks[st].dek \notin shredded
       \/ /\ dekWrites[s][st] = None /\ op[s] = "deleteDek" /\ pc[s] = "commit"
          /\ deks[st] # None /\ deks[st].dek \in victims[s] /\ st = stream[s]

WriteInv == \A s \in Sessions : Writes(s)

\* A rewrap has the DEKs of the streams in hand; the one it wraps again was not shredded.
Rewraps(s) ==
  /\ \A r \in todo[s] : op[s] = "rewrap" /\ deks[r.stream] # None /\ deks[r.stream].dek = r.row.dek
  /\ op[s] = "rewrap" /\ pc[s] \notin {"next", "commit"} =>
       deks[stream[s]] # None /\ deks[stream[s]].dek = cur[s].dek
  /\ op[s] = "rewrap" /\ pc[s] \in {"currentKek", "rotate", "insertKek", "updateDek"} =>
       cur[s].dek \notin shredded

RewrapInv == \A s \in Sessions : Rewraps(s)

\* Serial numbers are handed out once.
SerialInv ==
  /\ CommittedKeks \cup shredded \subseteq 1..minted
  /\ \A r \in StoredRows : r.dek \in 1..minted /\ r.kek \in 1..minted
  /\ \A s \in Sessions :
       /\ PendingKeks(s) \cup NewDeks(s) \cup victims[s] \subseteq 1..minted
       /\ \A r \in RowsOf(s) : r.kek \in 1..minted

FreshInv ==
  /\ \A x, y \in Streams : deks[x] # None /\ deks[y] # None /\ deks[x].dek = deks[y].dek => x = y
  /\ \A s \in Sessions :
       /\ PendingKeks(s) \cap CommittedKeks = {}
       /\ NewDeks(s) \cap CommittedKeks = {}
       /\ NewDeks(s) \cap shredded = {}
       /\ \A r \in StoredRows : r.kek \notin PendingKeks(s) /\ r.dek \notin NewDeks(s)
       /\ \A o \in Sessions : /\ NewDeks(s) \cap (PendingKeks(o) \cup victims[o]) = {}
                              /\ s # o => PendingKeks(s) \cap PendingKeks(o) = {}
                              /\ s # o => NewDeks(s) \cap NewDeks(o) = {}
                              /\ s # o => \A r \in RowsOf(s) : r.kek \notin PendingKeks(o)
       /\ \A r \in todo[s] : r.row.kek \notin PendingKeks(s)
       /\ op[s] = "rewrap" /\ pc[s] = "unwrap" => cur[s].kek \notin PendingKeks(s)

\* A DEK that was shredded is under a KEK that is gone.
Gone(r) == r.dek \in shredded => r.kek \notin CommittedKeks

GoneInv ==
  /\ \A r \in StoredRows : Gone(r)
  /\ \A s \in Sessions : /\ \A r \in todo[s] : Gone(r.row)
                         /\ op[s] = "rewrap" /\ pc[s] = "unwrap" => Gone(cur[s])

\* What a delete covers, it deletes.
Covered(s) ==
  pc[s] = "commit" =>
    /\ op[s] = "deleteKek" =>
         \A st \in Streams, v \in Versions :
           deks[st] # None /\ deks[st].dek \in victims[s] /\ keks[v] = [key |-> deks[st].kek]
             => kekWrites[s][v] = None
    /\ op[s] = "deleteDek" =>
         \A st \in Streams : deks[st] # None /\ deks[st].dek \in victims[s] => dekWrites[s][st] = None

VictimInv == \A s \in Sessions : Covered(s) /\ (victims[s] # {} => op[s] \in Deletes /\ pc[s] = "commit")

KeyInv ==
  /\ ExclusiveInv /\ LockInv /\ WriteInv /\ RewrapInv /\ SerialInv /\ FreshInv /\ GoneInv /\ VictimInv

\* A DEK opens under the KEK of its version as a session sees it, or that KEK was shredded.
OpenInv ==
  /\ \A st \in Streams : deks[st] # None =>
       Opens(deks[st], keks[deks[st].ver]) \/ deks[st].kek \in shredded
  /\ \A s \in Sessions :
       /\ \A st \in Streams : dekWrites[s][st] \in Dek =>
            \/ Opens(dekWrites[s][st], KekSeen(s, dekWrites[s][st].ver))
            \/ dekWrites[s][st].kek \in shredded
       /\ pc[s] \in {"insertDek", "updateDek"} =>
            Opens(cur[s], KekSeen(s, cur[s].ver)) \/ cur[s].kek \in shredded

\* An event is under the DEK of its stream as its session sees it, or that DEK was shredded.
EventKeyInv ==
  /\ \A e \in events : (deks[e.stream] # None /\ deks[e.stream].dek = e.dek) \/ e.dek \in shredded
  /\ \A s \in Sessions :
       /\ \A e \in eventWrites[s] :
            \/ DekSeen(s, e.stream) # None /\ DekSeen(s, e.stream).dek = e.dek
            \/ e.dek \in shredded
       /\ op[s] = "save" /\ pc[s] \in {"unwrap", "insert"} =>
            \/ DekSeen(s, stream[s]) # None /\ DekSeen(s, stream[s]).dek = cur[s].dek
            \/ cur[s].dek \in shredded

-----------------------------------------------------------------------------
(***************************************************************************)
(* What a step of a session before its end does to the rows and keys.       *)
(***************************************************************************)
Work(s) ==
  \/ Create(s) \/ BeginLoad(s) \/ Fold(s) \/ Decide(s) \/ BeginSave(s) \/ InsertEvent(s)
  \/ Keys(s)

LEMMA WorkOthers ==
  ASSUME IInv, NEW s \in Sessions, Work(s)
  PROVE  /\ keks' = keks /\ deks' = deks /\ shredded' = shredded /\ events' = events
         /\ \A o \in Sessions \ {s} :
              /\ op'[o] = op[o] /\ pc'[o] = pc[o] /\ stream'[o] = stream[o]
              /\ kek'[o] = kek[o] /\ cur'[o] = cur[o] /\ todo'[o] = todo[o]
              /\ victims'[o] = victims[o] /\ eventWrites'[o] = eventWrites[o]
              /\ kekWrites'[o] = kekWrites[o] /\ dekWrites'[o] = dekWrites[o]
<1>. USE DEF IInv, TypeOK, KeyTypeOK, tableVars, localVars, keyVars, eventVars, Goto
<1>1. CASE Create(s) \/ BeginLoad(s) \/ Fold(s)
  BY <1>1 DEF Create, Begin, BeginLoad, GetAll, Fold
<1>2. CASE Decide(s) \/ BeginSave(s) \/ InsertEvent(s)
  BY <1>2 DEF Decide, BeginSave, InsertEvent, InsertAt
<1>3. CASE Keys(s)
  <2>1. UNCHANGED <<keks, deks, shredded>>
    <3>1. CASE SelectLatestDek(s) \/ DecryptDek(s) \/ InsertDek(s) \/ NoCurrentKek(s)
      BY <3>1 DEF SelectLatestDek, DecryptDek, InsertDek, NoCurrentKek
    <3>2. CASE GenerateDek(s) \/ EncryptDek(s) \/ RotateKek(s) \/ SaveKek(s)
      BY <3>2 DEF GenerateDek, EncryptDek, RotateKek, SaveKek
    <3>3. CASE BeginRotate(s) \/ BeginRewrap(s) \/ BeginDelete(s) \/ RewrapNext(s)
      BY <3>3 DEF BeginRotate, BeginRewrap, BeginDelete, Begin, RewrapNext
    <3>4. CASE UpdateDek(s) \/ DeleteKek(s) \/ DeleteDek(s)
      BY <3>4 DEF UpdateDek, DeleteKek, DeleteVersions, DeleteDek
    <3>. QED  BY <1>3, <3>1, <3>2, <3>3, <3>4 DEF Keys, KeyStep
  <2>. QED  BY <1>3, <2>1, KeyStepOthers DEF Keys
<1>. QED  BY <1>1, <1>2, <1>3 DEF Work

LEMMA OtherSets ==
  ASSUME IInv, NEW s \in Sessions, Work(s), NEW o \in Sessions \ {s}
  PROVE  PendingKeks(o)' = PendingKeks(o) /\ NewDeks(o)' = NewDeks(o) /\ RowsOf(o)' = RowsOf(o)
<1>1. PendingKeks(o)' = PendingKeks(o)
  BY WorkOthers DEF PendingKeks
<1>2. NewDeks(o)' = NewDeks(o)
  BY WorkOthers DEF NewDeks
<1>3. RowsOf(o)' = RowsOf(o)
  BY WorkOthers DEF RowsOf
<1>. QED  BY <1>1, <1>2, <1>3

LEMMA StoredSets ==
  ASSUME IInv, NEW s \in Sessions, Work(s)
  PROVE  CommittedKeks' = CommittedKeks /\ StoredRows' = StoredRows
BY WorkOthers DEF CommittedKeks, StoredRows

\* The statements of one session, told apart by what they touch.
LEMMA WorkCases ==
  ASSUME IInv, NEW s \in Sessions, Work(s)
  PROVE  \/ SelectLatestDek(s) \/ DecryptDek(s) \/ InsertDek(s)
         \/ NoCurrentKek(s) \/ GenerateDek(s) \/ EncryptDek(s) \/ RotateKek(s) \/ SaveKek(s)
         \/ BeginRotate(s) \/ BeginRewrap(s) \/ BeginDelete(s)
         \/ RewrapNext(s) \/ UpdateDek(s) \/ DeleteKek(s) \/ DeleteDek(s)
         \/ Create(s) \/ BeginLoad(s) \/ Fold(s)
         \/ Decide(s) \/ BeginSave(s) \/ InsertEvent(s)
BY DEF Work, Keys, KeyStep

\* The keys pending with a session: a new serial number is the next one.
LEMMA PendingStep ==
  ASSUME IInv, KeyInv, NEW s \in Sessions, Work(s)
  PROVE  /\ minted' \in Nat /\ minted <= minted'
         /\ PendingKeks(s)' \subseteq PendingKeks(s) \cup (minted + 1..minted')
         /\ NewDeks(s)' \subseteq NewDeks(s) \cup (minted + 1..minted')
         /\ PendingKeks(s)' \subseteq PendingKeks(s) \/ NewDeks(s)' \subseteq NewDeks(s)
<1>. USE KeyStoreAssumption DEF IInv, TypeOK, KeyTypeOK, Goto, Deletes
<1>. Placed(s) /\ InHand(s) /\ Writes(s)
  BY DEF PlaceInv, KeyInv, WriteInv
<1>1. CASE SelectLatestDek(s) \/ DecryptDek(s) \/ NoCurrentKek(s) \/ RewrapNext(s)
  BY <1>1 DEF SelectLatestDek, DecryptDek, NoCurrentKek, RewrapNext, tableVars, PendingKeks, NewDeks
<1>2. CASE InsertDek(s)
  BY <1>2 DEF InsertDek, PendingKeks, NewDeks, Placed
<1>3. CASE GenerateDek(s)
  BY <1>3 DEF GenerateDek, PendingKeks, NewDeks, Placed, Encrypt, tableVars
<1>4. CASE EncryptDek(s)
  BY <1>4 DEF EncryptDek, PendingKeks, NewDeks, Placed, tableVars
<1>5. CASE RotateKek(s)
  BY <1>5 DEF RotateKek, NewKeks, PendingKeks, NewDeks, Placed, tableVars
<1>6. CASE SaveKek(s)
  BY <1>6 DEF SaveKek, PendingKeks, NewDeks, Placed, InHand
<1>7. CASE BeginRotate(s) \/ BeginRewrap(s) \/ BeginDelete(s) \/ Create(s)
  BY <1>7, RowTypes DEF BeginRotate, BeginRewrap, BeginDelete, Create, Begin, PendingKeks, NewDeks,
              Placed, Writes, tableVars
<1>8. CASE UpdateDek(s)
  BY <1>8 DEF UpdateDek, PendingKeks, NewDeks, Placed
<1>9. CASE DeleteKek(s)
  <2>1. \A v \in Versions : kekWrites'[s][v] \in {None, kekWrites[s][v]}
    BY <1>9 DEF DeleteKek, DeleteVersions
  <2>2. \A k \in KeyIds : [key |-> k] # None
    BY RowTypes DEF Kek
  <2>. QED  BY <1>9, <2>1, <2>2 DEF DeleteKek, DeleteVersions, PendingKeks, NewDeks, Placed
<1>10. CASE DeleteDek(s)
  BY <1>10 DEF DeleteDek, PendingKeks, NewDeks, Placed
<1>11. CASE BeginLoad(s) \/ Fold(s)
  BY <1>11, RowTypes DEF BeginLoad, GetAll, Fold, PendingKeks, NewDeks, Placed, Writes, tableVars
<1>12. CASE Decide(s) \/ BeginSave(s) \/ InsertEvent(s)
  BY <1>12 DEF Decide, BeginSave, InsertEvent, InsertAt, PendingKeks, NewDeks, tableVars, keyVars,
               localVars
<1>. QED
  BY WorkCases, <1>1, <1>2, <1>3, <1>4, <1>5, <1>6, <1>7, <1>8, <1>9, <1>10, <1>11, <1>12

LEMMA SeenKek ==
  ASSUME IInv, NEW s \in Sessions, NEW v \in Versions, KekSeen(s, v) # None
  PROVE  KekSeen(s, v).key \in CommittedKeks \cup PendingKeks(s)
<1>1. KekSeen(s, v) \in Kek
  BY SeenTypes DEF IInv
<1>2. PICK k \in KeyIds : KekSeen(s, v) = [key |-> k]
  BY <1>1 DEF Kek
<1>. QED  BY <1>2 DEF KekSeen, CommittedKeks, PendingKeks

LEMMA WrappedKek ==
  ASSUME IInv, NEW s \in Sessions, NEW v \in CurrentKek(s), NEW plain \in KeyIds
  PROVE  /\ Encrypt(plain, v, KekSeen(s, v)) \in Dek
         /\ Encrypt(plain, v, KekSeen(s, v)).dek = plain
         /\ Encrypt(plain, v, KekSeen(s, v)).kek \in CommittedKeks \cup PendingKeks(s)
         /\ Opens(Encrypt(plain, v, KekSeen(s, v)), KekSeen(s, Encrypt(plain, v, KekSeen(s, v)).ver))
<1>1. v \in Versions /\ KekSeen(s, v) \in Kek /\ KekSeen(s, v) # None
  BY CurrentKekTypes, RowTypes DEF IInv
<1>2. KekSeen(s, v).key \in CommittedKeks \cup PendingKeks(s)
  BY <1>1, SeenKek
<1>. QED  BY <1>1, <1>2 DEF Encrypt, Opens, Dek, Kek

\* The rows in hand were there before, or are stored, or were just wrapped.
LEMMA RowsStep ==
  ASSUME IInv, KeyInv, NEW s \in Sessions, Work(s)
  PROVE  /\ \A r \in RowsOf(s)' :
              r \in RowsOf(s) \/ r \in StoredRows \/ r.kek \in CommittedKeks \cup PendingKeks(s)
         /\ \A r \in todo'[s] : r \in todo[s] \/ r.row \in StoredRows
         /\ op'[s] = "rewrap" /\ pc'[s] = "unwrap" => \E r \in todo[s] : cur'[s] = r.row
<1>. USE KeyStoreAssumption DEF IInv, TypeOK, KeyTypeOK, Goto, Deletes
<1>. Placed(s) /\ InHand(s) /\ Writes(s)
  BY DEF PlaceInv, KeyInv, WriteInv
<1>1. CASE SelectLatestDek(s)
  BY <1>1 DEF SelectLatestDek, tableVars, RowsOf, StoredRows, DekSeen, Placed, InHand
<1>2. CASE NoCurrentKek(s) \/ RotateKek(s) \/ SaveKek(s) \/ DeleteKek(s)
  BY <1>2 DEF NoCurrentKek, RotateKek, SaveKek, DeleteKek, DeleteVersions, tableVars, RowsOf, Placed
<1>3. CASE DecryptDek(s)
  <2>1. pc'[s] # "unwrap"
    BY <1>3 DEF DecryptDek
  <2>. QED  BY <1>3, <2>1 DEF DecryptDek, tableVars, RowsOf
<1>4. CASE InsertDek(s) \/ UpdateDek(s)
  <2>1. /\ cur' = cur /\ todo' = todo /\ pc'[s] # "unwrap"
        /\ \A st \in Streams : dekWrites'[s][st] \in {dekWrites[s][st], cur[s]}
    BY <1>4 DEF InsertDek, UpdateDek, Placed, InHand
  <2>. QED  BY <2>1 DEF RowsOf
<1>5. CASE DeleteDek(s)
  BY <1>5, RowTypes DEF DeleteDek, RowsOf, Placed, InHand
<1>6. CASE GenerateDek(s)
  <2>1. PICK v \in CurrentKek(s) :
          cur' = [cur EXCEPT ![s] = Encrypt(minted + 1, v, KekSeen(s, v))]
    BY <1>6 DEF GenerateDek
  <2>2. minted + 1 \in KeyIds
    BY <1>6 DEF GenerateDek, KeyIds
  <2>3. cur'[s].kek \in CommittedKeks \cup PendingKeks(s)
    BY <2>1, <2>2, WrappedKek
  <2>. QED  BY <1>6, <2>3 DEF GenerateDek, tableVars, RowsOf, Placed
<1>7. CASE EncryptDek(s)
  <2>1. PICK v \in CurrentKek(s) :
          cur' = [cur EXCEPT ![s] = Encrypt(cur[s].dek, v, KekSeen(s, v))]
    BY <1>7 DEF EncryptDek
  <2>2. cur[s].dek \in KeyIds
    BY <1>7 DEF EncryptDek, InHand, Dek
  <2>3. cur'[s].kek \in CommittedKeks \cup PendingKeks(s)
    BY <2>1, <2>2, WrappedKek
  <2>. QED  BY <1>7, <2>3 DEF EncryptDek, tableVars, RowsOf, Placed
<1>8. CASE BeginRotate(s) \/ BeginDelete(s) \/ Create(s)
  BY <1>8 DEF BeginRotate, BeginDelete, Create, Begin, tableVars, RowsOf
<1>9. CASE BeginRewrap(s)
  BY <1>9 DEF BeginRewrap, Begin, tableVars, RowsOf, StoredRows
<1>10. CASE RewrapNext(s)
  <2>1. /\ dekWrites' = dekWrites /\ todo'[s] \subseteq todo[s]
        /\ cur'[s] = cur[s] \/ \E r \in todo[s] : cur'[s] = r.row
        /\ pc'[s] = "unwrap" => \E r \in todo[s] : cur'[s] = r.row
    BY <1>10 DEF RewrapNext, tableVars
  <2>2. \A q \in todo[s] : q.row \in RowsOf(s)
    <3>1. ASSUME NEW q \in todo[s]
          PROVE  q = [stream |-> q.stream, row |-> q.row] /\ q.stream \in Streams /\ q.row \in Dek
      OBVIOUS
    <3>. QED  BY <3>1 DEF RowsOf
  <2>3. ASSUME NEW r \in RowsOf(s)' PROVE r \in RowsOf(s)
    <3>1. CASE cur'[s] = r /\ cur'[s] # cur[s]
      BY <2>1, <2>2, <3>1
    <3>2. CASE \/ cur[s] = r
               \/ \E st \in Streams : dekWrites'[s][st] = r
               \/ \E st \in Streams : [stream |-> st, row |-> r] \in todo'[s]
      BY <2>1, <3>2 DEF RowsOf
    <3>. QED  BY <3>1, <3>2 DEF RowsOf
  <2>. QED  BY <2>1, <2>3
<1>11. CASE BeginLoad(s)
  <2>1. /\ dekWrites' = dekWrites /\ todo' = todo /\ op'[s] = "load"
        /\ \E st \in Streams : cur'[s] = deks[st]
    BY <1>11 DEF BeginLoad, GetAll, tableVars
  <2>. QED  BY <2>1 DEF RowsOf, StoredRows
<1>12. CASE Fold(s) \/ Decide(s) \/ BeginSave(s) \/ InsertEvent(s)
  BY <1>12 DEF Fold, Decide, BeginSave, InsertEvent, InsertAt, RowsOf, tableVars, keyVars, localVars,
               Placed
<1>. QED
  BY WorkCases, <1>1, <1>2, <1>3, <1>4, <1>5, <1>6, <1>7, <1>8, <1>9, <1>10, <1>11, <1>12

\* A delete covers keys of committed rows.
LEMMA VictimsStep ==
  ASSUME IInv, KeyInv, NEW s \in Sessions, Work(s)
  PROVE  /\ \A k \in victims'[s] : \/ k \in victims[s] \/ k \in CommittedKeks
                                   \/ \E r \in StoredRows : r.dek = k
         /\ victims'[s] # {} => op'[s] \in Deletes /\ pc'[s] = "commit"
<1>. USE KeyStoreAssumption DEF IInv, TypeOK, KeyTypeOK, Goto
<1>. Placed(s) /\ InHand(s) /\ Writes(s) /\ (victims[s] # {} => op[s] \in Deletes /\ pc[s] = "commit")
  BY DEF PlaceInv, KeyInv, WriteInv, VictimInv
<1>1. ASSUME NEW sts \in SUBSET Streams
      PROVE  \A k \in StoredDeks(sts) : \E r \in StoredRows : r.dek = k
  BY DEF StoredDeks, StoredRows
<1>2. CASE DeleteKek(s)
  <2>1. \A v \in KekVersions(s) : KekSeen(s, v).key \in CommittedKeks
    <3>1. \A v \in Versions : kekWrites[s][v] = Untouched
      BY <1>2, RowTypes DEF DeleteKek, DeleteVersions, Writes
    <3>2. \A v \in KekVersions(s) : keks[v] \in Kek /\ KekSeen(s, v) = keks[v] /\ v \in Versions
      BY <3>1, RowTypes DEF KekVersions, KekSeen
    <3>. QED  BY <3>2 DEF CommittedKeks, Kek
  <2>2. victims'[s] = StoredDeks(Streams) \cup {KekSeen(s, v).key : v \in KekVersions(s)}
    BY <1>2 DEF DeleteKek, DeleteVersions
  <2>3. op'[s] \in Deletes /\ pc'[s] = "commit"
    BY <1>2 DEF DeleteKek, DeleteVersions, Deletes
  <2>. QED  BY <1>1, <2>1, <2>2, <2>3
<1>3. CASE DeleteDek(s)
  <2>1. stream[s] \in Streams /\ victims'[s] = StoredDeks({stream[s]})
    BY <1>3 DEF DeleteDek, InHand
  <2>2. op'[s] \in Deletes /\ pc'[s] = "commit"
    BY <1>3 DEF DeleteDek, Deletes
  <2>3. \A k \in StoredDeks({stream[s]}) : \E r \in StoredRows : r.dek = k
    BY <1>1, <2>1
  <2>. QED  BY <2>1, <2>2, <2>3
<1>4. CASE ~DeleteKek(s) /\ ~DeleteDek(s)
  <2>. USE <1>4 DEF tableVars, keyVars, localVars, Placed, Deletes
  <2>1. CASE SelectLatestDek(s) \/ DecryptDek(s) \/ InsertDek(s) \/ NoCurrentKek(s) \/ GenerateDek(s)
    BY <2>1 DEF SelectLatestDek, DecryptDek, InsertDek, NoCurrentKek, GenerateDek
  <2>2. CASE EncryptDek(s) \/ RotateKek(s) \/ SaveKek(s) \/ UpdateDek(s)
    BY <2>2 DEF EncryptDek, RotateKek, SaveKek, UpdateDek
  <2>3. CASE BeginRotate(s) \/ BeginRewrap(s) \/ BeginDelete(s) \/ RewrapNext(s) \/ Create(s)
    BY <2>3 DEF BeginRotate, BeginRewrap, BeginDelete, RewrapNext, Create, Begin
  <2>4. CASE BeginLoad(s) \/ Fold(s) \/ Decide(s) \/ BeginSave(s) \/ InsertEvent(s)
    BY <2>4 DEF BeginLoad, Fold, Decide, BeginSave, InsertEvent, InsertAt
  <2>. QED  BY WorkCases, <2>1, <2>2, <2>3, <2>4
<1>. QED  BY <1>2, <1>3, <1>4

-----------------------------------------------------------------------------
(***************************************************************************)
(* The parts of KeyInv, over a step of a session before its end.            *)
(***************************************************************************)
LEMMA ExclusiveWork ==
  ASSUME Exclusive, IInv, KeyInv, NEW s \in Sessions, Work(s)
  PROVE  ExclusiveInv'
<1>. USE DEF IInv, TypeOK, KeyTypeOK, tableVars, keyVars, localVars
<1>1. \/ op'[s] \in {op[s], "load", "save", "rotate"}
      \/ op'[s] = "rewrap" /\ \A o \in Sessions : op[o] \notin Deletes
      \/ op'[s] \in Deletes /\ \A o \in Sessions : op[o] # "rewrap"
  <2>1. CASE BeginRewrap(s)
    BY <2>1 DEF BeginRewrap, Begin
  <2>2. CASE BeginDelete(s)
    BY <2>2 DEF BeginDelete, Begin, Deletes
  <2>3. CASE BeginRotate(s) \/ Create(s) \/ BeginLoad(s) \/ Fold(s)
    BY <2>3 DEF BeginRotate, Create, Begin, BeginLoad, Fold
  <2>4. CASE Decide(s) \/ BeginSave(s) \/ InsertEvent(s) \/ SelectLatestDek(s) \/ DecryptDek(s)
    BY <2>4 DEF Decide, BeginSave, InsertEvent, InsertAt, SelectLatestDek, DecryptDek
  <2>5. CASE InsertDek(s) \/ NoCurrentKek(s) \/ GenerateDek(s) \/ EncryptDek(s) \/ RotateKek(s)
    BY <2>5 DEF InsertDek, NoCurrentKek, GenerateDek, EncryptDek, RotateKek
  <2>6. CASE SaveKek(s) \/ RewrapNext(s) \/ UpdateDek(s) \/ DeleteKek(s) \/ DeleteDek(s)
    BY <2>6 DEF SaveKek, RewrapNext, UpdateDek, DeleteKek, DeleteVersions, DeleteDek
  <2>. QED  BY WorkCases, <2>1, <2>2, <2>3, <2>4, <2>5, <2>6
<1>2. \A o \in Sessions \ {s} : op'[o] = op[o]
  BY WorkOthers
<1>. QED  BY <1>1, <1>2 DEF ExclusiveInv, KeyInv, Deletes

\* Rows written in this step were free.
LEMMA LockWork ==
  ASSUME IInv, KeyInv, NEW s \in Sessions, Work(s)
  PROVE  LockInv'
<1>. USE DEF IInv, TypeOK, KeyTypeOK, tableVars, keyVars, localVars
<1>1. /\ \A v \in Versions : kekWrites'[s][v] = kekWrites[s][v] \/ KekFree(s, v)
      /\ \A st \in Streams : dekWrites'[s][st] = dekWrites[s][st] \/ DekFree(s, st)
  <2>1. CASE SaveKek(s)
    BY <2>1 DEF SaveKek
  <2>2. CASE DeleteKek(s)
    BY <2>2 DEF DeleteKek, DeleteVersions
  <2>3. CASE InsertDek(s) \/ UpdateDek(s) \/ DeleteDek(s)
    BY <2>3 DEF InsertDek, UpdateDek, DeleteDek
  <2>4. CASE BeginRotate(s) \/ BeginRewrap(s) \/ BeginDelete(s) \/ Create(s) \/ BeginLoad(s)
    BY <2>4 DEF BeginRotate, BeginRewrap, BeginDelete, Create, Begin, BeginLoad
  <2>5. CASE Fold(s) \/ Decide(s) \/ BeginSave(s) \/ InsertEvent(s) \/ SelectLatestDek(s)
    BY <2>5 DEF Fold, Decide, BeginSave, InsertEvent, InsertAt, SelectLatestDek
  <2>6. CASE DecryptDek(s) \/ NoCurrentKek(s) \/ GenerateDek(s) \/ EncryptDek(s) \/ RotateKek(s)
             \/ RewrapNext(s)
    BY <2>6 DEF DecryptDek, NoCurrentKek, GenerateDek, EncryptDek, RotateKek, RewrapNext
  <2>. QED  BY WorkCases, <2>1, <2>2, <2>3, <2>4, <2>5, <2>6
<1>2. \A o \in Sessions \ {s} : kekWrites'[o] = kekWrites[o] /\ dekWrites'[o] = dekWrites[o]
  BY WorkOthers
<1>. HIDE DEF IInv, TypeOK, KeyTypeOK, tableVars, keyVars, localVars
<1>3. ASSUME NEW a \in Sessions, NEW b \in Sessions, NEW v \in Versions,
             kekWrites'[a][v] # Untouched, kekWrites'[b][v] # Untouched
      PROVE  a = b
  BY <1>1, <1>2, <1>3 DEF LockInv, KeyInv, KekFree
<1>4. ASSUME NEW a \in Sessions, NEW b \in Sessions, NEW st \in Streams,
             dekWrites'[a][st] # Untouched, dekWrites'[b][st] # Untouched
      PROVE  a = b
  BY <1>1, <1>2, <1>4 DEF LockInv, KeyInv, DekFree
<1>. QED  BY <1>3, <1>4 DEF LockInv

LEMMA SerialWork ==
  ASSUME IInv, KeyInv, NEW s \in Sessions, Work(s)
  PROVE  SerialInv'
<1>. SerialInv /\ minted \in Nat /\ minted' \in Nat /\ minted <= minted'
  BY PendingStep DEF KeyInv, IInv, TypeOK, KeyTypeOK
<1>. 1..minted \subseteq 1..minted' /\ minted + 1..minted' \subseteq 1..minted'
  OBVIOUS
<1>1. (CommittedKeks \cup shredded)' \subseteq 1..minted'
  BY StoredSets, WorkOthers DEF SerialInv
<1>2. \A r \in StoredRows' : r.dek \in 1..minted' /\ r.kek \in 1..minted'
  BY StoredSets DEF SerialInv
<1>3. ASSUME NEW o \in Sessions \ {s}
      PROVE  /\ (PendingKeks(o) \cup NewDeks(o) \cup victims[o])' \subseteq 1..minted'
             /\ \A r \in RowsOf(o)' : r.kek \in 1..minted'
  BY OtherSets, WorkOthers DEF SerialInv
<1>4. (PendingKeks(s) \cup NewDeks(s))' \subseteq 1..minted'
  BY PendingStep DEF SerialInv
<1>5. victims'[s] \subseteq 1..minted'
  BY VictimsStep DEF SerialInv
<1>6. \A r \in RowsOf(s)' : r.kek \in 1..minted'
  BY RowsStep DEF SerialInv
<1>. QED  BY <1>1, <1>2, <1>3, <1>4, <1>5, <1>6 DEF SerialInv

LEMMA FreshWork ==
  ASSUME IInv, KeyInv, NEW s \in Sessions, Work(s)
  PROVE  FreshInv'
<1>. SerialInv /\ FreshInv /\ minted \in Nat
  BY DEF KeyInv, IInv, TypeOK, KeyTypeOK
<1>. USE StoredSets, OtherSets, WorkOthers, PendingStep
<1>. DEFINE new == minted + 1..minted'
<1>1. new \cap 1..minted = {}
  OBVIOUS
<1>. HIDE DEF new
<1>2. /\ PendingKeks(s)' \subseteq PendingKeks(s) \cup new
      /\ NewDeks(s)' \subseteq NewDeks(s) \cup new
      /\ PendingKeks(s)' \subseteq PendingKeks(s) \/ NewDeks(s)' \subseteq NewDeks(s)
  BY DEF new
<1>3. \A x, y \in Streams : deks'[x] # None /\ deks'[y] # None /\ deks'[x].dek = deks'[y].dek => x = y
  BY DEF FreshInv
<1>4. ASSUME NEW o \in Sessions
      PROVE  /\ PendingKeks(o)' \cap CommittedKeks' = {}
             /\ NewDeks(o)' \cap CommittedKeks' = {}
             /\ NewDeks(o)' \cap shredded' = {}
             /\ \A r \in StoredRows' : r.kek \notin PendingKeks(o)' /\ r.dek \notin NewDeks(o)'
  BY <1>1, <1>2 DEF SerialInv, FreshInv
<1>5. ASSUME NEW o \in Sessions, NEW q \in Sessions
      PROVE  /\ NewDeks(o)' \cap PendingKeks(q)' = {}
             /\ o # q => PendingKeks(o)' \cap PendingKeks(q)' = {}
             /\ o # q => NewDeks(o)' \cap NewDeks(q)' = {}
  BY <1>1, <1>2 DEF SerialInv, FreshInv
<1>6. ASSUME NEW o \in Sessions, NEW q \in Sessions
      PROVE  NewDeks(o)' \cap victims'[q] = {}
  <2>1. NewDeks(o)' \cap victims[q] = {}
    BY <1>1, <1>2 DEF SerialInv, FreshInv
  <2>. QED  BY <1>4, <2>1, VictimsStep
<1>7. ASSUME NEW o \in Sessions, NEW q \in Sessions, o # q
      PROVE  \A r \in RowsOf(o)' : r.kek \notin PendingKeks(q)'
  <2>1. \A r \in RowsOf(o) : r.kek \notin PendingKeks(q)'
    BY <1>1, <1>2, <1>7 DEF SerialInv, FreshInv
  <2>2. \A r \in StoredRows : r.kek \notin PendingKeks(q)'
    BY <1>4
  <2>3. o = s => \A k \in CommittedKeks \cup PendingKeks(s) : k \notin PendingKeks(q)'
    BY <1>7 DEF FreshInv
  <2>. QED  BY <2>1, <2>2, <2>3, RowsStep
<1>8. ASSUME NEW o \in Sessions
      PROVE  \A r \in todo'[o] : r.row.kek \notin PendingKeks(o)'
  <2>1. \A r \in todo[o] : r.row \in RowsOf(o)
    <3>1. ASSUME NEW r \in todo[o]
          PROVE  r = [stream |-> r.stream, row |-> r.row] /\ r.stream \in Streams /\ r.row \in Dek
      BY DEF IInv, TypeOK, KeyTypeOK
    <3>. QED  BY <3>1 DEF RowsOf
  <2>2. \A r \in todo[o] : r.row.kek \notin PendingKeks(o)'
    BY <1>1, <1>2, <2>1 DEF SerialInv, FreshInv
  <2>. QED  BY <1>4, <2>2, RowsStep
<1>9. ASSUME NEW o \in Sessions, op'[o] = "rewrap", pc'[o] = "unwrap"
      PROVE  cur'[o].kek \notin PendingKeks(o)'
  <2>1. CASE o = s
    <3>1. PICK r \in todo[s] : cur'[s] = r.row
      BY <1>9, <2>1, RowsStep
    <3>2. r.row \in RowsOf(s)
      <4>1. r = [stream |-> r.stream, row |-> r.row] /\ r.stream \in Streams /\ r.row \in Dek
        BY DEF IInv, TypeOK, KeyTypeOK
      <4>. QED  BY <4>1 DEF RowsOf
    <3>. QED  BY <1>1, <1>2, <2>1, <3>1, <3>2 DEF SerialInv, FreshInv
  <2>2. CASE o # s
    BY <1>9, <2>2 DEF FreshInv
  <2>. QED  BY <2>1, <2>2
<1>. QED  BY <1>3, <1>4, <1>5, <1>6, <1>7, <1>8, <1>9 DEF FreshInv

LEMMA WritesWork ==
  ASSUME IInv, KeyInv, NEW s \in Sessions, Work(s)
  PROVE  WriteInv'
<1>. USE DEF IInv, TypeOK, KeyTypeOK, tableVars, keyVars, localVars, Goto, Deletes
<1>. Placed(s) /\ InHand(s) /\ Writes(s) /\ Rewraps(s)
  BY DEF PlaceInv, KeyInv, WriteInv, RewrapInv
<1>. keks' = keks /\ deks' = deks /\ shredded' = shredded
  BY WorkOthers
<1>1. \A o \in Sessions \ {s} : Writes(o)'
  BY WorkOthers DEF KeyInv, WriteInv, Writes
<1>2. Writes(s)'
  <2>1. CASE SaveKek(s)
    <3>1. kek[s].ver \in Versions /\ [key |-> kek[s].key] \in Kek
      BY <2>1 DEF SaveKek, InHand, Kek
    <3>2. op[s] \in {"save", "rotate", "rewrap"}
      BY <2>1 DEF SaveKek, Placed
    <3>3. keks[kek[s].ver] = None
      BY <2>1, <3>1, <3>2 DEF SaveKek, KekSeen, Writes
    <3>4. /\ op' = op /\ dekWrites' = dekWrites /\ stream' = stream
          /\ kekWrites'[s] = [kekWrites[s] EXCEPT ![kek[s].ver] = [key |-> kek[s].key]]
      BY <2>1 DEF SaveKek
    <3>. QED  BY <3>1, <3>2, <3>3, <3>4 DEF Writes
  <2>2. CASE DeleteKek(s)
    <3>1. \A v \in Versions : kekWrites[s][v] = Untouched
      BY <2>2, RowTypes DEF DeleteKek, DeleteVersions, Writes
    <3>2. /\ op'[s] = "deleteKek" /\ pc'[s] = "commit" /\ dekWrites' = dekWrites
          /\ kekWrites'[s] = [v \in Versions |-> IF v \in KekVersions(s) THEN None ELSE kekWrites[s][v]]
          /\ \A v \in KekVersions(s) : KekSeen(s, v).key \in victims'[s]
      BY <2>2 DEF DeleteKek, DeleteVersions
    <3>3. \A v \in KekVersions(s) : keks[v] # None /\ keks[v].key \in victims'[s]
      BY <3>1, <3>2 DEF KekVersions, KekSeen
    <3>4. \A st \in Streams : dekWrites[s][st] = Untouched
      BY <2>2 DEF DeleteKek, DeleteVersions, Writes
    <3>. QED  BY <3>1, <3>2, <3>3, <3>4 DEF Writes
  <2>3. CASE InsertDek(s)
    <3>1. op[s] = "save" /\ cur[s] \in Dek /\ stream[s] \in Streams
      BY <2>3 DEF InsertDek, Placed, InHand
    <3>2. deks[stream[s]] = None
      BY <2>3, <3>1 DEF InsertDek, DekSeen, Writes
    <3>3. /\ op' = op /\ kekWrites' = kekWrites /\ stream' = stream
          /\ dekWrites'[s] = [dekWrites[s] EXCEPT ![stream[s]] = cur[s]]
      BY <2>3 DEF InsertDek
    <3>. QED  BY <3>1, <3>2, <3>3 DEF Writes
  <2>4. CASE UpdateDek(s)
    <3>1. /\ op[s] = "rewrap" /\ cur[s] \in Dek /\ stream[s] \in Streams
          /\ deks[stream[s]] # None /\ deks[stream[s]].dek = cur[s].dek /\ cur[s].dek \notin shredded
      BY <2>4 DEF UpdateDek, Placed, InHand, Rewraps
    <3>2. /\ op' = op /\ kekWrites' = kekWrites
          /\ \/ dekWrites' = dekWrites
             \/ dekWrites'[s] = [dekWrites[s] EXCEPT ![stream[s]] = cur[s]]
      BY <2>4 DEF UpdateDek
    <3>. QED  BY <3>1, <3>2 DEF Writes
  <2>5. CASE DeleteDek(s)
    <3>1. /\ op[s] = "deleteDek" /\ stream[s] \in Streams /\ pc[s] = "delete"
          /\ \A st \in Streams : dekWrites[s][st] = Untouched
      BY <2>5 DEF DeleteDek, InHand, Writes
    <3>2. /\ op' = op /\ kekWrites' = kekWrites /\ stream' = stream /\ pc'[s] = "commit"
          /\ victims'[s] = StoredDeks({stream[s]})
          /\ \/ dekWrites' = dekWrites
             \/ /\ DekSeen(s, stream[s]) # None
                /\ dekWrites'[s] = [dekWrites[s] EXCEPT ![stream[s]] = None]
      BY <2>5 DEF DeleteDek
    <3>3. DekSeen(s, stream[s]) # None =>
            deks[stream[s]] # None /\ deks[stream[s]].dek \in victims'[s]
      BY <3>1, <3>2 DEF DekSeen, StoredDeks
    <3>. QED  BY <3>1, <3>2, <3>3 DEF Writes
  <2>6. CASE BeginRotate(s) \/ BeginRewrap(s) \/ BeginDelete(s) \/ Create(s) \/ BeginLoad(s) \/ Fold(s)
    <3>1. op[s] \in {"none", "load"} /\ kekWrites' = kekWrites /\ dekWrites' = dekWrites
      BY <2>6 DEF BeginRotate, BeginRewrap, BeginDelete, Create, Begin, BeginLoad, Fold, Placed
    <3>. QED  BY <3>1 DEF Writes
  <2>7. CASE RewrapNext(s)
    BY <2>7 DEF RewrapNext, Writes, Placed
  <2>8. CASE Decide(s) \/ BeginSave(s) \/ InsertEvent(s) \/ SelectLatestDek(s) \/ DecryptDek(s)
             \/ NoCurrentKek(s) \/ GenerateDek(s) \/ EncryptDek(s) \/ RotateKek(s)
    <3>1. UNCHANGED <<op, kekWrites, dekWrites, stream, victims>> /\ pc[s] # "commit"
      BY <2>8 DEF Decide, BeginSave, InsertEvent, InsertAt, SelectLatestDek, DecryptDek, NoCurrentKek,
                  GenerateDek, EncryptDek, RotateKek
    <3>. QED  BY <3>1 DEF Writes
  <2>. QED  BY WorkCases, <2>1, <2>2, <2>3, <2>4, <2>5, <2>6, <2>7, <2>8
<1>. QED  BY <1>1, <1>2 DEF WriteInv

LEMMA RewrapWork ==
  ASSUME IInv, KeyInv, NEW s \in Sessions, Work(s)
  PROVE  RewrapInv'
<1>. USE DEF IInv, TypeOK, KeyTypeOK, tableVars, keyVars, localVars, Goto, Deletes
<1>. Placed(s) /\ InHand(s) /\ Writes(s) /\ Rewraps(s)
  BY DEF PlaceInv, KeyInv, WriteInv, RewrapInv
<1>. keks' = keks /\ deks' = deks /\ shredded' = shredded
  BY WorkOthers
<1>1. \A o \in Sessions \ {s} : Rewraps(o)'
  BY WorkOthers DEF KeyInv, RewrapInv, Rewraps
<1>2. Rewraps(s)'
  <2>1. CASE BeginRewrap(s)
    <3>1. todo'[s] = {r \in [stream: Streams, row: Dek] : deks[r.stream] = r.row}
          /\ op'[s] = "rewrap" /\ pc'[s] = "next"
      BY <2>1 DEF BeginRewrap, Begin
    <3>. QED  BY <3>1, RowTypes DEF Rewraps
  <2>2. CASE RewrapNext(s)
    <3>1. op'[s] = "rewrap" /\ todo'[s] \subseteq todo[s]
      BY <2>2 DEF RewrapNext, Placed
    <3>2. \/ pc'[s] = "commit"
          \/ pc'[s] = "unwrap" /\ \E r \in todo[s] : stream'[s] = r.stream /\ cur'[s] = r.row
      BY <2>2 DEF RewrapNext
    <3>. QED  BY <3>1, <3>2 DEF Rewraps
  <2>3. CASE DecryptDek(s)
    <3>1. op[s] = "rewrap" => cur[s].dek \notin shredded
      <4>1. SUFFICES ASSUME op[s] = "rewrap", cur[s].dek \in shredded PROVE FALSE
        OBVIOUS
      <4>2. cur[s] \in Dek /\ cur[s].ver \in Versions
        BY <2>3 DEF DecryptDek, InHand, Dek
      <4>3. cur[s].kek \in CommittedKeks \cup PendingKeks(s)
        BY <2>3, <4>2, SeenKek DEF DecryptDek, Opens
      <4>4. pc[s] = "unwrap"
        BY <2>3 DEF DecryptDek
      <4>. QED  BY <4>1, <4>3, <4>4 DEF KeyInv, GoneInv, Gone, FreshInv
    <3>2. UNCHANGED <<op, stream, cur, todo>> /\ pc[s] = "unwrap"
      BY <2>3 DEF DecryptDek
    <3>. QED  BY <3>1, <3>2 DEF Rewraps
  <2>4. CASE EncryptDek(s)
    <3>1. PICK v \in CurrentKek(s) :
            cur' = [cur EXCEPT ![s] = Encrypt(cur[s].dek, v, KekSeen(s, v))]
      BY <2>4 DEF EncryptDek
    <3>2. cur'[s].dek = cur[s].dek
      BY <3>1 DEF Encrypt
    <3>3. UNCHANGED <<op, stream, todo>> /\ pc[s] = "currentKek" /\ pc'[s] = "updateDek"
      BY <2>4 DEF EncryptDek
    <3>. QED  BY <3>2, <3>3 DEF Rewraps
  <2>5. CASE UpdateDek(s)
    BY <2>5 DEF UpdateDek, Rewraps, Placed
  <2>6. CASE BeginRotate(s) \/ BeginDelete(s) \/ Create(s) \/ BeginLoad(s) \/ Fold(s)
    <3>1. todo' = todo /\ op'[s] # "rewrap" /\ op[s] # "rewrap"
      BY <2>6 DEF BeginRotate, BeginDelete, Create, Begin, BeginLoad, Fold, Placed
    <3>. QED  BY <3>1 DEF Rewraps
  <2>7. CASE NoCurrentKek(s) \/ RotateKek(s) \/ SaveKek(s)
    <3>1. UNCHANGED <<op, stream, cur, todo>>
          /\ (op[s] = "rewrap" => pc[s] \in {"currentKek", "rotate", "insertKek", "updateDek"})
      BY <2>7 DEF NoCurrentKek, RotateKek, SaveKek, Placed
    <3>. QED  BY <3>1 DEF Rewraps
  <2>8. CASE Decide(s) \/ BeginSave(s) \/ InsertEvent(s) \/ SelectLatestDek(s) \/ InsertDek(s)
             \/ GenerateDek(s) \/ DeleteKek(s) \/ DeleteDek(s)
    <3>1. UNCHANGED <<op, todo>> /\ op[s] # "rewrap"
      BY <2>8 DEF Decide, BeginSave, InsertEvent, InsertAt, SelectLatestDek, InsertDek, GenerateDek,
                  DeleteKek, DeleteVersions, DeleteDek, Placed
    <3>. QED  BY <3>1 DEF Rewraps
  <2>. QED  BY WorkCases, <2>1, <2>2, <2>3, <2>4, <2>5, <2>6, <2>7, <2>8
<1>. QED  BY <1>1, <1>2 DEF RewrapInv

LEMMA GoneWork ==
  ASSUME IInv, KeyInv, NEW s \in Sessions, Work(s)
  PROVE  GoneInv'
<1>. GoneInv
  BY DEF KeyInv
<1>1. /\ CommittedKeks' = CommittedKeks /\ StoredRows' = StoredRows /\ shredded' = shredded
      /\ \A o \in Sessions \ {s} : op'[o] = op[o] /\ pc'[o] = pc[o] /\ cur'[o] = cur[o] /\ todo'[o] = todo[o]
  BY StoredSets, WorkOthers
<1>2. \A r \in todo'[s] : Gone(r.row)'
  BY <1>1, RowsStep DEF GoneInv, Gone
<1>3. op'[s] = "rewrap" /\ pc'[s] = "unwrap" => Gone(cur[s])'
  BY <1>1, RowsStep DEF GoneInv, Gone
<1>. QED  BY <1>1, <1>2, <1>3 DEF GoneInv, Gone

LEMMA VictimWork ==
  ASSUME IInv, KeyInv, NEW s \in Sessions, Work(s)
  PROVE  VictimInv'
<1>. USE DEF IInv, TypeOK, KeyTypeOK, tableVars, keyVars, localVars, Goto, Deletes
<1>. Placed(s) /\ InHand(s) /\ Writes(s) /\ Covered(s)
  BY DEF PlaceInv, KeyInv, WriteInv, VictimInv
<1>. keks' = keks /\ deks' = deks
  BY WorkOthers
<1>1. \A o \in Sessions \ {s} : Covered(o)' /\ (victims'[o] # {} => op'[o] \in Deletes /\ pc'[o] = "commit")
  BY WorkOthers DEF KeyInv, VictimInv, Covered
<1>2. victims'[s] # {} => op'[s] \in Deletes /\ pc'[s] = "commit"
  BY VictimsStep
<1>3. Covered(s)'
  <2>1. CASE DeleteKek(s)
    <3>1. \A v \in Versions : kekWrites[s][v] = Untouched
      BY <2>1, RowTypes DEF DeleteKek, DeleteVersions, Writes
    <3>2. \A v \in Versions : keks[v] # None => kekWrites'[s][v] = None
      BY <2>1, <3>1 DEF DeleteKek, DeleteVersions, KekVersions, KekSeen
    <3>3. \A st \in Streams : deks[st] # None => [key |-> deks[st].kek] # None
      BY RowTypes DEF Kek, Dek
    <3>4. op'[s] = "deleteKek"
      BY <2>1 DEF DeleteKek, DeleteVersions
    <3>. QED  BY <3>2, <3>3, <3>4 DEF Covered
  <2>2. CASE DeleteDek(s)
    <3>1. /\ op'[s] = "deleteDek" /\ stream[s] \in Streams
          /\ victims'[s] = StoredDeks({stream[s]})
          /\ \A st \in Streams : dekWrites[s][st] = Untouched
      BY <2>2 DEF DeleteDek, InHand, Writes
    <3>2. deks[stream[s]] # None => dekWrites'[s][stream[s]] = None
      BY <2>2, <3>1 DEF DeleteDek, DekSeen
    <3>3. \A st \in Streams : deks[st] # None /\ deks[st].dek \in victims'[s] => st = stream[s]
      <4>1. \A k \in victims'[s] : deks[stream[s]] # None /\ k = deks[stream[s]].dek
        BY <3>1 DEF StoredDeks
      <4>. QED  BY <3>1, <4>1 DEF KeyInv, FreshInv
    <3>. QED  BY <3>1, <3>2, <3>3 DEF Covered
  <2>3. CASE BeginRotate(s) \/ BeginRewrap(s) \/ BeginDelete(s) \/ Create(s) \/ BeginLoad(s) \/ Fold(s)
    BY <2>3 DEF BeginRotate, BeginRewrap, BeginDelete, Create, Begin, BeginLoad, Fold, Covered
  <2>4. CASE RewrapNext(s) \/ SaveKek(s) \/ UpdateDek(s) \/ InsertDek(s) \/ DecryptDek(s)
    <3>1. op' = op /\ op[s] \notin Deletes
      BY <2>4 DEF RewrapNext, SaveKek, UpdateDek, InsertDek, DecryptDek, Placed
    <3>. QED  BY <3>1 DEF Covered
  <2>5. CASE Decide(s) \/ BeginSave(s) \/ InsertEvent(s) \/ SelectLatestDek(s) \/ NoCurrentKek(s)
             \/ GenerateDek(s) \/ EncryptDek(s) \/ RotateKek(s)
    <3>1. op' = op /\ op[s] \notin Deletes
      BY <2>5 DEF Decide, BeginSave, InsertEvent, InsertAt, SelectLatestDek, NoCurrentKek,
                  GenerateDek, EncryptDek, RotateKek, Placed
    <3>. QED  BY <3>1 DEF Covered
  <2>. QED  BY WorkCases, <2>1, <2>2, <2>3, <2>4, <2>5
<1>. QED  BY <1>1, <1>2, <1>3 DEF VictimInv

-----------------------------------------------------------------------------
(***************************************************************************)
(* The end of a session, by commit or by rollback.                          *)
(***************************************************************************)
LEMMA EndOf ==
  ASSUME IInv, NEW s \in Sessions, EndSession(s)
  PROVE  /\ op'[s] = "none" /\ pc'[s] = "idle" /\ todo'[s] = {} /\ victims'[s] = {} /\ minted' = minted
         /\ \A v \in Versions : kekWrites'[s][v] = Untouched
         /\ \A st \in Streams : dekWrites'[s][st] = Untouched
         /\ PendingKeks(s)' = {} /\ NewDeks(s)' = {} /\ RowsOf(s)' = {}
         /\ \A o \in Sessions \ {s} :
              /\ op'[o] = op[o] /\ pc'[o] = pc[o] /\ stream'[o] = stream[o] /\ cur'[o] = cur[o]
              /\ todo'[o] = todo[o] /\ victims'[o] = victims[o]
              /\ kekWrites'[o] = kekWrites[o] /\ dekWrites'[o] = dekWrites[o]
              /\ PendingKeks(o)' = PendingKeks(o) /\ NewDeks(o)' = NewDeks(o) /\ RowsOf(o)' = RowsOf(o)
<1>1. /\ op'[s] = "none" /\ pc'[s] = "idle" /\ todo'[s] = {} /\ victims'[s] = {} /\ minted' = minted
      /\ cur'[s] = None
      /\ \A v \in Versions : kekWrites'[s][v] = Untouched
      /\ \A st \in Streams : dekWrites'[s][st] = Untouched
  BY DEF IInv, TypeOK, KeyTypeOK, EndSession
<1>2. \A o \in Sessions \ {s} :
        /\ op'[o] = op[o] /\ pc'[o] = pc[o] /\ stream'[o] = stream[o] /\ cur'[o] = cur[o]
        /\ todo'[o] = todo[o] /\ victims'[o] = victims[o] /\ kek'[o] = kek[o]
        /\ kekWrites'[o] = kekWrites[o] /\ dekWrites'[o] = dekWrites[o]
  BY DEF IInv, TypeOK, KeyTypeOK, EndSession
<1>3. PendingKeks(s)' = {}
  <2>1. \A k \in KeyIds : [key |-> k] # Untouched
    BY RowTypes DEF Kek
  <2>. QED  BY <1>1, <2>1 DEF PendingKeks
<1>4. NewDeks(s)' = {}
  BY <1>1 DEF NewDeks
<1>5. RowsOf(s)' = {}
  BY <1>1, RowTypes DEF RowsOf
<1>6. ASSUME NEW o \in Sessions \ {s}
      PROVE  PendingKeks(o)' = PendingKeks(o) /\ NewDeks(o)' = NewDeks(o) /\ RowsOf(o)' = RowsOf(o)
  <2>1. PendingKeks(o)' = PendingKeks(o)
    BY <1>2 DEF PendingKeks
  <2>2. NewDeks(o)' = NewDeks(o)
    BY <1>2 DEF NewDeks
  <2>3. RowsOf(o)' = RowsOf(o)
    BY <1>2 DEF RowsOf
  <2>. QED  BY <2>1, <2>2, <2>3
<1>. QED  BY <1>1, <1>2, <1>3, <1>4, <1>5, <1>6

LEMMA FailKeyInv ==
  ASSUME IInv, KeyInv, NEW s \in Sessions, Fail(s)
  PROVE  KeyInv'
<1>. EndSession(s) /\ keks' = keks /\ deks' = deks /\ shredded' = shredded
  BY DEF Fail, FailKeys
<1>. CommittedKeks' = CommittedKeks /\ StoredRows' = StoredRows
  BY DEF CommittedKeks, StoredRows
<1>. USE EndOf DEF KeyInv
<1>1. ExclusiveInv' /\ LockInv'
  BY DEF ExclusiveInv, LockInv, Deletes
<1>2. WriteInv'
  BY DEF WriteInv, Writes
<1>3. RewrapInv'
  BY DEF RewrapInv, Rewraps
<1>4. SerialInv'
  BY DEF SerialInv
<1>5. FreshInv'
  BY DEF FreshInv
<1>6. GoneInv'
  BY DEF GoneInv, Gone
<1>7. VictimInv'
  BY DEF VictimInv, Covered
<1>. QED  BY <1>1, <1>2, <1>3, <1>4, <1>5, <1>6, <1>7

\* What a commit puts in the tables.
LEMMA CommitTables ==
  ASSUME IInv, KeyInv, NEW s \in Sessions, Commit(s)
  PROVE  /\ EndSession(s) /\ pc[s] = "commit" /\ shredded' = shredded \cup victims[s]
         /\ \A v \in Versions :
              \/ kekWrites[s][v] = Untouched /\ keks'[v] = keks[v]
              \/ /\ kekWrites[s][v] \in Kek /\ keks[v] = None /\ keks'[v] = kekWrites[s][v]
                 /\ op[s] \notin Deletes
              \/ /\ kekWrites[s][v] = None /\ op[s] = "deleteKek"
                 /\ keks[v].key \in victims[s] /\ keks'[v] = None
         /\ \A st \in Streams :
              \/ dekWrites[s][st] = Untouched /\ deks'[st] = deks[st]
              \/ /\ dekWrites[s][st] \in Dek /\ deks'[st] = dekWrites[s][st]
                 /\ op[s] = "save" /\ st = stream[s] /\ deks[st] = None
                 /\ dekWrites[s][st].dek \in NewDeks(s) /\ dekWrites[s][st] \in RowsOf(s)
              \/ /\ dekWrites[s][st] \in Dek /\ deks'[st] = dekWrites[s][st]
                 /\ op[s] = "rewrap" /\ deks[st] # None /\ deks[st].dek = dekWrites[s][st].dek
                 /\ deks[st].dek \notin shredded /\ dekWrites[s][st] \in RowsOf(s)
              \/ /\ dekWrites[s][st] = None /\ deks'[st] = None
                 /\ op[s] = "deleteDek" /\ st = stream[s] /\ deks[st].dek \in victims[s]
         /\ op[s] \notin Deletes => victims[s] = {}
<1>. Writes(s)
  BY DEF KeyInv, WriteInv
<1>1. /\ EndSession(s) /\ pc[s] = "commit" /\ shredded' = shredded \cup victims[s]
      /\ keks' = [v \in Versions |-> KekSeen(s, v)]
      /\ deks' = [st \in Streams |-> DekSeen(s, st)]
  BY DEF Commit, CommitKeys
<1>2. ASSUME NEW st \in Streams, dekWrites[s][st] \in Dek
      PROVE  dekWrites[s][st] \in RowsOf(s) /\ (op[s] = "save" => dekWrites[s][st].dek \in NewDeks(s))
  BY <1>2 DEF RowsOf, NewDeks, Dek
<1>3. \A v \in Versions :
        \/ kekWrites[s][v] = Untouched /\ keks'[v] = keks[v]
        \/ /\ kekWrites[s][v] \in Kek /\ keks[v] = None /\ keks'[v] = kekWrites[s][v]
           /\ op[s] \notin Deletes
        \/ /\ kekWrites[s][v] = None /\ op[s] = "deleteKek"
           /\ keks[v].key \in victims[s] /\ keks'[v] = None
  BY <1>1, RowTypes DEF Writes, KekSeen, Deletes
<1>4. \A st \in Streams :
        \/ dekWrites[s][st] = Untouched /\ deks'[st] = deks[st]
        \/ /\ dekWrites[s][st] \in Dek /\ deks'[st] = dekWrites[s][st]
           /\ op[s] = "save" /\ st = stream[s] /\ deks[st] = None
           /\ dekWrites[s][st].dek \in NewDeks(s) /\ dekWrites[s][st] \in RowsOf(s)
        \/ /\ dekWrites[s][st] \in Dek /\ deks'[st] = dekWrites[s][st]
           /\ op[s] = "rewrap" /\ deks[st] # None /\ deks[st].dek = dekWrites[s][st].dek
           /\ deks[st].dek \notin shredded /\ dekWrites[s][st] \in RowsOf(s)
        \/ /\ dekWrites[s][st] = None /\ deks'[st] = None
           /\ op[s] = "deleteDek" /\ st = stream[s] /\ deks[st].dek \in victims[s]
  BY <1>1, <1>2, RowTypes DEF Writes, DekSeen
<1>. QED  BY <1>1, <1>3, <1>4 DEF KeyInv, VictimInv

LEMMA CommitSets ==
  ASSUME IInv, KeyInv, NEW s \in Sessions, Commit(s)
  PROVE  /\ CommittedKeks' \subseteq CommittedKeks \cup PendingKeks(s)
         /\ op[s] \in Deletes => CommittedKeks' \subseteq CommittedKeks
         /\ \A r \in StoredRows' :
              \/ r \in StoredRows
              \/ /\ op[s] = "save" /\ r.dek \in NewDeks(s) /\ r \in RowsOf(s)
              \/ /\ op[s] = "rewrap" /\ r \in RowsOf(s) /\ r.dek \notin shredded
                 /\ \E q \in StoredRows : q.dek = r.dek
<1>1. ASSUME NEW k \in CommittedKeks'
      PROVE  k \in CommittedKeks \/ (k \in PendingKeks(s) /\ op[s] \notin Deletes)
  <2>1. PICK v \in Versions : keks'[v] = [key |-> k]
    BY DEF CommittedKeks
  <2>2. k \in KeyIds /\ [key |-> k] # None
    BY RowTypes DEF CommittedKeks, Kek
  <2>3. \/ keks[v] = [key |-> k]
        \/ kekWrites[s][v] = [key |-> k] /\ op[s] \notin Deletes
    BY <2>1, <2>2, CommitTables
  <2>4. keks[v] = [key |-> k] => k \in CommittedKeks
    BY <2>2 DEF CommittedKeks
  <2>5. kekWrites[s][v] = [key |-> k] => k \in PendingKeks(s)
    BY <2>2 DEF PendingKeks
  <2>. QED  BY <2>3, <2>4, <2>5
<1>2. ASSUME NEW r \in StoredRows'
      PROVE  \/ r \in StoredRows
             \/ /\ op[s] = "save" /\ r.dek \in NewDeks(s) /\ r \in RowsOf(s)
             \/ /\ op[s] = "rewrap" /\ r \in RowsOf(s) /\ r.dek \notin shredded
                /\ \E q \in StoredRows : q.dek = r.dek
  <2>1. PICK st \in Streams : deks'[st] = r
    BY DEF StoredRows
  <2>2. r \in Dek /\ r # None
    BY RowTypes DEF StoredRows
  <2>3. deks[st] # None => deks[st] \in StoredRows
    BY DEF StoredRows, IInv, TypeOK, KeyTypeOK
  <2>. QED  BY <2>1, <2>2, <2>3, CommitTables DEF StoredRows
<1>. QED  BY <1>1, <1>2

LEMMA CommitKeyInv ==
  ASSUME IInv, KeyInv, NEW s \in Sessions, Commit(s)
  PROVE  KeyInv'
<1>. EndSession(s) /\ pc[s] = "commit" /\ shredded' = shredded \cup victims[s]
  BY CommitTables
<1>. USE DEF KeyInv
<1>1. ExclusiveInv' /\ LockInv'
  BY EndOf DEF ExclusiveInv, LockInv, Deletes
<1>2. ASSUME NEW o \in Sessions \ {s}
      PROVE  Writes(o)'
  <2>1. op[o] = "rewrap" => victims[s] = {}
    BY CommitTables DEF ExclusiveInv
  <2>2. \A v \in Versions : kekWrites[o][v] # Untouched => keks'[v] = keks[v]
    BY CommitTables, RowTypes DEF LockInv
  <2>3. \A st \in Streams : dekWrites[o][st] # Untouched => deks'[st] = deks[st]
    BY CommitTables, RowTypes DEF LockInv
  <2>4. Writes(o)
    BY DEF WriteInv
  <2>. QED  BY <2>1, <2>2, <2>3, <2>4, EndOf DEF Writes
<1>3. WriteInv'
  BY <1>2, EndOf DEF WriteInv, Writes
<1>4. ASSUME NEW o \in Sessions \ {s}
      PROVE  Rewraps(o)'
  <2>1. CASE op[o] = "rewrap"
    <3>1. op[s] \notin Deletes /\ victims[s] = {}
      BY <2>1, CommitTables DEF ExclusiveInv
    <3>2. \A st \in Streams : deks[st] # None => deks'[st] # None /\ deks'[st].dek = deks[st].dek
      BY <3>1, CommitTables, RowTypes DEF Deletes
    <3>3. \A r \in todo[o] : r.stream \in Streams
      BY DEF IInv, TypeOK, KeyTypeOK
    <3>4. pc[o] \notin {"next", "commit"} => stream[o] \in Streams
      BY <2>1 DEF IInv, PlaceInv, InHand
    <3>. QED  BY <2>1, <3>1, <3>2, <3>3, <3>4, EndOf DEF RewrapInv, Rewraps
  <2>2. CASE op[o] # "rewrap"
    BY <2>2, EndOf DEF RewrapInv, Rewraps
  <2>. QED  BY <2>1, <2>2
<1>5. RewrapInv'
  BY <1>4, EndOf DEF RewrapInv, Rewraps
<1>6. SerialInv'
  BY CommitSets, EndOf DEF SerialInv
<1>7. FreshInv'
  <2>1. ASSUME NEW x \in Streams, NEW y \in Streams, deks'[x] # None, deks'[y] # None,
               deks'[x].dek = deks'[y].dek
        PROVE  x = y
    <3>1. \A st \in Streams : deks[st] # None => deks[st] \in StoredRows
      BY DEF StoredRows, IInv, TypeOK, KeyTypeOK
    <3>2. \A st \in Streams : deks[st] # None => deks[st].dek \notin NewDeks(s)
      BY <3>1 DEF FreshInv
    <3>3. ASSUME NEW st \in Streams, deks'[st] # None
          PROVE  \/ deks[st] # None /\ deks'[st].dek = deks[st].dek
                 \/ st = stream[s] /\ deks'[st].dek \in NewDeks(s)
      BY <3>3, CommitTables
    <3>. QED  BY <2>1, <3>2, <3>3 DEF FreshInv
  <2>2. ASSUME NEW o \in Sessions
        PROVE  /\ PendingKeks(o)' \cap CommittedKeks' = {}
               /\ NewDeks(o)' \cap CommittedKeks' = {}
               /\ NewDeks(o)' \cap shredded' = {}
    BY CommitSets, EndOf DEF FreshInv
  <2>3. ASSUME NEW o \in Sessions, NEW r \in StoredRows'
        PROVE  r.kek \notin PendingKeks(o)' /\ r.dek \notin NewDeks(o)'
    BY CommitSets, EndOf DEF FreshInv
  <2>4. ASSUME NEW o \in Sessions, NEW q \in Sessions
        PROVE  /\ NewDeks(o)' \cap (PendingKeks(q)' \cup victims'[q]) = {}
               /\ o # q => PendingKeks(o)' \cap PendingKeks(q)' = {}
               /\ o # q => NewDeks(o)' \cap NewDeks(q)' = {}
               /\ o # q => \A r \in RowsOf(o)' : r.kek \notin PendingKeks(q)'
    BY EndOf DEF FreshInv
  <2>5. ASSUME NEW o \in Sessions
        PROVE  /\ \A r \in todo'[o] : r.row.kek \notin PendingKeks(o)'
               /\ op'[o] = "rewrap" /\ pc'[o] = "unwrap" => cur'[o].kek \notin PendingKeks(o)'
    BY EndOf DEF FreshInv
  <2>. QED  BY <2>1, <2>2, <2>3, <2>4, <2>5 DEF FreshInv
<1>8. GoneInv'
  <2>1. ASSUME NEW r \in StoredRows' PROVE Gone(r)'
    <3>. SUFFICES ASSUME r.dek \in shredded' PROVE r.kek \notin CommittedKeks'
      BY DEF Gone
    <3>1. CASE op[s] \notin Deletes
      <4>1. shredded' = shredded
        BY <3>1, CommitTables
      <4>2. r \in StoredRows
        BY <4>1, CommitSets DEF FreshInv
      <4>. QED  BY <4>1, <4>2, CommitSets DEF GoneInv, Gone, FreshInv
    <3>2. CASE op[s] \in Deletes
      <4>1. r \in StoredRows /\ CommittedKeks' \subseteq CommittedKeks
        BY <3>2, CommitSets DEF Deletes
      <4>2. CASE r.dek \in shredded
        BY <4>1, <4>2 DEF GoneInv, Gone
      <4>3. CASE r.dek \in victims[s]
        <5>1. PICK st \in Streams : deks'[st] = r
          BY DEF StoredRows
        <5>2. r # None /\ r.kek \in KeyIds
          BY RowTypes DEF StoredRows, Dek
        <5>3. deks[st] = r /\ dekWrites[s][st] = Untouched
          BY <3>2, <5>1, <5>2, CommitTables DEF Deletes
        <5>4. op[s] = "deleteKek"
          BY <3>2, <4>3, <5>2, <5>3, RowTypes DEF VictimInv, Covered, Deletes
        <5>5. ASSUME NEW v \in Versions, keks'[v] = [key |-> r.kek] PROVE FALSE
          <6>1. [key |-> r.kek] # None
            BY <5>2, RowTypes DEF Kek
          <6>2. keks[v] = [key |-> r.kek] /\ kekWrites[s][v] = Untouched
            BY <3>2, <5>5, <6>1, CommitTables
          <6>. QED  BY <4>3, <5>2, <5>3, <5>4, <6>2, RowTypes DEF VictimInv, Covered
        <5>. QED  BY <5>5 DEF CommittedKeks
      <4>. QED  BY <4>2, <4>3
    <3>. QED  BY <3>1, <3>2
  <2>2. ASSUME NEW o \in Sessions \ {s}, op[o] = "rewrap"
        PROVE  shredded' = shredded /\ CommittedKeks' \subseteq CommittedKeks \cup PendingKeks(s)
    BY <2>2, CommitTables, CommitSets DEF ExclusiveInv
  <2>3. ASSUME NEW o \in Sessions, NEW r \in todo'[o] PROVE Gone(r.row)'
    <3>1. o # s /\ r \in todo[o] /\ op[o] = "rewrap"
      BY EndOf DEF RewrapInv, Rewraps
    <3>2. r.row \in RowsOf(o)
      <4>1. r = [stream |-> r.stream, row |-> r.row] /\ r.stream \in Streams /\ r.row \in Dek
        BY <3>1 DEF IInv, TypeOK, KeyTypeOK
      <4>. QED  BY <3>1, <4>1 DEF RowsOf
    <3>. QED  BY <2>2, <3>1, <3>2 DEF GoneInv, Gone, FreshInv
  <2>4. ASSUME NEW o \in Sessions, op'[o] = "rewrap", pc'[o] = "unwrap" PROVE Gone(cur[o])'
    <3>1. o # s /\ op[o] = "rewrap" /\ pc[o] = "unwrap" /\ cur'[o] = cur[o]
      BY <2>4, EndOf
    <3>2. cur[o] \in RowsOf(o)
      BY <3>1 DEF IInv, PlaceInv, InHand, RowsOf
    <3>. QED  BY <2>2, <3>1, <3>2 DEF GoneInv, Gone, FreshInv
  <2>. QED  BY <2>1, <2>3, <2>4 DEF GoneInv
<1>9. VictimInv'
  <2>1. ASSUME NEW o \in Sessions \ {s} PROVE Covered(o)'
    <3>. SUFFICES ASSUME pc[o] = "commit", op[o] \in Deletes PROVE Covered(o)'
      BY EndOf DEF Covered, Deletes
    <3>1. op[s] # "rewrap"
      BY DEF ExclusiveInv
    <3>2. ASSUME NEW st \in Streams, deks'[st] # None, deks'[st].dek \in victims[o]
          PROVE  deks'[st] = deks[st] /\ deks[st] \in StoredRows
      <4>1. deks'[st] = deks[st]
        BY <3>1, <3>2, CommitTables DEF FreshInv
      <4>. QED  BY <3>2, <4>1 DEF StoredRows, IInv, TypeOK, KeyTypeOK
    <3>3. ASSUME NEW st \in Streams, NEW v \in Versions, deks[st] \in StoredRows,
                 keks'[v] = [key |-> deks[st].kek]
          PROVE  keks[v] = keks'[v]
      <4>1. deks[st].kek \in KeyIds /\ [key |-> deks[st].kek] # None
        BY <3>3, RowTypes DEF StoredRows, Dek, Kek
      <4>2. deks[st].kek \notin PendingKeks(s)
        BY <3>3 DEF FreshInv
      <4>. QED  BY <3>3, <4>1, <4>2, CommitTables DEF PendingKeks
    <3>. QED  BY <3>2, <3>3, EndOf DEF VictimInv, Covered
  <2>. QED  BY <2>1, EndOf DEF VictimInv, Covered
<1>. QED  BY <1>1, <1>3, <1>5, <1>6, <1>7, <1>8, <1>9

-----------------------------------------------------------------------------
LEMMA KeyInvInit == Init => KeyInv
<1>. SUFFICES ASSUME Init PROVE KeyInv
  OBVIOUS
<1>. USE RowTypes DEF Init, KeyInit
<1>. \A k \in KeyIds : [key |-> k] # None /\ [key |-> k] # Untouched
  BY DEF Kek
<1>1. CommittedKeks = {} /\ StoredRows = {}
  BY DEF CommittedKeks, StoredRows
<1>2. \A s \in Sessions : PendingKeks(s) = {} /\ NewDeks(s) = {} /\ RowsOf(s) = {}
  BY DEF PendingKeks, NewDeks, RowsOf
<1>3. ExclusiveInv /\ LockInv /\ WriteInv /\ RewrapInv
  BY DEF ExclusiveInv, LockInv, WriteInv, Writes, RewrapInv, Rewraps
<1>4. SerialInv /\ FreshInv /\ GoneInv /\ VictimInv
  BY <1>1, <1>2 DEF SerialInv, FreshInv, GoneInv, VictimInv, Covered
<1>. QED  BY <1>3, <1>4 DEF KeyInv

LEMMA WorkOrEnd ==
  ASSUME Next
  PROVE  \E s \in Sessions : Work(s) \/ Commit(s) \/ Fail(s)
BY DEF Next, Work

LEMMA KeyInvStutter == IInv /\ KeyInv /\ UNCHANGED vars => KeyInv'
<1>. SUFFICES ASSUME IInv, KeyInv, UNCHANGED vars PROVE KeyInv'
  OBVIOUS
<1>. USE DEF vars, keyVars, tableVars, localVars, eventVars
<1>1. CommittedKeks' = CommittedKeks /\ StoredRows' = StoredRows
  BY DEF CommittedKeks, StoredRows
<1>2. \A s \in Sessions : /\ PendingKeks(s)' = PendingKeks(s) /\ NewDeks(s)' = NewDeks(s)
                          /\ RowsOf(s)' = RowsOf(s)
  BY DEF PendingKeks, NewDeks, RowsOf
<1>3. (ExclusiveInv /\ LockInv /\ WriteInv /\ RewrapInv)'
  BY DEF KeyInv, ExclusiveInv, LockInv, WriteInv, Writes, RewrapInv, Rewraps
<1>4. (SerialInv /\ FreshInv /\ GoneInv /\ VictimInv)'
  BY <1>1, <1>2 DEF KeyInv, SerialInv, FreshInv, GoneInv, Gone, VictimInv, Covered
<1>. QED  BY <1>3, <1>4 DEF KeyInv

LEMMA KeyInvariance ==
  ASSUME Exclusive
  PROVE  Spec => [](IInv /\ KeyInv)
<1>1. IInv /\ KeyInv /\ [Next]_vars => KeyInv'
  <2>. SUFFICES ASSUME IInv, KeyInv, [Next]_vars PROVE KeyInv'
    OBVIOUS
  <2>1. ASSUME NEW s \in Sessions, Work(s) PROVE KeyInv'
    BY <2>1, ExclusiveWork, LockWork, WritesWork, RewrapWork, SerialWork, FreshWork, GoneWork,
       VictimWork DEF KeyInv
  <2>2. ASSUME NEW s \in Sessions, Commit(s) \/ Fail(s) PROVE KeyInv'
    BY <2>2, CommitKeyInv, FailKeyInv
  <2>. QED  BY <2>1, <2>2, WorkOrEnd, KeyInvStutter
<1>. QED  BY Invariance, KeyInvInit, <1>1, PTL DEF Spec

\* Crypto-shredding: with no delete while a rewrap runs, no session brings back a key that a
\* committed delete_kek() or delete() covered, however rotations, first saves and rewraps
\* interleave with it.
THEOREM Shredded ==
  ASSUME Exclusive
  PROVE  Spec => []ShreddedForGood
<1>1. IInv /\ KeyInv => ShreddedForGood
  <2>. SUFFICES ASSUME IInv, KeyInv, NEW st \in Streams, deks[st] # None, deks[st].dek \in shredded,
                       Opens(deks[st], keks[deks[st].ver])
                PROVE  FALSE
    BY DEF ShreddedForGood, Recoverable
  <2>1. deks[st] \in Dek /\ deks[st] \in StoredRows
    BY DEF StoredRows, IInv, TypeOK, KeyTypeOK
  <2>2. deks[st].ver \in Versions /\ keks[deks[st].ver] \in Kek
    BY <2>1 DEF Opens, Dek, IInv, TypeOK, KeyTypeOK
  <2>3. deks[st].kek \in CommittedKeks
    BY <2>2 DEF Opens, CommittedKeks, Kek
  <2>. QED  BY <2>1, <2>3 DEF KeyInv, GoneInv, Gone
<1>. QED  BY KeyInvariance, <1>1, PTL

-----------------------------------------------------------------------------
(***************************************************************************)
(* Stored events can be read.                                               *)
(***************************************************************************)
OpensOrGone(r, kekRow) == Opens(r, kekRow) \/ r.kek \in shredded
HoldsOrGone(d, row)    == (row # None /\ row.dek = d) \/ d \in shredded

LEMMA OpenWork ==
  ASSUME IInv, IInv', KeyInv, OpenInv, NEW s \in Sessions, Work(s)
  PROVE  OpenInv'
<1>. USE DEF tableVars, keyVars, localVars, Goto, Deletes
<1>. IInv /\ TypeOK /\ KeyTypeOK /\ Placed(s) /\ InHand(s) /\ Writes(s)
  BY DEF IInv, TypeOK, PlaceInv, KeyInv, WriteInv
<1>. keks' = keks /\ deks' = deks /\ shredded' = shredded
  BY WorkOthers
<1>1. \A o \in Sessions \ {s} : \A v : KekSeen(o, v)' = KekSeen(o, v)
  BY WorkOthers DEF KekSeen
<1>2. op[s] \in {"save", "rewrap"} =>
        \A v \in Versions : KekSeen(s, v) # None => KekSeen(s, v)' = KekSeen(s, v)
  <2>1. CASE SaveKek(s)
    <3>1. kek[s].ver \in Versions
      BY <2>1 DEF SaveKek, InHand
    <3>. QED  BY <2>1, <3>1 DEF KeyTypeOK, SaveKek, KekSeen
  <2>2. CASE ~SaveKek(s)
    <3>. SUFFICES ASSUME op[s] \in {"save", "rewrap"} PROVE kekWrites' = kekWrites
      BY DEF KekSeen
    <3>1. CASE \/ SelectLatestDek(s) \/ DecryptDek(s) \/ InsertDek(s) \/ NoCurrentKek(s)
               \/ GenerateDek(s) \/ EncryptDek(s) \/ RotateKek(s)
      BY <3>1 DEF SelectLatestDek, DecryptDek, InsertDek, NoCurrentKek, GenerateDek, EncryptDek, RotateKek
    <3>2. CASE \/ BeginRotate(s) \/ BeginRewrap(s) \/ BeginDelete(s) \/ RewrapNext(s) \/ UpdateDek(s)
               \/ DeleteKek(s) \/ DeleteDek(s)
      BY <3>2 DEF BeginRotate, BeginRewrap, BeginDelete, Begin, RewrapNext, UpdateDek, DeleteKek,
                  DeleteVersions, DeleteDek
    <3>3. CASE \/ Create(s) \/ BeginLoad(s) \/ Fold(s) \/ Decide(s) \/ BeginSave(s) \/ InsertEvent(s)
      BY <3>3 DEF Create, Begin, BeginLoad, Fold, Decide, BeginSave, InsertEvent, InsertAt
    <3>. QED  BY WorkCases, <2>2, <3>1, <3>2, <3>3
  <2>. QED  BY <2>1, <2>2
<1>3. /\ \A st \in Streams :
           dekWrites'[s][st] \in Dek =>
             \/ dekWrites'[s][st] = dekWrites[s][st]
             \/ dekWrites'[s][st] = cur[s] /\ pc[s] \in {"insertDek", "updateDek"}
      /\ pc'[s] \in {"insertDek", "updateDek"} =>
           GenerateDek(s) \/ EncryptDek(s)
  <2>1. CASE \/ SelectLatestDek(s) \/ DecryptDek(s) \/ InsertDek(s) \/ NoCurrentKek(s) \/ RotateKek(s)
             \/ SaveKek(s)
    BY <2>1 DEF KeyTypeOK, SelectLatestDek, DecryptDek, InsertDek, NoCurrentKek, RotateKek, SaveKek,
                Placed, InHand
  <2>2. CASE GenerateDek(s) \/ EncryptDek(s)
    BY <2>2 DEF GenerateDek, EncryptDek
  <2>3. CASE BeginRotate(s) \/ BeginRewrap(s) \/ BeginDelete(s) \/ RewrapNext(s) \/ UpdateDek(s)
    BY <2>3 DEF KeyTypeOK, BeginRotate, BeginRewrap, BeginDelete, Begin, RewrapNext, UpdateDek, Placed,
                InHand
  <2>4. CASE DeleteKek(s) \/ DeleteDek(s)
    BY <2>4, RowTypes DEF KeyTypeOK, DeleteKek, DeleteVersions, DeleteDek, Placed, InHand
  <2>5. CASE \/ Create(s) \/ BeginLoad(s) \/ Fold(s) \/ Decide(s) \/ BeginSave(s) \/ InsertEvent(s)
    BY <2>5 DEF KeyTypeOK, Create, Begin, BeginLoad, Fold, Decide, BeginSave, InsertEvent, InsertAt
  <2>. QED  BY WorkCases, <2>1, <2>2, <2>3, <2>4, <2>5
<1>4. ASSUME NEW r \in Dek, op[s] \in {"save", "rewrap"}, OpensOrGone(r, KekSeen(s, r.ver))
      PROVE  OpensOrGone(r, KekSeen(s, r.ver))'
  <2>1. r.ver \in Versions
    BY DEF Dek
  <2>. QED  BY <1>2, <1>4, <2>1 DEF OpensOrGone, Opens
<1>5. pc[s] \in {"insertDek", "updateDek"} =>
        cur[s] \in Dek /\ op[s] \in {"save", "rewrap"} /\ OpensOrGone(cur[s], KekSeen(s, cur[s].ver))
  BY DEF OpenInv, OpensOrGone, InHand, Placed
<1>6. ASSUME NEW st \in Streams, dekWrites'[s][st] \in Dek
      PROVE  OpensOrGone(dekWrites[s][st], KekSeen(s, dekWrites[s][st].ver))'
  <2>1. CASE dekWrites'[s][st] = dekWrites[s][st]
    <3>1. op[s] \in {"save", "rewrap"} /\ OpensOrGone(dekWrites[s][st], KekSeen(s, dekWrites[s][st].ver))
      BY <1>6, <2>1, RowTypes DEF Writes, OpenInv, OpensOrGone
    <3>. QED  BY <1>4, <1>6, <2>1, <3>1
  <2>2. CASE dekWrites'[s][st] = cur[s] /\ pc[s] \in {"insertDek", "updateDek"}
    BY <1>4, <1>5, <2>2
  <2>. QED  BY <1>3, <1>6, <2>1, <2>2
<1>7. ASSUME pc'[s] \in {"insertDek", "updateDek"}
      PROVE  OpensOrGone(cur[s], KekSeen(s, cur[s].ver))'
  <2>1. \A v : KekSeen(s, v)' = KekSeen(s, v)
    BY <1>3, <1>7 DEF GenerateDek, EncryptDek, KekSeen
  <2>2. CASE GenerateDek(s)
    <3>1. PICK v \in CurrentKek(s) :
            cur' = [cur EXCEPT ![s] = Encrypt(minted + 1, v, KekSeen(s, v))]
      BY <2>2 DEF GenerateDek
    <3>2. minted + 1 \in KeyIds
      BY <2>2, KeyStoreAssumption DEF GenerateDek, KeyIds, KeyTypeOK
    <3>3. cur'[s] = Encrypt(minted + 1, v, KekSeen(s, v))
      BY <3>1 DEF KeyTypeOK
    <3>. QED  BY <2>1, <3>2, <3>3, WrappedKek DEF OpensOrGone, Opens
  <2>3. CASE EncryptDek(s)
    <3>1. PICK v \in CurrentKek(s) :
            cur' = [cur EXCEPT ![s] = Encrypt(cur[s].dek, v, KekSeen(s, v))]
      BY <2>3 DEF EncryptDek
    <3>2. cur[s].dek \in KeyIds
      BY <2>3 DEF EncryptDek, InHand, Dek
    <3>3. cur'[s] = Encrypt(cur[s].dek, v, KekSeen(s, v))
      BY <3>1 DEF KeyTypeOK
    <3>. QED  BY <2>1, <3>2, <3>3, WrappedKek DEF OpensOrGone, Opens
  <2>. QED  BY <1>3, <1>7, <2>2, <2>3
<1>8. ASSUME NEW o \in Sessions \ {s}
      PROVE  /\ \A st \in Streams : dekWrites'[o][st] \in Dek =>
                  OpensOrGone(dekWrites[o][st], KekSeen(o, dekWrites[o][st].ver))'
             /\ pc'[o] \in {"insertDek", "updateDek"} => OpensOrGone(cur[o], KekSeen(o, cur[o].ver))'
  BY <1>1, WorkOthers DEF OpenInv, OpensOrGone, Opens
<1>9. \A st \in Streams : deks'[st] # None => OpensOrGone(deks[st], keks[deks[st].ver])'
  BY DEF OpenInv, OpensOrGone, Opens
<1>. QED  BY <1>6, <1>7, <1>8, <1>9 DEF OpenInv, OpensOrGone

LEMMA EventKeyWork ==
  ASSUME IInv, IInv', KeyInv, EventKeyInv, NEW s \in Sessions, Work(s)
  PROVE  EventKeyInv'
<1>. USE DEF tableVars, keyVars, localVars, Goto, Deletes
<1>. TypeOK /\ KeyTypeOK /\ Placed(s) /\ InHand(s) /\ Writes(s)
  BY DEF IInv, TypeOK, PlaceInv, KeyInv, WriteInv
<1>. keks' = keks /\ deks' = deks /\ shredded' = shredded /\ events' = events
  BY WorkOthers
<1>0. /\ ~ InsertEvent(s) => eventWrites' = eventWrites
      /\ InsertEvent(s) => pc[s] = "insert"
  BY DEF Work, Keys, eventVars, Create, Begin, Fold, Decide, BeginSave, BeginLoad, InsertEvent, InsertAt
<1>1. \A o \in Sessions \ {s} : \A st : DekSeen(o, st)' = DekSeen(o, st)
  BY WorkOthers DEF DekSeen
<1>2. ASSUME NEW o \in Sessions \ {s}
      PROVE  /\ \A e \in eventWrites'[o] : HoldsOrGone(e.dek, DekSeen(o, e.stream))'
             /\ op'[o] = "save" /\ pc'[o] \in {"unwrap", "insert"} =>
                  HoldsOrGone(cur[o].dek, DekSeen(o, stream[o]))'
  BY <1>1, WorkOthers DEF EventKeyInv, HoldsOrGone
<1>3. \A e \in events' : HoldsOrGone(e.dek, deks[e.stream])'
  BY DEF EventKeyInv, HoldsOrGone
<1>4. ASSUME op'[s] = "save"
      PROVE  /\ \A e \in eventWrites'[s] : HoldsOrGone(e.dek, DekSeen(s, e.stream))'
             /\ pc'[s] \in {"unwrap", "insert"} => HoldsOrGone(cur[s].dek, DekSeen(s, stream[s]))'
  <2>1. CASE Create(s) \/ Fold(s)
    <3>1. eventWrites'[s] = {} /\ pc'[s] = "decide"
      BY <2>1 DEF KeyTypeOK, Create, Begin, Fold, Placed, IInv, BatchInv
    <3>. QED  BY <3>1
  <2>2. CASE InsertDek(s)
    <3>1. /\ stream[s] \in Streams /\ cur' = cur /\ stream' = stream /\ eventWrites' = eventWrites
          /\ dekWrites'[s] = [dekWrites[s] EXCEPT ![stream[s]] = cur[s]]
          /\ DekSeen(s, stream[s]) = None /\ cur[s] \in Dek
      BY <1>0, <1>4, <2>2 DEF KeyTypeOK, InsertDek, InHand
    <3>2. DekSeen(s, stream[s])' = cur[s]
      BY <3>1, RowTypes DEF DekSeen, KeyTypeOK
    <3>3. \A e \in eventWrites[s] : e.stream = stream[s] /\ e.dek \in shredded
      BY <1>4, <2>2, <3>1 DEF EventKeyInv, InsertDek, IInv, BatchInv
    <3>. QED  BY <3>1, <3>2, <3>3, RowTypes DEF HoldsOrGone
  <2>3. CASE InsertEvent(s)
    <3>1. /\ op[s] = "save" /\ pc[s] = "insert" /\ stream' = stream /\ cur' = cur
          /\ dekWrites' = dekWrites
          /\ eventWrites'[s] = eventWrites[s] \cup {Row(s, agg[s].saved + 1)}
      BY <1>4, <2>3 DEF InsertEvent, InsertAt, TypeOK
    <3>2. Row(s, agg[s].saved + 1).stream = stream[s] /\ Row(s, agg[s].saved + 1).dek = cur[s].dek
      BY DEF Row
    <3>3. \A st : DekSeen(s, st)' = DekSeen(s, st)
      BY <3>1 DEF DekSeen
    <3>4. HoldsOrGone(cur[s].dek, DekSeen(s, stream[s]))
      BY <3>1 DEF EventKeyInv, HoldsOrGone
    <3>5. \A e \in eventWrites[s] : HoldsOrGone(e.dek, DekSeen(s, e.stream))
      BY DEF EventKeyInv, HoldsOrGone
    <3>6. \A e \in eventWrites'[s] : HoldsOrGone(e.dek, DekSeen(s, e.stream))'
      BY <3>1, <3>2, <3>3, <3>4, <3>5 DEF HoldsOrGone
    <3>. QED  BY <3>1, <3>3, <3>4, <3>6 DEF HoldsOrGone
  <2>4. CASE SelectLatestDek(s)
    <3>1. /\ op[s] = "save" /\ stream' = stream /\ dekWrites' = dekWrites /\ eventWrites' = eventWrites
          /\ cur'[s] = DekSeen(s, stream[s]) /\ pc'[s] # "insert"
          /\ pc'[s] = "unwrap" => DekSeen(s, stream[s]) # None
      BY <1>0, <1>4, <2>4 DEF KeyTypeOK, SelectLatestDek
    <3>2. \A st : DekSeen(s, st)' = DekSeen(s, st)
      BY <3>1 DEF DekSeen
    <3>. QED  BY <3>1, <3>2 DEF EventKeyInv, HoldsOrGone
  <2>5. CASE \/ DecryptDek(s) \/ NoCurrentKek(s) \/ GenerateDek(s) \/ RotateKek(s) \/ SaveKek(s)
             \/ Decide(s) \/ BeginSave(s)
    <3>1. /\ op[s] = "save" /\ stream' = stream /\ dekWrites' = dekWrites /\ eventWrites' = eventWrites
          /\ pc'[s] \in {"unwrap", "insert"} => pc[s] \in {"unwrap", "insert"} /\ cur' = cur
      <4>1. CASE DecryptDek(s) \/ NoCurrentKek(s) \/ GenerateDek(s) \/ RotateKek(s) \/ SaveKek(s)
        BY <1>0, <1>4, <4>1 DEF KeyTypeOK, DecryptDek, NoCurrentKek, GenerateDek, RotateKek, SaveKek
      <4>2. CASE Decide(s) \/ BeginSave(s)
        BY <1>4, <4>2 DEF KeyTypeOK, Decide, BeginSave, eventVars
      <4>. QED  BY <2>5, <4>1, <4>2
    <3>2. \A st : DekSeen(s, st)' = DekSeen(s, st)
      BY <3>1 DEF DekSeen
    <3>. QED  BY <3>1, <3>2 DEF EventKeyInv, HoldsOrGone
  <2>6. ~ (\/ EncryptDek(s) \/ UpdateDek(s) \/ DeleteKek(s) \/ DeleteDek(s) \/ RewrapNext(s)
           \/ BeginRotate(s) \/ BeginRewrap(s) \/ BeginDelete(s) \/ BeginLoad(s))
    BY <1>4 DEF KeyTypeOK, EncryptDek, UpdateDek, DeleteKek, DeleteVersions, DeleteDek, RewrapNext,
                BeginRotate, BeginRewrap, BeginDelete, Begin, BeginLoad, Placed
  <2>. QED  BY WorkCases, <2>1, <2>2, <2>3, <2>4, <2>5, <2>6
<1>5. op'[s] # "save" => eventWrites'[s] = {}
  BY DEF IInv, BatchInv
<1>. QED  BY <1>2, <1>3, <1>4, <1>5 DEF EventKeyInv, HoldsOrGone

\* A commit takes a key from no row, but by a delete that covers it.
LEMMA CommitKeeps ==
  ASSUME IInv, KeyInv, NEW s \in Sessions, Commit(s)
  PROVE  /\ \A r \in Dek : \A v \in Versions : Opens(r, keks[v]) => OpensOrGone(r, keks[v])'
         /\ \A st \in Streams : \A d : HoldsOrGone(d, deks[st]) => HoldsOrGone(d, deks[st])'
<1>1. ASSUME NEW r \in Dek, NEW v \in Versions, Opens(r, keks[v])
      PROVE  Opens(r, keks'[v]) \/ r.kek \in shredded'
  BY <1>1, CommitTables DEF Opens
<1>2. ASSUME NEW st \in Streams, NEW d, HoldsOrGone(d, deks[st])
      PROVE  (deks'[st] # None /\ deks'[st].dek = d) \/ d \in shredded'
  BY <1>2, CommitTables, RowTypes DEF HoldsOrGone
<1>3. \A r \in Dek : \A v \in Versions : Opens(r, keks[v]) => OpensOrGone(r, keks[v])'
  BY <1>1 DEF OpensOrGone, Opens
<1>4. \A st \in Streams : \A d : HoldsOrGone(d, deks[st]) => HoldsOrGone(d, deks[st])'
  BY <1>2 DEF HoldsOrGone
<1>. QED  BY <1>3, <1>4

LEMMA CommitOpen ==
  ASSUME IInv, KeyInv, OpenInv, NEW s \in Sessions, Commit(s)
  PROVE  OpenInv'
<1>1. /\ \A v \in Versions : keks'[v] = KekSeen(s, v)
      /\ EndSession(s) /\ shredded \subseteq shredded'
  BY DEF Commit, CommitKeys
<1>2. ASSUME NEW st \in Streams, deks'[st] # None
      PROVE  OpensOrGone(deks[st], keks[deks[st].ver])'
  <2>1. deks'[st] = deks[st] \/ (deks'[st] = dekWrites[s][st] /\ dekWrites[s][st] \in Dek)
    BY <1>2, CommitTables
  <2>2. CASE deks'[st] = deks[st]
    <3>1. deks[st] \in Dek /\ deks[st].ver \in Versions
      BY <1>2, <2>2 DEF IInv, TypeOK, KeyTypeOK, Dek
    <3>2. Opens(deks[st], keks[deks[st].ver]) \/ deks[st].kek \in shredded
      BY <1>2, <2>2 DEF OpenInv
    <3>. QED  BY <1>1, <2>2, <3>1, <3>2, CommitKeeps DEF OpensOrGone, Opens
  <2>3. CASE deks'[st] = dekWrites[s][st] /\ dekWrites[s][st] \in Dek
    <3>1. dekWrites[s][st].ver \in Versions
      BY <2>3 DEF Dek
    <3>. QED  BY <1>1, <2>3, <3>1 DEF OpenInv, OpensOrGone, Opens
  <2>. QED  BY <2>1, <2>2, <2>3
<1>3. ASSUME NEW o \in Sessions \ {s}, NEW r \in Dek, OpensOrGone(r, KekSeen(o, r.ver))
      PROVE  OpensOrGone(r, KekSeen(o, r.ver))'
  <2>1. r.ver \in Versions /\ kekWrites'[o] = kekWrites[o]
    BY <1>1, EndOf DEF Dek
  <2>. QED  BY <1>1, <1>3, <2>1, CommitKeeps DEF OpensOrGone, Opens, KekSeen
<1>4. ASSUME NEW o \in Sessions \ {s}
      PROVE  /\ \A st \in Streams : dekWrites'[o][st] \in Dek =>
                  OpensOrGone(dekWrites[o][st], KekSeen(o, dekWrites[o][st].ver))'
             /\ pc'[o] \in {"insertDek", "updateDek"} => OpensOrGone(cur[o], KekSeen(o, cur[o].ver))'
  <2>1. pc'[o] = pc[o] /\ cur'[o] = cur[o] /\ dekWrites'[o] = dekWrites[o]
    BY <1>1, EndOf
  <2>2. ASSUME NEW st \in Streams, dekWrites[o][st] \in Dek
        PROVE  OpensOrGone(dekWrites[o][st], KekSeen(o, dekWrites[o][st].ver))'
    BY <1>3, <2>1, <2>2 DEF OpenInv, OpensOrGone, Opens, KekSeen
  <2>3. ASSUME pc[o] \in {"insertDek", "updateDek"}
        PROVE  OpensOrGone(cur[o], KekSeen(o, cur[o].ver))'
    <3>1. cur[o] \in Dek
      BY <2>3 DEF IInv, PlaceInv, InHand
    <3>. QED  BY <1>3, <2>1, <2>3, <3>1 DEF OpenInv, OpensOrGone, Opens, KekSeen
  <2>. QED  BY <2>1, <2>2, <2>3
<1>5. /\ \A st \in Streams : dekWrites'[s][st] \notin Dek
      /\ pc'[s] = "idle"
  BY <1>1, EndOf, RowTypes
<1>. QED  BY <1>2, <1>4, <1>5 DEF OpenInv, OpensOrGone

LEMMA CommitEventKey ==
  ASSUME IInv, KeyInv, EventKeyInv, NEW s \in Sessions, Commit(s)
  PROVE  EventKeyInv'
<1>1. /\ \A st \in Streams : deks'[st] = DekSeen(s, st)
      /\ EndSession(s) /\ shredded \subseteq shredded' /\ events' = events \cup eventWrites[s]
      /\ eventWrites'[s] = {} /\ \A o \in Sessions \ {s} : eventWrites'[o] = eventWrites[o]
  BY DEF Commit, CommitKeys, Leave, IInv, TypeOK
<1>2. /\ \A e \in events : e.stream \in Streams
      /\ \A o \in Sessions : \A e \in eventWrites[o] : e.stream \in Streams
  BY DEF IInv, TypeOK, Event
<1>3. ASSUME NEW e \in events' PROVE HoldsOrGone(e.dek, deks[e.stream])'
  <2>1. CASE e \in events
    <3>1. HoldsOrGone(e.dek, deks[e.stream])
      BY <2>1 DEF EventKeyInv, HoldsOrGone
    <3>. QED  BY <1>2, <2>1, <3>1, CommitKeeps DEF HoldsOrGone
  <2>2. CASE e \in eventWrites[s]
    BY <1>1, <1>2, <2>2 DEF EventKeyInv, HoldsOrGone
  <2>. QED  BY <1>1, <2>1, <2>2
<1>4. ASSUME NEW o \in Sessions \ {s}, NEW st \in Streams, NEW d, HoldsOrGone(d, DekSeen(o, st))
      PROVE  HoldsOrGone(d, DekSeen(o, st))'
  <2>1. dekWrites'[o] = dekWrites[o]
    BY <1>1, EndOf
  <2>. QED  BY <1>1, <1>4, <2>1, CommitKeeps DEF HoldsOrGone, DekSeen
<1>5. ASSUME NEW o \in Sessions \ {s}
      PROVE  /\ \A e \in eventWrites'[o] : HoldsOrGone(e.dek, DekSeen(o, e.stream))'
             /\ op'[o] = "save" /\ pc'[o] \in {"unwrap", "insert"} =>
                  HoldsOrGone(cur[o].dek, DekSeen(o, stream[o]))'
  <2>1. /\ op'[o] = op[o] /\ pc'[o] = pc[o] /\ cur'[o] = cur[o] /\ stream'[o] = stream[o]
        /\ dekWrites'[o] = dekWrites[o]
    BY <1>1, EndOf
  <2>2. ASSUME NEW e \in eventWrites[o] PROVE HoldsOrGone(e.dek, DekSeen(o, e.stream))'
    BY <1>2, <1>4, <2>2 DEF EventKeyInv, HoldsOrGone, DekSeen
  <2>3. ASSUME op[o] = "save", pc[o] \in {"unwrap", "insert"}
        PROVE  HoldsOrGone(cur[o].dek, DekSeen(o, stream[o]))'
    <3>1. stream[o] \in Streams
      BY <2>3 DEF IInv, PlaceInv, InHand
    <3>2. HoldsOrGone(cur[o].dek, DekSeen(o, stream[o]))
      BY <2>3 DEF EventKeyInv, HoldsOrGone
    <3>. QED  BY <1>4, <2>1, <3>1, <3>2 DEF HoldsOrGone, DekSeen
  <2>. QED  BY <1>1, <2>1, <2>2, <2>3
<1>6. op'[s] = "none"
  BY <1>1, EndOf
<1>. QED  BY <1>1, <1>3, <1>5, <1>6 DEF EventKeyInv, HoldsOrGone

\* A rollback, and a step that changes nothing.
LEMMA FailReadable ==
  ASSUME IInv, OpenInv, EventKeyInv, NEW s \in Sessions, Fail(s)
  PROVE  OpenInv' /\ EventKeyInv'
<1>1. /\ EndSession(s) /\ keks' = keks /\ deks' = deks /\ shredded' = shredded /\ events' = events
      /\ eventWrites'[s] = {} /\ \A o \in Sessions \ {s} : eventWrites'[o] = eventWrites[o]
  BY DEF Fail, FailKeys, Leave, IInv, TypeOK
<1>2. OpenInv'
  BY <1>1, EndOf, RowTypes DEF OpenInv, Opens, KekSeen
<1>3. EventKeyInv'
  BY <1>1, EndOf DEF EventKeyInv, DekSeen
<1>. QED  BY <1>2, <1>3

LEMMA ReadableInvariance ==
  ASSUME Exclusive
  PROVE  Spec => [](IInv /\ KeyInv /\ OpenInv /\ EventKeyInv)
<1>1. Init => OpenInv /\ EventKeyInv
  BY RowTypes DEF Init, KeyInit, OpenInv, EventKeyInv
<1>2. IInv /\ IInv' /\ KeyInv /\ OpenInv /\ EventKeyInv /\ [Next]_vars => OpenInv' /\ EventKeyInv'
  <2>. SUFFICES ASSUME IInv, IInv', KeyInv, OpenInv, EventKeyInv, [Next]_vars
                PROVE  OpenInv' /\ EventKeyInv'
    OBVIOUS
  <2>1. ASSUME NEW s \in Sessions, Work(s) PROVE OpenInv' /\ EventKeyInv'
    BY <2>1, OpenWork, EventKeyWork
  <2>2. ASSUME NEW s \in Sessions, Commit(s) PROVE OpenInv' /\ EventKeyInv'
    BY <2>2, CommitOpen, CommitEventKey
  <2>3. ASSUME NEW s \in Sessions, Fail(s) PROVE OpenInv' /\ EventKeyInv'
    BY <2>3, FailReadable
  <2>4. CASE UNCHANGED vars
    <3>1. OpenInv'
      BY <2>4 DEF OpenInv, Opens, KekSeen, vars, keyVars, tableVars, localVars
    <3>2. EventKeyInv'
      BY <2>4 DEF EventKeyInv, DekSeen, vars, keyVars, tableVars, localVars, eventVars
    <3>. QED  BY <3>1, <3>2
  <2>. QED  BY <2>1, <2>2, <2>3, <2>4, WorkOrEnd
<1>. QED  BY KeyInvariance, <1>1, <1>2, PTL DEF Spec

\* Every stored event can be read unless a committed delete covered its DEK or the KEK it is
\* under: no first save, rotation or rewrap, interleaved with the others, loses a key that a
\* stored payload needs.
THEOREM ReadableUnlessShredded ==
  ASSUME Exclusive
  PROVE  Spec => []EventsReadable
<1>1. OpenInv /\ EventKeyInv /\ IInv => EventsReadable
  BY DEF EventsReadable, Readable, OpenInv, EventKeyInv, IInv, TypeOK, Event
<1>. QED  BY ReadableInvariance, <1>1, PTL
=============================================================================
