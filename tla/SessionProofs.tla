---------------------------- MODULE SessionProofs ----------------------------
(***************************************************************************)
(* Proofs about Session, for any composite of Pg and REST delegates, any     *)
(* cache and any nesting of scopes: the delegates that commit are the last   *)
(* ones, and a transaction never holds two live objects of one key.          *)
(***************************************************************************)
EXTENDS Session, TLAPS

\* No delegate has ended before its outermost scope is left, and those that have are all
\* committed until one is not.
Ending == phase = "leaving" /\ Outermost

EndInv ==
  /\ scopes # <<>> /\ ~Ending => \A d \in Delegates : outcome[d] = "none"
  /\ Ending => \A d \in Delegates : /\ d <= left => outcome[d] = "none"
                                    /\ d > left /\ ~failing => outcome[d] = "committed"

LEMMA TypeInit == ASSUME Composite, Init PROVE TypeOK
<1>1. Len(Kinds) \in Nat
  BY DEF Composite
<1>2. <<>> \in Seq(Object) /\ <<>> \in Seq([Keys -> Version])
  OBVIOUS
<1>3. rows \in [Keys -> Nat] /\ work \in [Keys -> Version] /\ outcome \in [Delegates -> {"none", "committed", "rolled back"}]
  BY DEF Init, Version, Unwritten
<1>4. scopes \in Seq([Keys -> Version]) /\ objects \in Seq(Object)
  BY <1>2 DEF Init
<1>5. left \in 0..Len(Kinds) /\ failing \in BOOLEAN
  <2>1. left \in 0..Len(Kinds)
    BY <1>1 DEF Init
  <2>. QED  BY <2>1 DEF Init
<1>6. phase \in {"idle", "entering", "open", "leaving"} /\ (phase = "idle" <=> scopes = <<>>)
  BY DEF Init
<1>. QED  BY <1>3, <1>4, <1>5, <1>6 DEF TypeOK

LEMMA DelegateRange == ASSUME Composite PROVE Delegates = 1..Len(Kinds) /\ Len(Kinds) \in Nat
BY DEF Composite, Delegates

LEMMA LeftRange ==
  ASSUME Composite, NEW n \in 0..Len(Kinds)
  PROVE  /\ 0 \in 0..Len(Kinds) /\ Len(Kinds) \in 0..Len(Kinds)
         /\ n > 0 => n - 1 \in 0..Len(Kinds) /\ n \in Delegates
         /\ n < Len(Kinds) => n + 1 \in 0..Len(Kinds) /\ n + 1 \in Delegates
BY DelegateRange

LEMMA SeqEnds ==
  ASSUME NEW S, NEW q \in Seq(S)
  PROVE  /\ \A x \in S : Append(q, x) \in Seq(S) /\ Append(q, x) # <<>> /\ Len(Append(q, x)) = Len(q) + 1
                         /\ (Len(Append(q, x)) = 1 <=> q = <<>>)
         /\ q # <<>> => Last(q) \in S /\ Front(q) \in Seq(S) /\ Len(Front(q)) = Len(q) - 1
                        /\ (Len(q) = 1 <=> Front(q) = <<>>)
<1>1. ASSUME NEW r \in Seq(S) PROVE Len(r) \in Nat /\ (r = <<>> <=> Len(r) = 0)
  OBVIOUS
<1>2. \A x \in S : Append(q, x) \in Seq(S) /\ Len(Append(q, x)) = Len(q) + 1
  OBVIOUS
<1>3. ASSUME q # <<>> PROVE Last(q) \in S
  <2>1. Len(q) \in 1..Len(q)
    BY <1>1, <1>3
  <2>. QED  BY <2>1 DEF Last
<1>4. ASSUME q # <<>> PROVE Front(q) \in Seq(S) /\ Len(Front(q)) = Len(q) - 1
  <2>1. SubSeq(q, 1, Len(q) - 1) \in Seq(S) /\ Len(SubSeq(q, 1, Len(q) - 1)) = Len(q) - 1
    BY <1>4
  <2>. QED  BY <2>1 DEF Front
<1>5. \A x \in S : Append(q, x) # <<>> /\ (Len(Append(q, x)) = 1 <=> q = <<>>)
  BY <1>1, <1>2
<1>6. ASSUME q # <<>> PROVE Len(q) = 1 <=> Front(q) = <<>>
  <2>1. Front(q) = <<>> <=> Len(Front(q)) = 0
    BY <1>1, <1>4, <1>6
  <2>2. Len(Front(q)) = Len(q) - 1 /\ Len(q) \in Nat
    BY <1>1, <1>4, <1>6
  <2>. QED  BY <2>1, <2>2
<1>. QED  BY <1>2, <1>3, <1>4, <1>5, <1>6

LEMMA VisibleNat == ASSUME TypeOK, NEW k \in Keys PROVE Visible(k) \in Nat
BY DEF TypeOK, Version, Visible, Unwritten

LEMMA StoresType ==
  ASSUME TypeOK, NEW k \in Keys, NEW version \in Nat, Stores(k, version)
  PROVE  rows' \in [Keys -> Nat] /\ work' \in [Keys -> Version]
BY DEF TypeOK, Stores, Version

LEMMA SeqFacts ==
  ASSUME NEW S, NEW q \in Seq(S)
  PROVE  /\ Len(q) \in Nat /\ DOMAIN q = 1..Len(q) /\ q \in [1..Len(q) -> S]
         /\ \A x \in S : /\ Append(q, x) \in Seq(S) /\ DOMAIN Append(q, x) = DOMAIN q \cup {Len(q) + 1}
                         /\ Append(q, x)[Len(q) + 1] = x
                         /\ \A k \in DOMAIN q : Append(q, x)[k] = q[k]
<1>1. Len(q) \in Nat /\ DOMAIN q = 1..Len(q) /\ q \in [1..Len(q) -> S]
  OBVIOUS
<1>2. ASSUME NEW x \in S
      PROVE  /\ Append(q, x) \in Seq(S) /\ Len(Append(q, x)) = Len(q) + 1
             /\ Append(q, x)[Len(q) + 1] = x
             /\ \A k \in 1..Len(q) : Append(q, x)[k] = q[k]
  OBVIOUS
<1>3. \A x \in S : DOMAIN Append(q, x) = 1..(Len(q) + 1)
  <2>1. ASSUME NEW r \in Seq(S) PROVE DOMAIN r = 1..Len(r)
    OBVIOUS
  <2>. QED  BY <1>2, <2>1
<1>4. 1..(Len(q) + 1) = (1..Len(q)) \cup {Len(q) + 1}
  BY <1>1
<1>. QED  BY <1>1, <1>2, <1>3, <1>4

LEMMA ObjectFacts ==
  ASSUME TypeOK
  PROVE  /\ \A o \in DOMAIN objects : objects[o] \in Object /\ objects[o].key \in Keys
         /\ \A o \in DOMAIN objects, v \in Nat :
              /\ [objects EXCEPT ![o].version = v] \in Seq(Object)
              /\ DOMAIN [objects EXCEPT ![o].version = v] = DOMAIN objects
              /\ \A p \in DOMAIN objects :
                   [objects EXCEPT ![o].version = v][p] =
                     IF p = o THEN [key |-> objects[o].key, version |-> v] ELSE objects[p]
         /\ \A x \in Object : /\ Append(objects, x) \in Seq(Object)
                              /\ DOMAIN Append(objects, x) = DOMAIN objects \cup {Len(objects) + 1}
                              /\ Append(objects, x)[Len(objects) + 1] = x
                              /\ \A p \in DOMAIN objects : Append(objects, x)[p] = objects[p]
<1>. DEFINE n == Len(objects)
<1>0. objects \in Seq(Object)
  BY DEF TypeOK
<1>1. n \in Nat /\ DOMAIN objects = 1..n /\ objects \in [1..n -> Object]
  BY <1>0, SeqFacts
<1>2. \A o \in DOMAIN objects : objects[o] \in Object /\ objects[o].key \in Keys
  BY <1>1 DEF Object
<1>3. ASSUME NEW o \in DOMAIN objects, NEW v \in Nat
      PROVE  /\ [objects EXCEPT ![o].version = v] \in Seq(Object)
             /\ DOMAIN [objects EXCEPT ![o].version = v] = DOMAIN objects
             /\ \A p \in DOMAIN objects :
                  [objects EXCEPT ![o].version = v][p] =
                    IF p = o THEN [key |-> objects[o].key, version |-> v] ELSE objects[p]
  <2>1. objects[o] \in Object
    BY <1>2
  <2>2. [objects[o] EXCEPT !.version = v] = [key |-> objects[o].key, version |-> v]
        /\ [key |-> objects[o].key, version |-> v] \in Object
    BY <2>1 DEF Object
  <2>3. [objects EXCEPT ![o].version = v] = [objects EXCEPT ![o] = [key |-> objects[o].key, version |-> v]]
    BY <2>2
  <2>4. [objects EXCEPT ![o] = [key |-> objects[o].key, version |-> v]] \in [1..n -> Object]
    BY <1>1, <2>2
  <2>. QED  BY <1>1, <2>3, <2>4
<1>. QED  BY <1>0, <1>2, <1>3, SeqFacts

\* The actions of the repository and of other sessions: the scopes stay as they are.
LEMMA TypeClient ==
  ASSUME Composite, TypeOK,
         \/ \E k \in Keys : ReadKnown(k) \/ ReadUnknown(k) \/ Insert(k) \/ OtherSessionCommits(k)
         \/ \E o \in DOMAIN objects : Update(o) \/ Delete(o) \/ Release(o)
  PROVE  TypeOK'
<1>. USE DEF sessionVars
<1>1. ASSUME NEW k \in Keys, ReadKnown(k) PROVE TypeOK'
  BY <1>1 DEF TypeOK, ReadKnown, Ending, Outermost
<1>2. ASSUME NEW k \in Keys, ReadUnknown(k) PROVE TypeOK'
  <2>1. [key |-> k, version |-> Visible(k)] \in Object
    BY VisibleNat DEF Object
  <2>2. objects' \in Seq(Object)
    BY <1>2, <2>1, ObjectFacts DEF ReadUnknown
  <2>. QED  BY <1>2, <2>2 DEF TypeOK, ReadUnknown
<1>3. ASSUME NEW k \in Keys, Insert(k) PROVE TypeOK'
  <2>1. [key |-> k, version |-> 1] \in Object
    BY DEF Object
  <2>2. objects' \in Seq(Object)
    BY <1>3, <2>1, ObjectFacts DEF Insert
  <2>3. rows' \in [Keys -> Nat] /\ work' \in [Keys -> Version]
    BY <1>3, StoresType DEF Insert
  <2>. QED  BY <1>3, <2>2, <2>3 DEF TypeOK, Insert
<1>4. ASSUME NEW k \in Keys, OtherSessionCommits(k) PROVE TypeOK'
  <2>1. rows' \in [Keys -> Nat]
    <3>1. PICK version \in {0, rows[k] + 1} \ {rows[k]} : rows' = [rows EXCEPT ![k] = version]
      BY <1>4 DEF OtherSessionCommits
    <3>2. rows[k] \in Nat /\ rows \in [Keys -> Nat]
      BY DEF TypeOK
    <3>. QED  BY <3>1, <3>2
  <2>. QED  BY <1>4, <2>1 DEF TypeOK, OtherSessionCommits
<1>5. ASSUME NEW o \in DOMAIN objects, Update(o) PROVE TypeOK'
  <2>1. objects[o].key \in Keys
    BY ObjectFacts
  <2>2. PICK n \in Nat : n = Visible(objects[o].key) + 1
    BY <2>1, VisibleNat
  <2>3. objects' \in Seq(Object)
    BY <1>5, <2>2, ObjectFacts DEF Update
  <2>4. rows' \in [Keys -> Nat] /\ work' \in [Keys -> Version]
    BY <1>5, <2>1, <2>2, StoresType DEF Update
  <2>. QED  BY <1>5, <2>3, <2>4 DEF TypeOK, Update
<1>6. ASSUME NEW o \in DOMAIN objects, Delete(o) PROVE TypeOK'
  <2>1. objects[o].key \in Keys
    BY ObjectFacts
  <2>2. rows' \in [Keys -> Nat] /\ work' \in [Keys -> Version]
    BY <1>6, <2>1, StoresType DEF Delete
  <2>3. objects' \in Seq(Object)
    <3>1. objects \in Seq(Object) /\ [objects EXCEPT ![o].version = 0] \in Seq(Object)
      BY ObjectFacts DEF TypeOK
    <3>. QED  BY <1>6, <3>1 DEF Delete
  <2>4. Len(Kinds) \in 0..Len(Kinds)
    BY DelegateRange
  <2>5. scopes # <<>>
    BY <1>6 DEF Delete, InScope
  <2>6. scopes' = scopes /\ outcome' = outcome
    BY <1>6 DEF Delete
  <2>7. phase' \in {"leaving", phase} /\ left' \in {Len(Kinds), left} /\ failing' \in {TRUE, failing}
    BY <1>6 DEF Delete
  <2>8. left' \in 0..Len(Kinds) /\ failing' \in BOOLEAN
    <3>1. left \in 0..Len(Kinds) /\ failing \in BOOLEAN
      BY DEF TypeOK
    <3>2. left' \in 0..Len(Kinds)
      BY <2>4, <2>7, <3>1
    <3>. QED  BY <2>7, <3>1, <3>2
  <2>. QED  BY <2>2, <2>3, <2>5, <2>6, <2>7, <2>8 DEF TypeOK
<1>7. ASSUME NEW o \in DOMAIN objects, Release(o) PROVE TypeOK'
  BY <1>7 DEF TypeOK, Release
<1>. QED  BY <1>1, <1>2, <1>3, <1>4, <1>5, <1>6, <1>7

LEMMA TypeScopes ==
  ASSUME Composite, TypeOK,
         \/ Atomic \/ EnterDelegate \/ EnterFails \/ Entered
         \/ \E raises \in BOOLEAN : EndBody(raises)
         \/ CommitDelegate \/ RollbackDelegate \/ Left
  PROVE  TypeOK'
<1>0. /\ Len(Kinds) \in Nat /\ Delegates = 1..Len(Kinds)
      /\ scopes \in Seq([Keys -> Version]) /\ work \in [Keys -> Version] /\ rows \in [Keys -> Nat]
      /\ left \in 0..Len(Kinds) /\ outcome \in [Delegates -> {"none", "committed", "rolled back"}]
  BY DelegateRange DEF TypeOK
<1>1. CASE Atomic
  <2>1. scopes' \in Seq([Keys -> Version]) /\ scopes' # <<>>
    <3>1. scopes' = Append(scopes, work)
      BY <1>1 DEF Atomic
    <3>. DEFINE S == [Keys -> Version]
    <3>2. scopes \in Seq(S) /\ work \in S
      BY <1>0
    <3>3. scopes' \in Seq(S) /\ scopes' # <<>>
      <4>. HIDE DEF S
      <4>. QED  BY <3>1, <3>2, SeqEnds
    <3>. QED  BY <3>3
  <2>2. outcome' \in [Delegates -> {"none", "committed", "rolled back"}]
    BY <1>0, <1>1 DEF Atomic
  <2>3. left' \in 0..Len(Kinds)
    <3>1. left' = 0
      BY <1>1 DEF Atomic
    <3>. QED  BY <1>0, <3>1, LeftRange
  <2>. QED  BY <1>1, <2>1, <2>2, <2>3 DEF TypeOK, Atomic
<1>2. CASE EnterDelegate
  <2>1. left' \in 0..Len(Kinds)
    <3>1. left' = left + 1 /\ left < Len(Kinds)
      BY <1>2 DEF EnterDelegate
    <3>. QED  BY <1>0, <3>1, LeftRange
  <2>. QED  BY <1>2, <2>1 DEF TypeOK, EnterDelegate
<1>3. CASE EnterFails
  BY <1>3 DEF TypeOK, EnterFails
<1>4. CASE Entered
  BY <1>4 DEF TypeOK, Entered
<1>5. ASSUME NEW raises \in BOOLEAN, EndBody(raises) PROVE TypeOK'
  <2>1. left' \in 0..Len(Kinds)
    <3>1. left' = Len(Kinds)
      BY <1>5 DEF EndBody
    <3>. QED  BY <1>0, <3>1, LeftRange
  <2>. QED  BY <1>5, <2>1 DEF TypeOK, EndBody, InScope
<1>6. CASE CommitDelegate
  <2>1. left' \in 0..Len(Kinds)
    <3>1. left' = left - 1 /\ left > 0
      BY <1>6 DEF CommitDelegate
    <3>. QED  BY <1>0, <3>1, LeftRange
  <2>2. rows' \in [Keys -> Nat] /\ work' \in [Keys -> Version]
    <3>1. \A k \in Keys : rows[k] \in Nat /\ Visible(k) \in Nat
      BY <1>0, VisibleNat
    <3>2. \A k \in Keys : work[k] \in Version /\ Unwritten \in Version
      BY <1>0 DEF Version
    <3>3. CASE Outermost
      <4>1. rows' = [k \in Keys |-> IF k \in Stored(left) THEN Visible(k) ELSE rows[k]]
            /\ work' = [k \in Keys |-> IF k \in Stored(left) THEN Unwritten ELSE work[k]]
        BY <1>6, <3>3 DEF CommitDelegate
      <4>. QED  BY <3>1, <3>2, <4>1
    <3>4. CASE ~Outermost
      BY <1>0, <1>6, <3>4 DEF CommitDelegate
    <3>. QED  BY <3>3, <3>4
  <2>3. outcome' \in [Delegates -> {"none", "committed", "rolled back"}]
    BY <1>0, <1>6 DEF CommitDelegate, Ends
  <2>. QED  BY <1>6, <2>1, <2>2, <2>3 DEF TypeOK, CommitDelegate
<1>7. CASE RollbackDelegate
  <2>1. left' \in 0..Len(Kinds)
    <3>1. left' = left - 1 /\ left > 0
      BY <1>7 DEF RollbackDelegate
    <3>. QED  BY <1>0, <3>1, LeftRange
  <2>2. scopes # <<>>
    BY <1>7 DEF TypeOK, RollbackDelegate
  <2>3. Last(scopes) \in [Keys -> Version]
    BY <1>0, <2>2, SeqEnds
  <2>4. work' \in [Keys -> Version]
    <3>1. work' = [k \in Keys |-> IF k \in Stored(left) THEN Last(scopes)[k] ELSE work[k]]
      BY <1>7 DEF RollbackDelegate
    <3>. QED  BY <1>0, <2>3, <3>1
  <2>5. outcome' \in [Delegates -> {"none", "committed", "rolled back"}]
    BY <1>0, <1>7 DEF RollbackDelegate, Ends
  <2>. QED  BY <1>7, <2>1, <2>4, <2>5 DEF TypeOK, RollbackDelegate
<1>8. CASE Left
  <2>1. scopes # <<>>
    BY <1>8 DEF TypeOK, Left
  <2>2. scopes' \in Seq([Keys -> Version]) /\ (Outermost <=> scopes' = <<>>)
    BY <1>0, <1>8, <2>1, SeqEnds DEF Left, Outermost
  <2>3. objects' \in Seq(Object)
    <3>1. <<>> \in Seq(Object)
      OBVIOUS
    <3>2. objects' \in {<<>>, objects}
      BY <1>8 DEF Left
    <3>3. objects \in Seq(Object)
      BY DEF TypeOK
    <3>. QED  BY <3>1, <3>2, <3>3
  <2>. QED  BY <1>8, <2>2, <2>3 DEF TypeOK, Left
<1>. QED  BY <1>1, <1>2, <1>3, <1>4, <1>5, <1>6, <1>7, <1>8

LEMMA TypeStep == ASSUME Composite, TypeOK, [Next]_sessionVars PROVE TypeOK'
<1>1. CASE Next
  BY <1>1, TypeClient, TypeScopes DEF Next
<1>2. CASE UNCHANGED sessionVars
  BY <1>2 DEF sessionVars, TypeOK
<1>. QED  BY <1>1, <1>2

-----------------------------------------------------------------------------
\* The types, for every composite, cache and depth.
THEOREM TypeCorrect == Spec => []TypeOK
<1>. Composite
  BY SessionAssumption
<1>1. Init => TypeOK
  BY TypeInit
<1>2. TypeOK /\ [Next]_sessionVars => TypeOK'
  BY TypeStep
<1>. QED  BY <1>1, <1>2, PTL DEF Spec

LEMMA EndStep ==
  ASSUME Composite, TypeOK, EndInv, CommitsFromTheEnd, [Next]_sessionVars
  PROVE  EndInv' /\ CommitsFromTheEnd'
<1>0. /\ Delegates = 1..Len(Kinds) /\ Len(Kinds) \in Nat /\ left \in 0..Len(Kinds)
      /\ outcome \in [Delegates -> {"none", "committed", "rolled back"}]
      /\ phase = "idle" <=> scopes = <<>>
  BY DelegateRange DEF TypeOK
<1>i. left \in Int /\ \A d \in Delegates : d \in Int /\ d <= Len(Kinds)
  <2>1. left \in 0..Len(Kinds) /\ Len(Kinds) \in Nat
    BY DelegateRange DEF TypeOK
  <2>2. \A d \in 1..Len(Kinds) : d \in Int /\ d <= Len(Kinds)
    BY <2>1
  <2>3. Delegates = 1..Len(Kinds)
    BY DelegateRange
  <2>. QED  BY <2>1, <2>2, <2>3
<1>1. ASSUME outcome' = outcome PROVE CommitsFromTheEnd'
  BY <1>1 DEF CommitsFromTheEnd
<1>2. ASSUME outcome' = outcome, scopes' = scopes, phase' = phase, left' = left, failing' = failing
      PROVE  EndInv' /\ CommitsFromTheEnd'
  BY <1>1, <1>2 DEF EndInv, Ending, Outermost
\* What ends the block of a scope leaves its delegates from the last one on.
<1>3. ASSUME scopes # <<>>, phase # "leaving", outcome' = outcome, phase' = "leaving",
             scopes' = scopes, left' = Len(Kinds) \/ failing' = TRUE
      PROVE  EndInv' /\ CommitsFromTheEnd'
  <2>1. \A d \in Delegates : outcome'[d] = "none" /\ (failing' = TRUE \/ ~(d > left'))
    BY <1>i, <1>3 DEF EndInv, Ending
  <2>. QED  BY <1>1, <1>3, <2>1 DEF EndInv, Ending
<1>4. CASE UNCHANGED sessionVars
  BY <1>2, <1>4 DEF sessionVars
<1>5. ASSUME NEW k \in Keys, ReadKnown(k) \/ ReadUnknown(k) \/ Insert(k) \/ OtherSessionCommits(k)
      PROVE  EndInv' /\ CommitsFromTheEnd'
  BY <1>2, <1>5 DEF ReadKnown, ReadUnknown, Insert, OtherSessionCommits
<1>6. ASSUME NEW o \in DOMAIN objects, Update(o) \/ Delete(o) \/ Release(o)
      PROVE  EndInv' /\ CommitsFromTheEnd'
  <2>1. CASE Update(o) \/ Release(o)
    BY <1>2, <2>1 DEF Update, Release
  <2>2. CASE Delete(o)
    <3>1. CASE RemoveRaises(maps[On[objects[o].key]], objects[o].key)
      <4>1. /\ phase' = "leaving" /\ left' = Len(Kinds) /\ scopes' = scopes /\ outcome' = outcome
            /\ phase = "open" /\ scopes # <<>>
        BY <2>2, <3>1 DEF Delete, InScope
      <4>. QED  BY <1>3, <4>1
    <3>2. CASE ~RemoveRaises(maps[On[objects[o].key]], objects[o].key)
      BY <1>2, <2>2, <3>2 DEF Delete
    <3>. QED  BY <3>1, <3>2
  <2>. QED  BY <1>6, <2>1, <2>2
<1>7. CASE Atomic
  <2>1. scopes # <<>> => phase = "open"
    BY <1>0, <1>7 DEF Atomic
  <2>2. phase' = "entering" /\ outcome' = IF scopes = <<>> THEN [d \in Delegates |-> "none"] ELSE outcome
    BY <1>7 DEF Atomic
  <2>3. \A d \in Delegates : outcome'[d] = "none"
    BY <2>1, <2>2 DEF EndInv, Ending
  <2>. QED  BY <2>2, <2>3 DEF EndInv, Ending, CommitsFromTheEnd
<1>8. CASE EnterDelegate \/ Entered
  <2>1. phase = "entering" /\ phase' # "leaving" /\ outcome' = outcome /\ scopes' = scopes
    BY <1>8 DEF EnterDelegate, Entered
  <2>. QED  BY <1>1, <2>1 DEF EndInv, Ending
<1>9. CASE EnterFails
  <2>1. phase = "entering" /\ phase' = "leaving" /\ outcome' = outcome /\ scopes' = scopes /\ failing' = TRUE
    BY <1>9 DEF EnterFails
  <2>. QED  BY <1>0, <1>3, <2>1
<1>10. ASSUME NEW raises \in BOOLEAN, EndBody(raises) PROVE EndInv' /\ CommitsFromTheEnd'
  BY <1>3, <1>10 DEF EndBody, InScope
<1>11. ASSUME phase = "leaving", phase' = phase, scopes' = scopes, ~Outermost, outcome' = outcome
       PROVE  EndInv' /\ CommitsFromTheEnd'
  BY <1>1, <1>11 DEF EndInv, Ending, Outermost
<1>12. CASE CommitDelegate /\ Outermost
  <2>1. /\ phase = "leaving" /\ phase' = phase /\ scopes' = scopes /\ left > 0 /\ left' = left - 1
        /\ outcome' = [outcome EXCEPT ![left] = "committed"]
    BY <1>12 DEF CommitDelegate, Ends
  <2>2. failing' = failing /\ ~failing
    BY <1>12 DEF CommitDelegate
  <2>3. \A d \in Delegates : /\ d < left => outcome'[d] = "none"
                             /\ d >= left => outcome'[d] = "committed"
    <3>1. \A d \in Delegates : outcome'[d] = IF d = left THEN "committed" ELSE outcome[d]
      BY <1>0, <2>1
    <3>2. \A d \in Delegates : (d <= left => outcome[d] = "none") /\ (d > left => outcome[d] = "committed")
      BY <1>12, <2>1, <2>2 DEF EndInv, Ending
    <3>. QED  BY <1>i, <3>1, <3>2
  <2>4. Ending'
    BY <1>12, <2>1 DEF Ending, Outermost
  <2>5. \A d \in Delegates : (d <= left' => outcome'[d] = "none") /\ (d > left' => outcome'[d] = "committed")
    BY <1>i, <2>1, <2>3
  <2>6. CommitsFromTheEnd'
    BY <1>i, <2>3 DEF CommitsFromTheEnd
  <2>. QED  BY <2>4, <2>5, <2>6 DEF EndInv
<1>13. CASE RollbackDelegate /\ Outermost
  <2>1. /\ phase = "leaving" /\ phase' = phase /\ scopes' = scopes /\ left > 0 /\ left' = left - 1
        /\ outcome' = [outcome EXCEPT ![left] = "rolled back"]
    BY <1>13 DEF RollbackDelegate, Ends
  <2>2. failing' = TRUE
    BY <1>13 DEF RollbackDelegate
  <2>3. \A d \in Delegates : outcome'[d] = IF d = left THEN "rolled back" ELSE outcome[d]
    BY <1>0, <2>1
  <2>4. \A d \in Delegates : d <= left => outcome[d] = "none"
    BY <1>13, <2>1 DEF EndInv, Ending
  <2>5. \A d \in Delegates : d <= left' => outcome'[d] = "none"
    <3>1. \A d \in Delegates : d <= left' => d <= left /\ d # left
      <4>1. left' = left - 1
        BY <2>1
      <4>2. \A d \in Int : d <= left - 1 => d <= left /\ d # left
        BY <1>i
      <4>. QED  BY <1>i, <4>1, <4>2
    <3>. QED  BY <2>3, <2>4, <3>1
  <2>6. CommitsFromTheEnd'
    <3>1. SUFFICES ASSUME NEW d \in Delegates, NEW e \in Delegates, outcome'[d] = "committed", e > d
                   PROVE  outcome'[e] = "committed"
      BY DEF CommitsFromTheEnd
    <3>2. outcome[d] = "committed" /\ d > left
      <4>1. d # left /\ outcome[d] = "committed"
        BY <2>3, <3>1
      <4>2. ~(d <= left)
        BY <2>4, <4>1
      <4>. QED  BY <1>i, <4>1, <4>2
    <3>3. outcome[e] = "committed"
      BY <3>1, <3>2 DEF CommitsFromTheEnd
    <3>4. e # left
      BY <1>i, <3>1, <3>2
    <3>. QED  BY <2>3, <3>3, <3>4
  <2>7. Ending'
    BY <1>13, <2>1 DEF Ending, Outermost
  <2>. QED  BY <2>2, <2>5, <2>6, <2>7 DEF EndInv
<1>14. CASE (CommitDelegate \/ RollbackDelegate) /\ ~Outermost
  BY <1>11, <1>14 DEF CommitDelegate, RollbackDelegate, Ends
<1>15. CASE Left
  <2>1. phase = "leaving" /\ scopes # <<>> /\ outcome' = outcome
    BY <1>0, <1>15 DEF Left
  <2>2. CASE Outermost
    <3>1. scopes' = <<>>
      BY <1>15, <2>1, <2>2, SeqEnds DEF Left, Outermost, TypeOK
    <3>2. phase' = "idle"
      BY <1>15, <2>2 DEF Left
    <3>. QED  BY <1>1, <2>1, <3>1, <3>2 DEF EndInv, Ending
  <2>3. CASE ~Outermost
    <3>1. phase' = "open"
      BY <1>15, <2>3 DEF Left
    <3>. QED  BY <1>1, <2>1, <2>3, <3>1 DEF EndInv, Ending
  <2>. QED  BY <2>2, <2>3
<1>. QED
  BY <1>4, <1>5, <1>6, <1>7, <1>8, <1>9, <1>10, <1>12, <1>13, <1>14, <1>15 DEF Next

\* A composite commits from its last delegate on: none commits before one that was rolled
\* back, in a scope of any depth, whatever fails.
THEOREM LastOnesCommit == Spec => []CommitsFromTheEnd
<1>. Composite
  BY SessionAssumption
<1>1. Init => TypeOK /\ EndInv /\ CommitsFromTheEnd
  BY TypeInit DEF Init, EndInv, Ending, CommitsFromTheEnd
<1>2. TypeOK /\ EndInv /\ CommitsFromTheEnd /\ [Next]_sessionVars => (TypeOK /\ EndInv /\ CommitsFromTheEnd)'
  BY TypeStep, EndStep
<1>. QED  BY <1>1, <1>2, PTL DEF Spec

-----------------------------------------------------------------------------
\* What a strategy may be configured to.
IsMap(m) == m = [order |-> m.order, alive |-> m.alive]

\* A map finds an object of the key it is asked for.
FindsOwn(m, objs) ==
  IsMap(m) /\ \A k \in DOMAIN m.alive : m.alive[k] \in DOMAIN objs /\ objs[m.alive[k]].key = k

FoundIn(m, k, o) == k \in DOMAIN m.alive /\ m.alive[k] = o

\* No object has been handed out since the outermost scope began, if there is one.
Fresh == scopes = <<>> \/ (phase = "entering" /\ Outermost)

\* What the client holds and has not deleted is what the map of its key finds, until the
\* maps are cleared; a cleared map stays empty until the next transaction.
ObjectInv ==
  /\ held \subseteq DOMAIN objects
  /\ maps = [d \in Delegates |-> maps[d]]
  /\ \A d \in Delegates : FindsOwn(maps[d], objects)
  /\ Fresh => held = {} /\ \A d \in Delegates : DOMAIN maps[d].alive = {}
  /\ Ending => \A d \in Delegates : d > left => DOMAIN maps[d].alive = {}
  /\ ~Ending => \A o \in held : Exists(o) => FoundIn(maps[On[objects[o].key]], objects[o].key, o)

LEMMA CollectedFacts ==
  ASSUME NEW m, NEW refs, IsMap(m)
  PROVE  /\ IsMap(Collected(m, refs))
         /\ \A k \in DOMAIN Collected(m, refs).alive : FoundIn(m, k, Collected(m, refs).alive[k])
         /\ \A k, o : FoundIn(m, k, o) /\ o \in refs => FoundIn(Collected(m, refs), k, o)
<1>. DEFINE live == {key \in DOMAIN m.alive : Referenced(m, m.alive[key], refs)}
            alive == [k \in live |-> m.alive[k]]
<1>1. Collected(m, refs) = [order |-> m.order, alive |-> alive]
  <2>1. Collected(m, refs) = [m EXCEPT !.alive = alive]
    BY DEF Collected
  <2>2. m = [order |-> m.order, alive |-> m.alive]
    BY DEF IsMap
  <2>. QED  BY <2>1, <2>2
<1>2. \A k : k \in live <=> k \in DOMAIN m.alive /\ Referenced(m, m.alive[k], refs)
  OBVIOUS
<1>3. DOMAIN alive = live /\ \A k \in live : alive[k] = m.alive[k]
  OBVIOUS
<1>4. \A k, o : FoundIn(m, k, o) /\ o \in refs => k \in live
  BY <1>2 DEF FoundIn, Referenced
<1>. HIDE DEF live, alive
<1>. QED  BY <1>1, <1>2, <1>3, <1>4 DEF IsMap, FoundIn

LEMMA DoAddFacts ==
  ASSUME NEW m, NEW k, NEW o, IsMap(m)
  PROVE  /\ IsMap(DoAdd(m, k, o))
         /\ \A key, p : FoundIn(DoAdd(m, k, o), key, p) <=> IF key = k THEN p = o ELSE FoundIn(m, key, p)
BY DEF IsMap, DoAdd, FoundIn

LEMMA DoGetFacts ==
  ASSUME NEW m, NEW k, IsMap(m)
  PROVE  IsMap(DoGet(m, k)) /\ \A key, p : FoundIn(DoGet(m, k), key, p) <=> FoundIn(m, key, p)
<1>1. DoGet(m, k) = [order |-> CacheTouch(m.order, m.alive[k]), alive |-> m.alive]
  <2>1. m = [order |-> m.order, alive |-> m.alive]
    BY DEF IsMap
  <2>. QED  BY <2>1 DEF DoGet
<1>. QED  BY <1>1 DEF IsMap, FoundIn

LEMMA RemoveKeyFacts ==
  ASSUME NEW m, NEW k, IsMap(m)
  PROVE  /\ IsMap(RemoveKey(m, k))
         /\ \A key, p : FoundIn(RemoveKey(m, k), key, p) <=> key # k /\ FoundIn(m, key, p)
BY DEF IsMap, RemoveKey, DoHas, FoundIn

\* What a step makes of the map of one delegate, before what nothing refers to is collected.
Made(m, d, e) == IF e = d THEN m ELSE maps[e]

LEMMA CollectFacts ==
  ASSUME ObjectInv, NEW m, NEW d \in Delegates, NEW refs, IsMap(m), Collect(refs, m, d)
  PROVE  /\ maps' = [e \in Delegates |-> maps'[e]]
         /\ \A e \in Delegates :
              /\ IsMap(maps'[e])
              /\ \A k \in DOMAIN maps'[e].alive : FoundIn(Made(m, d, e), k, maps'[e].alive[k])
              /\ \A k, o : FoundIn(Made(m, d, e), k, o) /\ o \in refs => FoundIn(maps'[e], k, o)
<1>1. \A e \in Delegates : maps'[e] = Collected(Made(m, d, e), refs)
  BY DEF Collect, Made
<1>2. maps' = [e \in Delegates |-> maps'[e]]
  BY DEF Collect
<1>3. \A e \in Delegates : IsMap(Made(m, d, e))
  BY DEF ObjectInv, FindsOwn, Made
<1>. QED  BY <1>1, <1>2, <1>3, CollectedFacts

\* A step within a scope keeps the invariant when each object held after it is found in what
\* it makes of the maps.
LEMMA ClientKeeps ==
  ASSUME Composite, TypeOK', ObjectInv, InScope, scopes' = scopes, phase' = phase,
         NEW m, NEW d \in Delegates, Collect(held', m, d),
         IsMap(m), held' \subseteq DOMAIN objects',
         DOMAIN objects \subseteq DOMAIN objects',
         \A p \in DOMAIN objects : objects'[p].key = objects[p].key,
         \A k, o : FoundIn(m, k, o) => o \in DOMAIN objects' /\ objects'[o].key = k,
         \A o \in held' : objects'[o].version # 0 =>
            FoundIn(Made(m, d, On[objects'[o].key]), objects'[o].key, o)
  PROVE  ObjectInv'
<1>1. ~Fresh' /\ ~Ending'
  BY DEF InScope, Fresh, Ending
<1>2. /\ maps' = [e \in Delegates |-> maps'[e]]
      /\ \A e \in Delegates :
           /\ IsMap(maps'[e])
           /\ \A k \in DOMAIN maps'[e].alive : FoundIn(Made(m, d, e), k, maps'[e].alive[k])
           /\ \A k, o : FoundIn(Made(m, d, e), k, o) /\ o \in held' => FoundIn(maps'[e], k, o)
  BY CollectFacts
<1>3. \A e \in Delegates : FindsOwn(maps'[e], objects')
  <2>1. SUFFICES ASSUME NEW e \in Delegates, NEW k \in DOMAIN maps'[e].alive
                 PROVE  maps'[e].alive[k] \in DOMAIN objects' /\ objects'[maps'[e].alive[k]].key = k
    BY <1>2 DEF FindsOwn
  <2>2. PICK o : o = maps'[e].alive[k]
    OBVIOUS
  <2>3. FoundIn(Made(m, d, e), k, o)
    BY <1>2, <2>2
  <2>4. CASE e = d
    BY <2>2, <2>3, <2>4 DEF Made
  <2>5. CASE e # d
    <3>1. FoundIn(maps[e], k, o)
      BY <2>3, <2>5 DEF Made
    <3>2. o \in DOMAIN objects /\ objects[o].key = k
      BY <3>1 DEF ObjectInv, FindsOwn, FoundIn
    <3>. QED  BY <2>2, <3>2
  <2>. QED  BY <2>4, <2>5
<1>4. \A o \in held' : Exists(o)' => FoundIn(maps[On[objects[o].key]], objects[o].key, o)'
  <2>1. SUFFICES ASSUME NEW o \in held', objects'[o].version # 0
                 PROVE  FoundIn(maps'[On[objects'[o].key]], objects'[o].key, o)
    BY DEF Exists, FoundIn
  <2>2. On[objects'[o].key] \in Delegates
    <3>1. o \in DOMAIN objects' /\ objects' \in Seq(Object)
      BY DEF TypeOK
    <3>2. objects'[o] \in Object
      BY <3>1, SeqFacts
    <3>. QED  BY <3>2 DEF Object, Composite
  <2>. QED  BY <1>2, <2>1, <2>2
<1>. QED  BY <1>1, <1>2, <1>3, <1>4 DEF ObjectInv

\* Within a scope what is held is found; so no two held objects that exist share a key.
LEMMA OneFromFound == ObjectInv /\ ~Ending => OneObjectPerKey
BY DEF ObjectInv, OneObjectPerKey, FoundIn

LEMMA OneFromFoundNext == ObjectInv' /\ ~Ending' => OneObjectPerKey'
BY OneFromFound, PTL

LEMMA ClientObjects ==
  ASSUME Composite, Levels, Enabled, TypeOK, TypeOK', ObjectInv,
         \/ \E k \in Keys : ReadKnown(k) \/ ReadUnknown(k) \/ Insert(k)
         \/ \E o \in DOMAIN objects : Update(o) \/ (Delete(o) /\ phase' = phase)
  PROVE  ObjectInv' /\ InScope /\ scopes' = scopes /\ phase' = phase
<1>0. /\ \A d \in Delegates : IsMap(maps[d])
      /\ \A d \in Delegates : \A k, o : FoundIn(maps[d], k, o) => o \in DOMAIN objects /\ objects[o].key = k
  BY DEF ObjectInv, FindsOwn, FoundIn
<1>i. ASSUME InScope PROVE \A o \in held : Exists(o) => FoundIn(maps[On[objects[o].key]], objects[o].key, o)
  BY <1>i DEF InScope, ObjectInv, Ending
<1>k. Keeps(TRUE)
  BY DEF Keeps, Levels, Enabled
<1>h. held \subseteq DOMAIN objects
  BY DEF ObjectInv
<1>n. Len(objects) + 1 \notin DOMAIN objects
  <2>1. objects \in Seq(Object)
    BY DEF TypeOK
  <2>2. Len(objects) \in Nat /\ DOMAIN objects = 1..Len(objects)
    BY <2>1, SeqFacts
  <2>. QED  BY <2>2
<1>1. ASSUME NEW k \in Keys, ReadKnown(k)
      PROVE  ObjectInv' /\ InScope /\ scopes' = scopes /\ phase' = phase
  <2>1. PICK d \in Delegates : d = On[k]
    BY DEF Composite
  <2>2. PICK o : o = maps[d].alive[k]
    OBVIOUS
  <2>3. /\ InScope /\ scopes' = scopes /\ phase' = phase /\ objects' = objects
        /\ FoundIn(maps[d], k, o)
        /\ held' = (IF Exists(o) THEN held \cup {o} ELSE held)
        /\ Collect(held', DoGet(maps[d], k), d)
    BY <1>1, <2>1, <2>2 DEF ReadKnown, Has, DoHas, FoundIn
  <2>4. o \in DOMAIN objects /\ objects[o].key = k
    BY <1>0, <2>3
  <2>5. PICK m : m = DoGet(maps[d], k)
    OBVIOUS
  <2>6. IsMap(m) /\ \A key, p : FoundIn(m, key, p) <=> FoundIn(maps[d], key, p)
    BY <1>0, <2>5, DoGetFacts
  <2>7. \A p \in held' : objects'[p].version # 0 => FoundIn(Made(m, d, On[objects'[p].key]), objects'[p].key, p)
    <3>1. SUFFICES ASSUME NEW p \in held', objects[p].version # 0
                   PROVE  FoundIn(Made(m, d, On[objects[p].key]), objects[p].key, p)
      BY <2>3
    <3>2. FoundIn(maps[On[objects[p].key]], objects[p].key, p)
      <4>1. p \in held \/ p = o
        BY <2>3
      <4>2. ASSUME p \in held PROVE FoundIn(maps[On[objects[p].key]], objects[p].key, p)
        BY <1>i, <2>3, <3>1, <4>2 DEF Exists
      <4>. QED  BY <2>1, <2>3, <2>4, <4>1, <4>2
    <3>. QED  BY <2>6, <3>2 DEF Made
  <2>8. held' \subseteq DOMAIN objects'
    BY <1>h, <2>3, <2>4
  <2>. QED  BY <1>0, <2>3, <2>5, <2>6, <2>7, <2>8, ClientKeeps
\* What is made is new, and what is held of its key is deleted.
<1>2. ASSUME NEW k \in Keys, NEW v \in Nat, NEW d \in Delegates, NEW exists \in BOOLEAN, NEW o,
             d = On[k], o = Len(objects) + 1, InScope, scopes' = scopes, phase' = phase,
             objects' = Append(objects, [key |-> k, version |-> v]),
             held' = held \/ held' = held \cup {o},
             v # 0 => Keeps(exists),
             \A p \in held : objects[p].key = k => ~Exists(p),
             Collect(held', AddObject(maps[d], k, o, exists), d)
      PROVE  ObjectInv'
  <2>1. [key |-> k, version |-> v] \in Object
    BY DEF Object
  <2>2. /\ DOMAIN objects' = DOMAIN objects \cup {o}
        /\ objects'[o] = [key |-> k, version |-> v]
        /\ \A p \in DOMAIN objects : objects'[p] = objects[p]
    BY <1>2, <2>1, ObjectFacts
  <2>3. PICK m : m = AddObject(maps[d], k, o, exists)
    OBVIOUS
  <2>4. IsMap(m) /\ \A key, p : FoundIn(m, key, p) =>
          (key = k /\ p = o) \/ FoundIn(maps[d], key, p)
    BY <1>0, <2>3, DoAddFacts DEF AddObject
  <2>5. \A key, p : key # k /\ FoundIn(maps[d], key, p) => FoundIn(m, key, p)
    BY <1>0, <2>3, DoAddFacts DEF AddObject
  <2>6. v # 0 => FoundIn(m, k, o)
    BY <1>0, <1>2, <2>3, DoAddFacts DEF AddObject
  <2>7. \A p \in held' : objects'[p].version # 0 => FoundIn(Made(m, d, On[objects'[p].key]), objects'[p].key, p)
    <3>1. SUFFICES ASSUME NEW p \in held', objects'[p].version # 0
                   PROVE  FoundIn(Made(m, d, On[objects'[p].key]), objects'[p].key, p)
      OBVIOUS
    <3>2. CASE p = o
      BY <1>2, <2>2, <2>6, <3>1, <3>2 DEF Made
    <3>3. CASE p # o
      <4>1. p \in held /\ p \in DOMAIN objects /\ objects'[p] = objects[p]
        BY <1>2, <1>h, <2>2, <3>3
      <4>2. FoundIn(maps[On[objects[p].key]], objects[p].key, p) /\ objects[p].key # k
        BY <1>2, <1>i, <3>1, <4>1 DEF Exists
      <4>. QED  BY <2>5, <4>1, <4>2 DEF Made
    <3>. QED  BY <3>2, <3>3
  <2>8. \A key, p : FoundIn(m, key, p) => p \in DOMAIN objects' /\ objects'[p].key = key
    BY <1>0, <2>2, <2>4
  <2>9. held' \subseteq DOMAIN objects' /\ DOMAIN objects \subseteq DOMAIN objects'
        /\ \A p \in DOMAIN objects : objects'[p].key = objects[p].key
    BY <1>2, <1>h, <2>2
  <2>. QED  BY <1>2, <2>3, <2>4, <2>7, <2>8, <2>9, ClientKeeps
<1>3. ASSUME NEW k \in Keys, ReadUnknown(k)
      PROVE  ObjectInv' /\ InScope /\ scopes' = scopes /\ phase' = phase
  <2>1. PICK d \in Delegates : d = On[k]
    BY DEF Composite
  <2>2. PICK v \in Nat : v = Visible(k)
    BY VisibleNat
  <2>3. PICK o : o = Len(objects) + 1
    OBVIOUS
  <2>4. PICK exists \in BOOLEAN : exists = (v # 0)
    OBVIOUS
  <2>5. /\ InScope /\ scopes' = scopes /\ phase' = phase
        /\ objects' = Append(objects, [key |-> k, version |-> v])
        /\ held' = held \/ held' = held \cup {o}
        /\ ~Has(maps[d], k)
        /\ Collect(held', AddObject(maps[d], k, o, exists), d)
    BY <1>3, <2>1, <2>2, <2>3, <2>4 DEF ReadUnknown
  <2>6. \A p \in held : objects[p].key = k => ~Exists(p)
    BY <1>i, <2>1, <2>5 DEF Has, DoHas, FoundIn
  <2>7. v # 0 => Keeps(exists)
    BY <1>k, <2>4 DEF Keeps
  <2>. QED  BY <1>2, <2>1, <2>3, <2>5, <2>6, <2>7
<1>4. ASSUME NEW k \in Keys, Insert(k)
      PROVE  ObjectInv' /\ InScope /\ scopes' = scopes /\ phase' = phase
  <2>1. PICK d \in Delegates : d = On[k]
    BY DEF Composite
  <2>2. PICK o : o = Len(objects) + 1
    OBVIOUS
  <2>3. /\ InScope /\ scopes' = scopes /\ phase' = phase
        /\ objects' = Append(objects, [key |-> k, version |-> 1])
        /\ held' = held \cup {o}
        /\ \A p \in held : objects[p].key = k => ~Exists(p)
        /\ Collect(held', AddObject(maps[d], k, o, TRUE), d)
    BY <1>4, <2>1, <2>2 DEF Insert
  <2>. QED  BY <1>2, <1>k, <2>1, <2>2, <2>3
\* A version is replaced in place, and the map keeps what it found or no longer finds a key
\* nothing held is of.
<1>5. ASSUME NEW o \in held, NEW v \in Nat, NEW d \in Delegates, NEW m,
             d = On[objects[o].key], InScope, scopes' = scopes, phase' = phase, held' = held,
             Exists(o), objects' = [objects EXCEPT ![o].version = v],
             IsMap(m), v # 0 => FoundIn(m, objects[o].key, o),
             \A key, p : FoundIn(m, key, p) => (key = objects[o].key /\ p = o) \/ FoundIn(maps[d], key, p),
             \A key, p : FoundIn(maps[d], key, p) => key = objects[o].key \/ FoundIn(m, key, p),
             Collect(held, m, d)
      PROVE  ObjectInv'
  <2>1. /\ o \in DOMAIN objects
        /\ DOMAIN objects' = DOMAIN objects
        /\ objects'[o] = [key |-> objects[o].key, version |-> v]
        /\ \A p \in DOMAIN objects : p # o => objects'[p] = objects[p]
    BY <1>5, <1>h, ObjectFacts
  <2>2. FoundIn(maps[d], objects[o].key, o)
    BY <1>5, <1>i
  <2>3. \A p \in held' : objects'[p].version # 0 => FoundIn(Made(m, d, On[objects'[p].key]), objects'[p].key, p)
    <3>1. SUFFICES ASSUME NEW p \in held, objects'[p].version # 0
                   PROVE  FoundIn(Made(m, d, On[objects'[p].key]), objects'[p].key, p)
      BY <1>5
    <3>2. CASE p = o
      BY <1>5, <2>1, <3>1, <3>2 DEF Made
    <3>3. CASE p # o
      <4>1. objects'[p] = objects[p]
        BY <1>h, <2>1, <3>1, <3>3
      <4>2. FoundIn(maps[On[objects[p].key]], objects[p].key, p)
        BY <1>5, <1>i, <3>1, <4>1 DEF Exists
      <4>3. objects[p].key # objects[o].key
        BY <1>5, <2>2, <3>3, <4>2 DEF FoundIn
      <4>. QED  BY <1>5, <4>1, <4>2, <4>3 DEF Made
    <3>. QED  BY <3>2, <3>3
  <2>4. \A key, p : FoundIn(m, key, p) => p \in DOMAIN objects' /\ objects'[p].key = key
    <3>1. SUFFICES ASSUME NEW key, NEW p, FoundIn(m, key, p)
                   PROVE  p \in DOMAIN objects' /\ objects'[p].key = key
      OBVIOUS
    <3>2. p \in DOMAIN objects /\ objects[p].key = key
      <4>1. (key = objects[o].key /\ p = o) \/ FoundIn(maps[d], key, p)
        BY <1>5, <3>1
      <4>. QED  BY <1>0, <2>1, <4>1
    <3>. QED  BY <2>1, <3>2
  <2>5. held' \subseteq DOMAIN objects' /\ DOMAIN objects \subseteq DOMAIN objects'
        /\ \A p \in DOMAIN objects : objects'[p].key = objects[p].key
    BY <1>5, <1>h, <2>1
  <2>6. Collect(held', m, d)
    BY <1>5
  <2>. QED  BY <1>5, <2>3, <2>4, <2>5, <2>6, ClientKeeps
<1>6. ASSUME NEW o \in DOMAIN objects, Update(o)
      PROVE  ObjectInv' /\ InScope /\ scopes' = scopes /\ phase' = phase
  <2>1. PICK k \in Keys : k = objects[o].key
    BY ObjectFacts
  <2>2. PICK d \in Delegates : d = On[k]
    BY <2>1 DEF Composite
  <2>3. PICK v \in Nat : v = Visible(k) + 1
    BY VisibleNat
  <2>4. v # 0
    <3>1. Visible(k) \in Nat
      BY VisibleNat
    <3>. QED  BY <2>3, <3>1
  <2>5. /\ InScope /\ scopes' = scopes /\ phase' = phase /\ held' = held
        /\ o \in held /\ Exists(o)
        /\ objects' = [objects EXCEPT ![o].version = v]
        /\ Collect(held, AddObject(maps[d], k, o, TRUE), d)
    BY <1>6, <2>1, <2>2, <2>3 DEF Update
  <2>6. PICK m : m = DoAdd(maps[d], k, o)
    OBVIOUS
  <2>7. m = AddObject(maps[d], k, o, TRUE)
    BY <1>k, <2>6 DEF AddObject
  <2>8. IsMap(m) /\ \A key, p : FoundIn(m, key, p) <=> IF key = k THEN p = o ELSE FoundIn(maps[d], key, p)
    BY <1>0, <2>6, DoAddFacts
  <2>9. /\ v # 0 => FoundIn(m, k, o)
        /\ \A key, p : FoundIn(m, key, p) => (key = k /\ p = o) \/ FoundIn(maps[d], key, p)
        /\ \A key, p : FoundIn(maps[d], key, p) => key = k \/ FoundIn(m, key, p)
    BY <2>8
  <2>. QED  BY <1>5, <2>1, <2>2, <2>5, <2>7, <2>8, <2>9
<1>7. ASSUME NEW o \in DOMAIN objects, Delete(o), phase' = phase
      PROVE  ObjectInv' /\ InScope /\ scopes' = scopes /\ phase' = phase
  <2>1. PICK k \in Keys : k = objects[o].key
    BY ObjectFacts
  <2>2. PICK d \in Delegates : d = On[k]
    BY <2>1 DEF Composite
  <2>3. PICK m : m = RemoveKey(maps[d], k)
    OBVIOUS
  <2>4. InScope /\ scopes' = scopes /\ held' = held /\ o \in held /\ Exists(o)
    BY <1>7 DEF Delete
  <2>5. /\ objects' = [objects EXCEPT ![o].version = 0]
        /\ Collect(held, m, d)
    BY <1>7, <2>1, <2>2, <2>3 DEF Delete, InScope
  <2>6. IsMap(m) /\ \A key, p : FoundIn(m, key, p) <=> key # k /\ FoundIn(maps[d], key, p)
    BY <1>0, <2>3, RemoveKeyFacts
  <2>7. /\ \A key, p : FoundIn(m, key, p) => (key = k /\ p = o) \/ FoundIn(maps[d], key, p)
        /\ \A key, p : FoundIn(maps[d], key, p) => key = k \/ FoundIn(m, key, p)
    BY <2>6
  <2>8. PICK v \in Nat : v = 0
    OBVIOUS
  <2>9. v # 0 => FoundIn(m, k, o)
    BY <2>8
  <2>. QED  BY <1>5, <1>7, <2>1, <2>2, <2>4, <2>5, <2>6, <2>7, <2>8, <2>9
<1>. QED  BY <1>1, <1>3, <1>4, <1>6, <1>7

\* What leaves the client's objects and the maps alone, and neither starts nor ends a
\* transaction, nor begins to clear it.
LEMMA ScopesKeep ==
  ASSUME ObjectInv, UNCHANGED <<maps, objects, held>>, Fresh' => Fresh, Ending => Ending' /\ left' = left,
         Ending' /\ ~Ending => Fresh' \/ left' = Len(Kinds) \/ \A d \in Delegates : DOMAIN maps[d].alive = {},
         \A d \in Delegates : ~(d > Len(Kinds))
  PROVE  ObjectInv'
<1>1. Ending' => \A d \in Delegates : d > left' => DOMAIN maps[d].alive = {}
  <2>1. CASE Ending
    BY <2>1 DEF ObjectInv
  <2>2. CASE ~Ending
    BY <2>2 DEF ObjectInv
  <2>. QED  BY <2>1, <2>2
<1>2. ~Ending' => \A o \in held : Exists(o)' => FoundIn(maps[On[objects[o].key]], objects[o].key, o)
  BY DEF ObjectInv, Exists
<1>. QED  BY <1>1, <1>2 DEF ObjectInv, Exists

LEMMA EmptyMap == IsMap(IdentityMap) /\ DOMAIN IdentityMap.alive = {}
BY DEF IsMap, IdentityMap

LEMMA ReleaseObjects ==
  ASSUME Composite, TypeOK, ObjectInv, NEW o \in DOMAIN objects, Release(o) PROVE ObjectInv'
<1>1. /\ held' = held \ {o} /\ maps' = [d \in Delegates |-> Collected(maps[d], held')]
      /\ UNCHANGED <<scopes, phase, left, objects>>
  BY DEF Release
<1>2. \A d \in Delegates :
        /\ IsMap(maps'[d])
        /\ \A k \in DOMAIN maps'[d].alive : FoundIn(maps[d], k, maps'[d].alive[k])
        /\ \A k, p : FoundIn(maps[d], k, p) /\ p \in held' => FoundIn(maps'[d], k, p)
  <2>1. \A d \in Delegates : maps'[d] = Collected(maps[d], held') /\ IsMap(maps[d])
    BY <1>1 DEF ObjectInv, FindsOwn
  <2>. QED  BY <2>1, CollectedFacts
<1>3. \A d \in Delegates : FindsOwn(maps'[d], objects)
  BY <1>2 DEF ObjectInv, FindsOwn, FoundIn
<1>4. \A d \in Delegates : DOMAIN maps[d].alive = {} => DOMAIN maps'[d].alive = {}
  BY <1>2 DEF FoundIn
<1>5. maps' = [d \in Delegates |-> maps'[d]]
  BY <1>1
<1>6. ASSUME ~Ending, NEW p \in held', Exists(p), On[objects[p].key] \in Delegates
      PROVE  FoundIn(maps'[On[objects[p].key]], objects[p].key, p)
  BY <1>1, <1>2, <1>6 DEF ObjectInv
<1>7. \A p \in held' : Exists(p) => On[objects[p].key] \in Delegates
  <2>1. \A p \in held' : objects[p].key \in Keys
    BY <1>1, ObjectFacts DEF ObjectInv
  <2>. QED  BY <2>1 DEF Composite
<1>. QED  BY <1>1, <1>3, <1>4, <1>5, <1>6, <1>7 DEF ObjectInv, Fresh, Ending, Outermost, Exists

LEMMA ScopesObjects ==
  ASSUME Composite, TypeOK, ObjectInv,
         \/ Atomic \/ EnterDelegate \/ EnterFails \/ Entered
         \/ \E raises \in BOOLEAN : EndBody(raises)
         \/ CommitDelegate \/ RollbackDelegate \/ Left
  PROVE  ObjectInv'
<1>0. /\ \A d \in Delegates : d \in Int /\ d > 0 /\ ~(d > Len(Kinds))
      /\ phase = "idle" <=> scopes = <<>>
  <2>1. Delegates = 1..Len(Kinds) /\ Len(Kinds) \in Nat
    BY DelegateRange
  <2>2. \A d \in 1..Len(Kinds) : d \in Int /\ d > 0 /\ ~(d > Len(Kinds))
    BY <2>1
  <2>. QED  BY <2>1, <2>2 DEF TypeOK
\* The map of one delegate is replaced by an empty one.
<1>1. ASSUME NEW e \in Delegates, maps' = [maps EXCEPT ![e] = IdentityMap]
      PROVE  /\ maps' = [d \in Delegates |-> maps'[d]]
             /\ \A d \in Delegates : maps'[d] = IF d = e THEN IdentityMap ELSE maps[d]
             /\ \A d \in Delegates : FindsOwn(maps'[d], objects)
             /\ DOMAIN maps'[e].alive = {}
             /\ \A d \in Delegates : DOMAIN maps[d].alive = {} => DOMAIN maps'[d].alive = {}
  <2>1. maps = [d \in Delegates |-> maps[d]]
    BY DEF ObjectInv
  <2>2. maps' = [d \in Delegates |-> IF d = e THEN IdentityMap ELSE maps[d]]
    BY <1>1, <2>1
  <2>. QED  BY <2>2, EmptyMap DEF ObjectInv, FindsOwn
<1>2. CASE Atomic
  <2>1. /\ UNCHANGED <<maps, objects, held>> /\ phase \in {"idle", "open"} /\ phase' = "entering"
        /\ scopes' = Append(scopes, work)
    BY <1>2 DEF Atomic
  <2>2. Outermost' => scopes = <<>>
    <3>. DEFINE S == [Keys -> Version]
    <3>1. scopes \in Seq(S) /\ work \in S
      BY DEF TypeOK
    <3>. HIDE DEF S
    <3>. QED  BY <2>1, <3>1, SeqEnds DEF Outermost
  <2>3. scopes' # <<>>
    <3>. DEFINE S == [Keys -> Version]
    <3>1. scopes \in Seq(S) /\ work \in S
      BY DEF TypeOK
    <3>. HIDE DEF S
    <3>. QED  BY <2>1, <3>1, SeqEnds
  <2>4. Fresh' => Fresh
    BY <2>2, <2>3 DEF Fresh
  <2>5. ~Ending /\ ~Ending'
    BY <2>1 DEF Ending
  <2>. QED  BY <1>0, <2>1, <2>4, <2>5, ScopesKeep
<1>3. CASE EnterDelegate /\ Outermost
  <2>1. /\ phase = "entering" /\ phase' = phase /\ scopes' = scopes /\ objects' = objects /\ held' = held
        /\ left < Len(Kinds) /\ maps' = [maps EXCEPT ![left + 1] = IdentityMap]
    BY <1>3 DEF EnterDelegate
  <2>2. left + 1 \in Delegates
    BY <2>1, LeftRange DEF TypeOK
  <2>3. Fresh /\ ~Ending' /\ held = {}
    BY <1>3, <2>1 DEF Fresh, ObjectInv, Ending
  <2>4. PICK e \in Delegates : maps' = [maps EXCEPT ![e] = IdentityMap]
    BY <2>1, <2>2
  <2>. QED  BY <1>1, <2>1, <2>3, <2>4 DEF ObjectInv
<1>4. CASE (EnterDelegate /\ ~Outermost) \/ Entered
  <2>1. /\ phase = "entering" /\ phase' \in {phase, "open"} /\ scopes' = scopes /\ UNCHANGED <<maps, objects, held>>
    BY <1>4 DEF EnterDelegate, Entered
  <2>2. (Fresh' => Fresh) /\ ~Ending /\ ~Ending'
    BY <2>1 DEF Fresh, Ending, Outermost
  <2>. QED  BY <1>0, <2>1, <2>2, ScopesKeep
<1>5. CASE EnterFails
  <2>1. phase = "entering" /\ phase' = "leaving" /\ scopes' = scopes /\ UNCHANGED <<maps, objects, held>>
    BY <1>5 DEF EnterFails
  <2>2. (Fresh' => Fresh) /\ ~Ending
    BY <2>1 DEF Fresh, Ending
  <2>3. Ending' => \A d \in Delegates : DOMAIN maps[d].alive = {}
    BY <2>1 DEF Fresh, Ending, Outermost, ObjectInv
  <2>. QED  BY <1>0, <2>1, <2>2, <2>3, ScopesKeep
<1>6. ASSUME NEW raises \in BOOLEAN, EndBody(raises) PROVE ObjectInv'
  <2>1. /\ phase = "open" /\ phase' = "leaving" /\ scopes' = scopes /\ UNCHANGED <<maps, objects, held>>
        /\ left' = Len(Kinds)
    BY <1>6 DEF EndBody, InScope
  <2>2. (Fresh' => Fresh) /\ ~Ending
    BY <2>1 DEF Fresh, Ending
  <2>. QED  BY <1>0, <2>1, <2>2, ScopesKeep
<1>7. CASE (CommitDelegate \/ RollbackDelegate) /\ Outermost
  <2>1. /\ phase = "leaving" /\ phase' = phase /\ scopes' = scopes /\ objects' = objects /\ held' = held
        /\ left > 0 /\ left' = left - 1 /\ maps' = [maps EXCEPT ![left] = IdentityMap]
    BY <1>7 DEF CommitDelegate, RollbackDelegate, Cleared
  <2>2. left \in Delegates
    BY <2>1, LeftRange DEF TypeOK
  <2>3. Ending /\ Ending' /\ (Fresh' => Fresh)
    BY <1>7, <2>1 DEF Fresh, Ending, Outermost
  <2>4. \A d \in Delegates : d > left' => d = left \/ d > left
    BY <1>0, <2>1, <2>2
  <2>5. PICK e \in Delegates : e = left
    BY <2>2
  <2>6. \A d \in Delegates : d > left' => DOMAIN maps'[d].alive = {}
    <3>1. \A d \in Delegates : d > left => DOMAIN maps[d].alive = {}
      BY <2>3 DEF ObjectInv
    <3>. QED  BY <1>1, <2>1, <2>4, <2>5, <3>1
  <2>7. /\ maps' = [d \in Delegates |-> maps'[d]]
        /\ \A d \in Delegates : FindsOwn(maps'[d], objects)
        /\ Fresh' => held' = {} /\ \A d \in Delegates : DOMAIN maps'[d].alive = {}
    BY <1>1, <2>1, <2>3, <2>5 DEF ObjectInv
  <2>. QED  BY <2>1, <2>3, <2>6, <2>7 DEF ObjectInv
<1>8. CASE (CommitDelegate \/ RollbackDelegate) /\ ~Outermost
  <2>1. /\ phase' = phase /\ scopes' = scopes /\ UNCHANGED <<maps, objects, held>>
    BY <1>8 DEF CommitDelegate, RollbackDelegate
  <2>2. (Fresh' => Fresh) /\ ~Ending /\ ~Ending'
    BY <1>8, <2>1 DEF Fresh, Ending, Outermost
  <2>. QED  BY <1>0, <2>1, <2>2, ScopesKeep
<1>9. CASE Left /\ Outermost
  <2>1. /\ phase = "leaving" /\ left = 0 /\ phase' = "idle"
        /\ maps' = maps /\ objects' = <<>> /\ held' = {}
    BY <1>9 DEF Left
  <2>2. \A d \in Delegates : DOMAIN maps[d].alive = {}
    BY <1>0, <1>9, <2>1 DEF ObjectInv, Ending
  <2>3. \A d \in Delegates : FindsOwn(maps'[d], objects')
    BY <2>1, <2>2 DEF ObjectInv, FindsOwn
  <2>4. ~Ending'
    BY <2>1 DEF Ending
  <2>. QED  BY <2>1, <2>2, <2>3, <2>4 DEF ObjectInv
<1>10. CASE Left /\ ~Outermost
  <2>1. /\ phase = "leaving" /\ phase' = "open" /\ UNCHANGED <<maps, objects, held>>
        /\ scopes # <<>> /\ scopes' = Front(scopes)
    BY <1>0, <1>10 DEF Left
  <2>2. scopes' # <<>>
    BY <1>10, <2>1, SeqEnds DEF TypeOK, Outermost
  <2>3. ~Fresh' /\ ~Ending /\ ~Ending'
    BY <1>10, <2>1, <2>2 DEF Fresh, Ending
  <2>. QED  BY <1>0, <2>1, <2>3, ScopesKeep
<1>. QED  BY <1>2, <1>3, <1>4, <1>5, <1>6, <1>7, <1>8, <1>9, <1>10

LEMMA ObjectStep ==
  ASSUME Composite, Levels, Enabled, TypeOK, TypeOK', ObjectInv, OneObjectPerKey, [Next]_sessionVars
  PROVE  ObjectInv' /\ OneObjectPerKey'
<1>1. ASSUME ObjectInv', ~Ending' PROVE OneObjectPerKey'
  BY <1>1, OneFromFoundNext
<1>2. ASSUME objects' = objects, held' \subseteq held, scopes # <<>> PROVE OneObjectPerKey'
  BY <1>2 DEF OneObjectPerKey, Exists
<1>3. CASE UNCHANGED sessionVars
  BY <1>3 DEF sessionVars, ObjectInv, OneObjectPerKey, Fresh, Ending, Outermost, Exists
<1>4. ASSUME NEW k \in Keys, OtherSessionCommits(k) PROVE ObjectInv' /\ OneObjectPerKey'
  BY <1>4 DEF OtherSessionCommits, ObjectInv, OneObjectPerKey, Fresh, Ending, Outermost, Exists
<1>5. ASSUME \/ \E k \in Keys : ReadKnown(k) \/ ReadUnknown(k) \/ Insert(k)
             \/ \E o \in DOMAIN objects : Update(o) \/ (Delete(o) /\ phase' = phase)
      PROVE  ObjectInv' /\ OneObjectPerKey'
  <2>1. ObjectInv' /\ InScope /\ phase' = phase
    BY <1>5, ClientObjects
  <2>2. ~Ending'
    BY <2>1 DEF InScope, Ending
  <2>. QED  BY <1>1, <2>1, <2>2
<1>6. ASSUME NEW o \in DOMAIN objects, Delete(o), phase' # phase PROVE ObjectInv' /\ OneObjectPerKey'
  <2>1. /\ phase' = "leaving" /\ left' = Len(Kinds) /\ UNCHANGED <<objects, maps, held, scopes>>
        /\ phase = "open" /\ scopes # <<>>
    BY <1>6 DEF Delete, InScope
  <2>2. (Fresh' => Fresh) /\ ~Ending
    BY <2>1 DEF Fresh, Ending
  <2>3. \A d \in Delegates : ~(d > Len(Kinds))
    BY DelegateRange
  <2>. QED  BY <1>2, <2>1, <2>2, <2>3, ScopesKeep
<1>7. ASSUME NEW o \in DOMAIN objects, Release(o) PROVE ObjectInv' /\ OneObjectPerKey'
  <2>1. objects' = objects /\ held' \subseteq held /\ scopes' = scopes
    BY <1>7 DEF Release
  <2>2. scopes = <<>> => OneObjectPerKey'
    BY <2>1 DEF OneObjectPerKey
  <2>. QED  BY <1>2, <1>7, <2>1, <2>2, ReleaseObjects
<1>8. ASSUME \/ Atomic \/ EnterDelegate \/ EnterFails \/ Entered
             \/ \E raises \in BOOLEAN : EndBody(raises)
             \/ CommitDelegate \/ RollbackDelegate \/ Left
      PROVE  ObjectInv' /\ OneObjectPerKey'
  <2>1. ObjectInv'
    BY <1>8, ScopesObjects
  <2>2. ASSUME Ending' PROVE objects' = objects /\ held' = held /\ scopes' = scopes
    <3>1. phase' = "leaving"
      BY <2>2 DEF Ending
    <3>. QED  BY <1>8, <3>1 DEF Atomic, EnterDelegate, EnterFails, Entered, EndBody, CommitDelegate, RollbackDelegate, Left
  <2>3. ASSUME Ending' PROVE scopes # <<>>
    <3>1. scopes' # <<>>
      BY <2>3 DEF Ending, TypeOK
    <3>. QED  BY <2>2, <2>3, <3>1
  <2>. QED  BY <1>1, <1>2, <2>1, <2>2, <2>3
<1>. QED  BY <1>3, <1>4, <1>5, <1>6, <1>7, <1>8 DEF Next

\* Whatever a cache drops, however the client reads, writes, deletes and lets go, and at any
\* depth of scopes, it never holds two objects of one key that is not deleted.
THEOREM OneObject == Spec => []OneObjectPerKey
<1>. Composite /\ Levels
  BY SessionAssumption
<1>1. Init => TypeOK
  BY TypeInit
<1>2. TypeOK /\ [Next]_sessionVars => TypeOK'
  BY TypeStep
<1>3. CASE Enabled
  <2>1. Init => ObjectInv /\ OneObjectPerKey
    <3>1. ASSUME Init PROVE ObjectInv /\ OneObjectPerKey
      <4>1. /\ scopes = <<>> /\ held = {} /\ objects = <<>> /\ phase = "idle"
            /\ maps = [d \in Delegates |-> IdentityMap]
        BY <3>1 DEF Init
      <4>2. \A d \in Delegates : FindsOwn(maps[d], objects) /\ DOMAIN maps[d].alive = {}
        BY <4>1, EmptyMap DEF FindsOwn
      <4>3. maps = [d \in Delegates |-> maps[d]]
        BY <4>1
      <4>. QED  BY <4>1, <4>2, <4>3 DEF ObjectInv, OneObjectPerKey, Ending
    <3>. QED  BY <3>1
  <2>2. TypeOK /\ ObjectInv /\ OneObjectPerKey /\ [Next]_sessionVars => (TypeOK /\ ObjectInv /\ OneObjectPerKey)'
    BY <1>2, <1>3, ObjectStep
  <2>. QED  BY <1>1, <2>1, <2>2, PTL DEF Spec
<1>4. CASE ~Enabled
  <2>1. OneObjectPerKey
    BY <1>4 DEF OneObjectPerKey
  <2>. QED  BY <2>1, PTL
<1>. QED  BY <1>3, <1>4
=============================================================================
