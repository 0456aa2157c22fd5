------------------------- MODULE ChangeGraphProofs --------------------------
(***************************************************************************)
(* Proofs about ChangeGraph, for any subjects, observers, types and graph:    *)
(* the edges are the same in both directions, a notification finds all that   *)
(* the change reaches, and it updates each observer after those it observes.  *)
(***************************************************************************)
EXTENDS ChangeGraph, FiniteSetTheorems, WellFoundedInduction, TLAPS

-----------------------------------------------------------------------------
(***************************************************************************)
(* Lists.                                                                  *)
(***************************************************************************)
LEMMA SeqFacts ==
  ASSUME NEW S, NEW q \in Seq(S)
  PROVE  /\ Len(q) \in Nat /\ DOMAIN q = 1..Len(q)
         /\ \A i \in 1..Len(q) : q[i] \in S
         /\ q = <<>> <=> Len(q) = 0
OBVIOUS

LEMMA AppendFacts ==
  ASSUME NEW S, NEW q \in Seq(S), NEW x \in S
  PROVE  /\ Append(q, x) \in Seq(S) /\ Len(Append(q, x)) = Len(q) + 1
         /\ \A i \in 1..Len(q) : Append(q, x)[i] = q[i]
         /\ Append(q, x)[Len(q) + 1] = x
OBVIOUS

LEMMA TailFacts ==
  ASSUME NEW S, NEW q \in Seq(S), q # <<>>
  PROVE  /\ Tail(q) \in Seq(S) /\ Len(Tail(q)) = Len(q) - 1
         /\ \A i \in 1..(Len(q) - 1) : Tail(q)[i] = q[i + 1]
         /\ Head(q) = q[1] /\ Head(q) \in S /\ Len(q) \in Nat /\ Len(q) >= 1
OBVIOUS

LEMMA EndFacts ==
  ASSUME NEW S, NEW q \in Seq(S), q # <<>>
  PROVE  /\ Front(q) \in Seq(S) /\ Len(Front(q)) = Len(q) - 1
         /\ \A i \in 1..(Len(q) - 1) : Front(q)[i] = q[i]
         /\ Last(q) = q[Len(q)] /\ Last(q) \in S /\ Len(q) \in Nat /\ Len(q) >= 1
<1>1. Len(q) \in Nat /\ Len(q) >= 1 /\ \A i \in 1..Len(q) : q[i] \in S
  OBVIOUS
<1>2. 1 - 1 = 0 /\ Len(q) - 1 \in Nat /\ Len(q) - 1 + 1 = Len(q)
  BY <1>1
<1>3. Front(q) = [i \in 1..(Len(q) - 1) |-> q[i]]
  BY <1>1, <1>2 DEF Front
<1>4. \A i \in 1..(Len(q) - 1) : i \in 1..Len(q)
  BY <1>1
<1>5. Front(q) \in Seq(S) /\ Len(Front(q)) = Len(q) - 1
  BY <1>1, <1>2, <1>3, <1>4
<1>. QED  BY <1>1, <1>3, <1>5 DEF Last

LEMMA ConcatFacts ==
  ASSUME NEW S, NEW u \in Seq(S), NEW v \in Seq(S)
  PROVE  /\ u \o v \in Seq(S) /\ Len(u \o v) = Len(u) + Len(v)
         /\ \A i \in 1..Len(u) : (u \o v)[i] = u[i]
         /\ \A i \in 1..Len(v) : (u \o v)[Len(u) + i] = v[i]
OBVIOUS

LEMMA SubSeqFacts ==
  ASSUME NEW S, NEW q \in Seq(S), NEW a \in Nat, NEW b \in Nat, 1 <= a, a <= b + 1, b <= Len(q)
  PROVE  /\ SubSeq(q, a, b) \in Seq(S) /\ Len(SubSeq(q, a, b)) = b - a + 1
         /\ \A i \in 1..(b - a + 1) : SubSeq(q, a, b)[i] = q[a + i - 1]
<1>1. Len(q) \in Nat /\ \A i \in 1..Len(q) : q[i] \in S
  BY SeqFacts
<1>2. \A i \in 1..(b - a + 1) : a + i - 1 \in 1..Len(q)
  BY <1>1
<1>3. SubSeq(q, a, b) = [i \in 1..(b - a + 1) |-> q[a + i - 1]]
  BY <1>1, <1>2
<1>4. b - a + 1 \in Nat
  BY <1>1
<1>. QED  BY <1>1, <1>2, <1>3, <1>4

LEMMA ToSetOf ==
  ASSUME NEW S, NEW q \in Seq(S)
  PROVE  /\ ToSet(q) = {q[i] : i \in 1..Len(q)} /\ ToSet(q) \subseteq S
         /\ \A x : Contains(q, x) <=> x \in ToSet(q)
BY DEF ToSet, Contains

LEMMA ToSetAppend ==
  ASSUME NEW S, NEW q \in Seq(S), NEW x \in S
  PROVE  ToSet(Append(q, x)) = ToSet(q) \cup {x}
<1>1. /\ ToSet(q) = {q[i] : i \in 1..Len(q)}
      /\ ToSet(Append(q, x)) = {Append(q, x)[i] : i \in 1..(Len(q) + 1)}
  <2>1. Append(q, x) \in Seq(S) /\ Len(Append(q, x)) = Len(q) + 1
    BY AppendFacts
  <2>. QED  BY <2>1, ToSetOf
<1>2. Len(q) \in Nat /\ \A i \in 1..(Len(q) + 1) : i \in 1..Len(q) \/ i = Len(q) + 1
  BY SeqFacts
<1>3. \A i \in 1..Len(q) : i \in 1..(Len(q) + 1)
  BY <1>2
<1>4. Len(q) + 1 \in 1..(Len(q) + 1)
  BY <1>2
<1>5. ToSet(Append(q, x)) \subseteq ToSet(q) \cup {x}
  BY <1>1, <1>2, AppendFacts
<1>6. ToSet(q) \cup {x} \subseteq ToSet(Append(q, x))
  BY <1>1, <1>3, <1>4, AppendFacts
<1>. QED  BY <1>5, <1>6

\* The indices of x in q.
Places(q, x) == {i \in 1..Len(q) : q[i] = x}

LEMMA CountOf ==
  ASSUME NEW S, NEW q \in Seq(S), NEW x
  PROVE  /\ Count(q, x) = Cardinality(Places(q, x)) /\ IsFiniteSet(Places(q, x))
         /\ Count(q, x) \in Nat
         /\ Count(q, x) # 0 <=> Contains(q, x)
<1>1. Len(q) \in Nat /\ DOMAIN q = 1..Len(q)
  BY SeqFacts
<1>2. IsFiniteSet(1..Len(q)) /\ Places(q, x) \in SUBSET (1..Len(q))
  BY <1>1, FS_Interval DEF Places
<1>3. IsFiniteSet(Places(q, x)) /\ Count(q, x) = Cardinality(Places(q, x))
  BY <1>1, <1>2, FS_Subset DEF Count, Places
<1>4. Cardinality(Places(q, x)) \in Nat /\ (Cardinality(Places(q, x)) = 0 <=> Places(q, x) = {})
  BY <1>3, FS_CardinalityType, FS_EmptySet
<1>5. Places(q, x) # {} <=> Contains(q, x)
  BY DEF Places, Contains
<1>. QED  BY <1>3, <1>4, <1>5

\* r is what is left when the entry at p is taken out of q.
TakenOut(q, r, p) == Len(r) = Len(q) - 1 /\ \A i \in 1..Len(r) : r[i] = IF i < p THEN q[i] ELSE q[i + 1]

LEMMA CountWithout ==
  ASSUME NEW S, NEW q \in Seq(S), NEW r \in Seq(S), NEW p \in 1..Len(q), TakenOut(q, r, p), NEW x
  PROVE  Count(q, x) = Count(r, x) + (IF q[p] = x THEN 1 ELSE 0)
<1>. DEFINE f == [i \in Places(r, x) |-> IF i < p THEN i ELSE i + 1]
            T == Places(q, x) \ {p}
<1>. USE DEF TakenOut
<1>1. Len(q) \in Nat /\ Len(r) \in Nat /\ p \in Nat
  BY SeqFacts
<1>2. \A i \in 1..Len(r) : i \in 1..Len(q) /\ i + 1 \in 1..Len(q) /\ i \in Nat
  BY <1>1
<1>3. f \in [Places(r, x) -> T]
  <2>. SUFFICES ASSUME NEW i \in Places(r, x) PROVE (IF i < p THEN i ELSE i + 1) \in T
    OBVIOUS
  <2>1. i \in 1..Len(r) /\ r[i] = x
    BY DEF Places
  <2>2. i \in 1..Len(q) /\ i + 1 \in 1..Len(q) /\ i \in Nat
    BY <1>2, <2>1
  <2>3. CASE i < p
    BY <1>1, <2>1, <2>2, <2>3 DEF Places
  <2>4. CASE ~(i < p)
    <3>1. i + 1 # p
      BY <1>1, <2>2, <2>4
    <3>. QED  BY <2>1, <2>2, <2>4, <3>1 DEF Places
  <2>. QED  BY <2>3, <2>4
<1>4. \A i, j \in Places(r, x) : i # j => f[i] # f[j]
  <2>. SUFFICES ASSUME NEW i \in Places(r, x), NEW j \in Places(r, x), i # j PROVE f[i] # f[j]
    OBVIOUS
  <2>1. i \in Nat /\ j \in Nat
    BY <1>2 DEF Places
  <2>. QED  BY <1>1, <2>1
<1>5. \A j \in T : \E i \in Places(r, x) : f[i] = j
  <2>. SUFFICES ASSUME NEW j \in T PROVE \E i \in Places(r, x) : f[i] = j
    OBVIOUS
  <2>1. j \in 1..Len(q) /\ q[j] = x /\ j # p
    BY DEF Places
  <2>2. CASE j < p
    <3>1. j \in 1..Len(r) /\ r[j] = x
      BY <1>1, <2>1, <2>2
    <3>2. j \in Places(r, x)
      BY <3>1 DEF Places
    <3>. QED  BY <2>2, <3>2
  <2>3. CASE ~(j < p)
    <3>1. j - 1 \in 1..Len(r) /\ ~(j - 1 < p) /\ (j - 1) + 1 = j
      BY <1>1, <2>1, <2>3
    <3>2. r[j - 1] = x
      BY <2>1, <3>1
    <3>3. j - 1 \in Places(r, x)
      BY <3>1, <3>2 DEF Places
    <3>. QED  BY <3>1, <3>3
  <2>. QED  BY <2>2, <2>3
<1>6. ExistsBijection(Places(r, x), T)
  <2>. HIDE DEF f, T
  <2>. QED  BY <1>3, <1>4, <1>5 DEF ExistsBijection, Bijection, Injection, Surjection, IsInjective
<1>7. IsFiniteSet(Places(q, x)) /\ IsFiniteSet(Places(r, x))
  BY CountOf
<1>8. Cardinality(T) = Cardinality(Places(r, x))
  BY <1>6, <1>7, FS_Bijection
<1>9. Cardinality(T) = IF p \in Places(q, x) THEN Cardinality(Places(q, x)) - 1 ELSE Cardinality(Places(q, x))
  BY <1>7, FS_RemoveElement
<1>10. p \in Places(q, x) <=> q[p] = x
  BY DEF Places
<1>11. Count(q, x) = Cardinality(Places(q, x)) /\ Count(r, x) = Cardinality(Places(r, x)) /\ Count(q, x) \in Nat
  BY CountOf
<1>. QED  BY <1>8, <1>9, <1>10, <1>11

LEMMA LeastNat ==
  ASSUME NEW B, B \subseteq Nat, B # {}
  PROVE  \E m \in B : \A n \in B : m <= n
<1>. DEFINE R == OpToRel(<, Nat)
<1>1. \A m, n \in Nat : m < n => <<m, n>> \in R
  BY DEF OpToRel
<1>2. IsWellFoundedOn(R, Nat)
  BY NatLessThanWellFounded
<1>. HIDE DEF R
<1>3. PICK m \in B : \A n \in B : ~(<<n, m>> \in R)
  BY <1>2, WFMin
<1>4. \A n \in B : ~(n < m)
  BY <1>1, <1>3
<1>. QED  BY <1>3, <1>4

LEMMA WithoutFirstOf ==
  ASSUME NEW S, NEW q \in Seq(S), NEW x
  PROVE  /\ WithoutFirst(q, x) \in Seq(S)
         /\ \A y : Count(WithoutFirst(q, x), y) =
                     Count(q, y) - (IF y = x /\ Contains(q, x) THEN 1 ELSE 0)
<1>1. CASE ~Contains(q, x)
  <2>1. WithoutFirst(q, x) = q
    BY <1>1 DEF WithoutFirst
  <2>2. \A y : Count(q, y) \in Nat
    BY CountOf
  <2>. QED  BY <1>1, <2>1, <2>2
<1>2. CASE Contains(q, x)
  <2>. DEFINE p == FirstPlace(q, x)
              r == RemoveAt(q, p)
  <2>1. Len(q) \in Nat /\ DOMAIN q = 1..Len(q)
    BY SeqFacts
  <2>2. Places(q, x) # {} /\ Places(q, x) \subseteq Nat
    BY <1>2, <2>1 DEF Places, Contains
  <2>3. PICK m \in Places(q, x) : \A n \in Places(q, x) : m <= n
    BY <2>2, LeastNat
  <2>4. m \in 1..Len(q) /\ q[m] = x /\ m \in Nat
    BY <2>2, <2>3 DEF Places
  <2>5. \A j \in 1..(m - 1) : q[j] # x
    <3>. SUFFICES ASSUME NEW j \in 1..(m - 1), q[j] = x PROVE FALSE
      OBVIOUS
    <3>1. j \in 1..Len(q) /\ ~(m <= j)
      BY <2>1, <2>4
    <3>. QED  BY <2>3, <3>1 DEF Places
  <2>6. p \in 1..Len(q) /\ q[p] = x
    BY <2>1, <2>4, <2>5 DEF FirstPlace
  <2>. HIDE DEF p
  <2>7. p \in Nat /\ p >= 1 /\ p <= Len(q)
    BY <2>1, <2>6
  <2>8. /\ SubSeq(q, 1, p - 1) \in Seq(S) /\ Len(SubSeq(q, 1, p - 1)) = p - 1
        /\ \A i \in 1..(p - 1) : SubSeq(q, 1, p - 1)[i] = q[i]
    <3>1. p - 1 \in Nat /\ 1 \in Nat /\ 1 <= (p - 1) + 1 /\ p - 1 <= Len(q) /\ (p - 1) - 1 + 1 = p - 1
      BY <2>1, <2>7
    <3>2. \A i \in 1..(p - 1) : 1 + i - 1 = i
      BY <3>1
    <3>3. /\ SubSeq(q, 1, p - 1) \in Seq(S) /\ Len(SubSeq(q, 1, p - 1)) = (p - 1) - 1 + 1
          /\ \A i \in 1..((p - 1) - 1 + 1) : SubSeq(q, 1, p - 1)[i] = q[1 + i - 1]
      BY <3>1, SubSeqFacts
    <3>. QED  BY <3>1, <3>2, <3>3
  <2>9. /\ SubSeq(q, p + 1, Len(q)) \in Seq(S) /\ Len(SubSeq(q, p + 1, Len(q))) = Len(q) - p
        /\ \A i \in 1..(Len(q) - p) : SubSeq(q, p + 1, Len(q))[i] = q[i + p]
    <3>1. p + 1 \in Nat /\ 1 <= p + 1 /\ p + 1 <= Len(q) + 1 /\ Len(q) <= Len(q) /\ Len(q) - (p + 1) + 1 = Len(q) - p
      BY <2>1, <2>7
    <3>2. \A i \in 1..(Len(q) - p) : (p + 1) + i - 1 = i + p
      BY <2>7
    <3>3. /\ SubSeq(q, p + 1, Len(q)) \in Seq(S) /\ Len(SubSeq(q, p + 1, Len(q))) = Len(q) - (p + 1) + 1
          /\ \A i \in 1..(Len(q) - (p + 1) + 1) : SubSeq(q, p + 1, Len(q))[i] = q[(p + 1) + i - 1]
      BY <2>1, <3>1, SubSeqFacts
    <3>. QED  BY <3>1, <3>2, <3>3
  <2>10. r \in Seq(S) /\ Len(r) = Len(q) - 1 /\ \A i \in 1..Len(r) : r[i] = IF i < p THEN q[i] ELSE q[i + 1]
    <3>. DEFINE u == SubSeq(q, 1, p - 1)
                v == SubSeq(q, p + 1, Len(q))
    <3>1. r = u \o v
      BY DEF RemoveAt
    <3>2. u \in Seq(S) /\ v \in Seq(S) /\ Len(u) = p - 1 /\ Len(v) = Len(q) - p
      BY <2>8, <2>9
    <3>3. \A i \in 1..(p - 1) : u[i] = q[i]
      BY <2>8
    <3>4. \A i \in 1..(Len(q) - p) : v[i] = q[i + p]
      BY <2>9
    <3>. HIDE DEF u, v, r
    <3>5. r \in Seq(S) /\ Len(r) = Len(u) + Len(v)
      BY <3>1, <3>2, ConcatFacts
    <3>6. Len(r) = Len(q) - 1
      BY <2>1, <2>7, <3>2, <3>5
    <3>7. ASSUME NEW i \in 1..Len(r) PROVE r[i] = IF i < p THEN q[i] ELSE q[i + 1]
      <4>1. CASE i < p
        <5>1. i \in 1..(p - 1)
          BY <2>1, <2>7, <3>6, <4>1
        <5>2. r[i] = u[i]
          BY <3>1, <3>2, <5>1, ConcatFacts
        <5>. QED  BY <3>3, <4>1, <5>1, <5>2
      <4>2. CASE ~(i < p)
        <5>1. i - (p - 1) \in 1..(Len(q) - p) /\ (i - (p - 1)) + p = i + 1
          BY <2>1, <2>7, <3>6, <4>2
        <5>2. r[i] = v[i - (p - 1)]
          <6>1. Len(u) + (i - (p - 1)) = i
            BY <2>7, <3>2
          <6>2. (u \o v)[Len(u) + (i - (p - 1))] = v[i - (p - 1)]
            BY <3>2, <5>1, ConcatFacts
          <6>. QED  BY <3>1, <6>1, <6>2
        <5>. QED  BY <3>4, <4>2, <5>1, <5>2
      <4>. QED  BY <4>1, <4>2
    <3>. QED  BY <3>5, <3>6, <3>7
  <2>11. WithoutFirst(q, x) = r
    BY <1>2 DEF WithoutFirst, p
  <2>. HIDE DEF r
  <2>12. ASSUME NEW y PROVE Count(q, y) = Count(r, y) + (IF q[p] = y THEN 1 ELSE 0) /\ Count(r, y) \in Nat
    <3>1. /\ r \in Seq(S) /\ p \in 1..Len(q) 
          /\ TakenOut(q, r, p)
      BY <2>6, <2>10 DEF TakenOut
    <3>2. Count(q, y) = Count(r, y) + (IF q[p] = y THEN 1 ELSE 0)
      BY <3>1, CountWithout
    <3>3. Count(r, y) \in Nat
      BY <3>1, CountOf
    <3>. QED  BY <3>2, <3>3
  <2>13. ASSUME NEW y PROVE Count(r, y) = Count(q, y) - (IF y = x THEN 1 ELSE 0)
    BY <2>6, <2>12
  <2>. QED  BY <1>2, <2>10, <2>11, <2>13
<1>. QED  BY <1>1, <1>2

LEMMA CountAppend ==
  ASSUME NEW S, NEW q \in Seq(S), NEW y \in S, NEW x
  PROVE  Count(Append(q, y), x) = Count(q, x) + (IF y = x THEN 1 ELSE 0)
<1>. DEFINE r == Append(q, y)
            p == Len(q) + 1
<1>1. r \in Seq(S) /\ Len(r) = Len(q) + 1 /\ r[p] = y /\ \A i \in 1..Len(q) : r[i] = q[i]
  BY AppendFacts
<1>2. Len(q) \in Nat /\ p \in Nat
  BY SeqFacts
<1>3. \A i \in 1..Len(q) : i < p
  BY <1>2
<1>4. p \in 1..Len(r) /\ Len(q) = Len(r) - 1
  BY <1>1, <1>2
<1>. HIDE DEF r, p
<1>5. TakenOut(r, q, p)
  BY <1>1, <1>3, <1>4 DEF TakenOut
<1>6. Count(r, x) = Count(q, x) + (IF r[p] = x THEN 1 ELSE 0)
  BY <1>1, <1>4, <1>5, CountWithout
<1>7. Count(r, x) = Count(q, x) + (IF y = x THEN 1 ELSE 0)
  BY <1>1, <1>6
<1>. QED  BY <1>7 DEF r

LEMMA CountTail ==
  ASSUME NEW S, NEW q \in Seq(S), q # <<>>, NEW x
  PROVE  Count(q, x) = Count(Tail(q), x) + (IF Head(q) = x THEN 1 ELSE 0)
<1>. DEFINE r == Tail(q)
            p == 1
<1>1. /\ r \in Seq(S) /\ Len(r) = Len(q) - 1 /\ Head(q) = q[p]
      /\ \A i \in 1..(Len(q) - 1) : r[i] = q[i + 1]
      /\ Len(q) \in Nat /\ Len(q) >= 1
  BY TailFacts
<1>2. p \in 1..Len(q) /\ \A i \in 1..(Len(q) - 1) : ~(i < p)
  BY <1>1
<1>. HIDE DEF r, p
<1>3. TakenOut(q, r, p)
  BY <1>1, <1>2 DEF TakenOut
<1>4. Count(q, x) = Count(r, x) + (IF q[p] = x THEN 1 ELSE 0)
  BY <1>1, <1>2, <1>3, CountWithout
<1>. QED  BY <1>1, <1>4 DEF r

-----------------------------------------------------------------------------
(***************************************************************************)
(* Loops: a list is gone through by a function of the number of turns done.   *)
(***************************************************************************)
LEMMA NatSet ==
  ASSUME NEW A, 0 \in A, \A n \in Nat : n \in A => n + 1 \in A
  PROVE  Nat \subseteq A
<1>. SUFFICES ASSUME Nat \ A # {} PROVE FALSE
  OBVIOUS
<1>1. PICK m \in Nat \ A : \A n \in Nat \ A : m <= n
  BY LeastNat
<1>2. m # 0 /\ m \in Nat
  BY <1>1
<1>3. m - 1 \in Nat /\ (m - 1) + 1 = m /\ ~(m <= m - 1)
  BY <1>2
<1>4. m - 1 \in A
  BY <1>1, <1>3
<1>. QED  BY <1>1, <1>3, <1>4

Loop(f, n, start, turn) == f = [k \in 0..n |-> IF k = 0 THEN start ELSE turn[<<k, f[k - 1]>>]]

LEMMA LoopExists ==
  ASSUME NEW V, NEW start \in V, NEW n \in Nat, NEW turn \in [(1..n) \X V -> V]
  PROVE  \E f \in [0..n -> V] : Loop(f, n, start, turn)
<1>. DEFINE Runs(f, m) == f[0] = start /\ \A k \in 1..m : f[k] = turn[<<k, f[k - 1]>>]
            A == {m \in Nat : m <= n => \E f \in [0..m -> V] : Runs(f, m)}
<1>1. 0 \in A
  <2>1. [k \in 0..0 |-> start] \in [0..0 -> V] /\ Runs([k \in 0..0 |-> start], 0)
    OBVIOUS
  <2>. QED  BY <2>1
<1>2. ASSUME NEW m \in Nat, m \in A PROVE m + 1 \in A
  <2>. SUFFICES ASSUME m + 1 <= n PROVE \E f \in [0..(m + 1) -> V] : Runs(f, m + 1)
    OBVIOUS
  <2>1. PICK f \in [0..m -> V] : Runs(f, m)
    BY <1>2
  <2>. DEFINE g == [k \in 0..(m + 1) |-> IF k = m + 1 THEN turn[<<m + 1, f[m]>>] ELSE f[k]]
  <2>2. m + 1 \in 1..n /\ m \in 0..m /\ f[m] \in V
    OBVIOUS
  <2>3. turn[<<m + 1, f[m]>>] \in V
    BY <2>2
  <2>4. \A k \in 0..(m + 1) : k # m + 1 => k \in 0..m
    OBVIOUS
  <2>5. g \in [0..(m + 1) -> V]
    BY <2>3, <2>4
  <2>6. g[0] = start
    BY <2>1
  <2>7. ASSUME NEW k \in 1..(m + 1) PROVE g[k] = turn[<<k, g[k - 1]>>]
    <3>1. k - 1 \in 0..(m + 1) /\ k - 1 # m + 1 /\ k \in 0..(m + 1)
      OBVIOUS
    <3>2. g[k - 1] = f[k - 1]
      BY <3>1
    <3>3. CASE k = m + 1
      <4>1. g[k] = turn[<<m + 1, f[m]>>] /\ k - 1 = m
        BY <3>1, <3>3
      <4>. QED  BY <3>2, <3>3, <4>1
    <3>4. CASE k # m + 1
      <4>1. k \in 1..m /\ g[k] = f[k]
        BY <3>1, <3>4
      <4>. HIDE DEF g
      <4>. QED  BY <2>1, <3>2, <4>1
    <3>. QED  BY <3>3, <3>4
  <2>. HIDE DEF g
  <2>. QED  BY <2>5, <2>6, <2>7
<1>3. n \in A
  <2>. HIDE DEF A
  <2>. QED  BY <1>1, <1>2, NatSet
<1>4. PICK f \in [0..n -> V] : Runs(f, n)
  BY <1>3
<1>5. \A k \in 0..n : k # 0 => k \in 1..n
  OBVIOUS
<1>6. \A k \in 0..n : f[k] = IF k = 0 THEN start ELSE turn[<<k, f[k - 1]>>]
  BY <1>4, <1>5
<1>7. Loop(f, n, start, turn)
  BY <1>6 DEF Loop
<1>. QED  BY <1>7

\* What holds at the start, and after a turn if before, holds at the end.
LEMMA LoopInvariant ==
  ASSUME NEW f, NEW n \in Nat, NEW J, f[0] \in J[0], \A k \in 1..n : f[k - 1] \in J[k - 1] => f[k] \in J[k]
  PROVE  f[n] \in J[n]
<1>. DEFINE A == {m \in Nat : m <= n => f[m] \in J[m]}
<1>1. 0 \in A
  OBVIOUS
<1>2. ASSUME NEW m \in Nat, m \in A PROVE m + 1 \in A
  <2>. SUFFICES ASSUME m + 1 <= n PROVE f[m + 1] \in J[m + 1]
    OBVIOUS
  <2>1. m + 1 \in 1..n /\ (m + 1) - 1 = m /\ f[m] \in J[m]
    BY <1>2
  <2>2. f[(m + 1) - 1] \in J[(m + 1) - 1]
    BY <2>1
  <2>. QED  BY <2>1, <2>2
<1>3. n \in A
  <2>. HIDE DEF A
  <2>. QED  BY <1>1, <1>2, NatSet
<1>. QED  BY <1>3

-----------------------------------------------------------------------------
(***************************************************************************)
(* The edges, in both directions.                                          *)
(***************************************************************************)
Paired(links) ==
  \A s \in Subjects, o \in Observers : Count(links.deps[s], o) = Count(links.reverse[o], s)

LinkType == [deps : [Subjects -> Seq(Observers)], reverse : [Observers -> Seq(Subjects)]]
PairedLinks == {links \in LinkType : Paired(links)}

LEMMA LinkTypes ==
  ASSUME NEW links \in LinkType, NEW s \in Subjects, NEW o \in Observers
  PROVE  /\ links.deps \in [Subjects -> Seq(Observers)] /\ links.deps[s] \in Seq(Observers)
         /\ links.reverse \in [Observers -> Seq(Subjects)] /\ links.reverse[o] \in Seq(Subjects)
BY DEF LinkType

\* Two changed lists, of one subject and one observer, that count the pair alike.
LEMMA Changed ==
  ASSUME NEW links \in PairedLinks, NEW s \in Subjects, NEW o \in Observers, NEW n \in Int,
         NEW d \in Seq(Observers), NEW r \in Seq(Subjects),
         \A p \in Observers : Count(d, p) = Count(links.deps[s], p) + (IF p = o THEN n ELSE 0),
         \A t \in Subjects : Count(r, t) = Count(links.reverse[o], t) + (IF t = s THEN n ELSE 0)
  PROVE  [deps |-> [links.deps EXCEPT ![s] = d], reverse |-> [links.reverse EXCEPT ![o] = r]] \in PairedLinks
<1>. DEFINE deps2 == [links.deps EXCEPT ![s] = d]
            reverse2 == [links.reverse EXCEPT ![o] = r]
<1>1. /\ links.deps \in [Subjects -> Seq(Observers)] /\ links.reverse \in [Observers -> Seq(Subjects)]
      /\ \A t \in Subjects, p \in Observers :
           /\ Count(links.deps[t], p) = Count(links.reverse[p], t)
           /\ links.deps[t] \in Seq(Observers) /\ links.reverse[p] \in Seq(Subjects)
  BY LinkTypes DEF PairedLinks, Paired
<1>2. deps2 \in [Subjects -> Seq(Observers)] /\ reverse2 \in [Observers -> Seq(Subjects)]
  BY <1>1
<1>3. ASSUME NEW t \in Subjects, NEW p \in Observers PROVE Count(deps2[t], p) = Count(reverse2[p], t)
  <2>1. deps2[t] = (IF t = s THEN d ELSE links.deps[t]) /\ reverse2[p] = (IF p = o THEN r ELSE links.reverse[p])
    BY <1>1
  <2>2. Count(links.deps[t], p) = Count(links.reverse[p], t) /\ Count(links.deps[t], p) \in Nat
    BY <1>1, CountOf
  <2>3. Count(deps2[t], p) = Count(links.deps[t], p) + (IF t = s /\ p = o THEN n ELSE 0)
    BY <2>1, <2>2
  <2>4. Count(reverse2[p], t) = Count(links.reverse[p], t) + (IF t = s /\ p = o THEN n ELSE 0)
    BY <2>1, <2>2
  <2>. QED  BY <2>2, <2>3, <2>4
<1>. HIDE DEF deps2, reverse2
<1>4. [deps |-> deps2, reverse |-> reverse2] \in LinkType
  BY <1>2 DEF LinkType
<1>5. [deps |-> deps2, reverse |-> reverse2] \in PairedLinks
  BY <1>3, <1>4 DEF PairedLinks, Paired
<1>. QED  BY <1>5 DEF deps2, reverse2

LEMMA LinkPaired ==
  ASSUME NEW links \in PairedLinks, NEW s \in Subjects, NEW o \in Observers
  PROVE  Link(links, s, o) \in PairedLinks
<1>. DEFINE d == Append(links.deps[s], o)
            r == Append(links.reverse[o], s)
            n == 1
<1>1. links.deps[s] \in Seq(Observers) /\ links.reverse[o] \in Seq(Subjects)
  BY LinkTypes DEF PairedLinks
<1>2. d \in Seq(Observers) /\ r \in Seq(Subjects) /\ n \in Int
  BY <1>1, AppendFacts
<1>3. \A p \in Observers : Count(d, p) = Count(links.deps[s], p) + (IF p = o THEN n ELSE 0)
  BY <1>1, CountAppend
<1>4. \A t \in Subjects : Count(r, t) = Count(links.reverse[o], t) + (IF t = s THEN n ELSE 0)
  BY <1>1, CountAppend
<1>. HIDE DEF d, r, n
<1>5. [deps |-> [links.deps EXCEPT ![s] = d], reverse |-> [links.reverse EXCEPT ![o] = r]] \in PairedLinks
  BY <1>2, <1>3, <1>4, Changed
<1>6. Link(links, s, o) = [deps |-> [links.deps EXCEPT ![s] = d], reverse |-> [links.reverse EXCEPT ![o] = r]]
  BY DEF Link, d, r
<1>. QED  BY <1>5, <1>6

LEMMA UnlinkPaired ==
  ASSUME NEW links \in PairedLinks, NEW s \in Subjects, NEW o \in Observers
  PROVE  Unlink(links, s, o) \in PairedLinks
<1>. DEFINE d == WithoutFirst(links.deps[s], o)
            r == WithoutFirst(links.reverse[o], s)
            n == IF Contains(links.deps[s], o) THEN -1 ELSE 0
<1>1. links.deps[s] \in Seq(Observers) /\ links.reverse[o] \in Seq(Subjects)
      /\ Count(links.deps[s], o) = Count(links.reverse[o], s)
  BY LinkTypes DEF PairedLinks, Paired
<1>2. Contains(links.deps[s], o) <=> Contains(links.reverse[o], s)
  BY <1>1, CountOf
<1>3. d \in Seq(Observers) /\ r \in Seq(Subjects) /\ n \in Int
  BY <1>1, WithoutFirstOf
<1>4. \A p \in Observers : Count(d, p) = Count(links.deps[s], p) + (IF p = o THEN n ELSE 0)
  <2>. TAKE p \in Observers
  <2>1. Count(d, p) = Count(links.deps[s], p) - (IF p = o /\ Contains(links.deps[s], o) THEN 1 ELSE 0)
    BY <1>1, WithoutFirstOf
  <2>2. Count(links.deps[s], p) \in Nat
    BY <1>1, CountOf
  <2>. QED  BY <2>1, <2>2
<1>5. \A t \in Subjects : Count(r, t) = Count(links.reverse[o], t) + (IF t = s THEN n ELSE 0)
  <2>. TAKE t \in Subjects
  <2>1. Count(r, t) = Count(links.reverse[o], t) - (IF t = s /\ Contains(links.reverse[o], s) THEN 1 ELSE 0)
    BY <1>1, WithoutFirstOf
  <2>2. Count(links.reverse[o], t) \in Nat
    BY <1>1, CountOf
  <2>. QED  BY <1>2, <2>1, <2>2
<1>. HIDE DEF d, r, n
<1>6. [deps |-> [links.deps EXCEPT ![s] = d], reverse |-> [links.reverse EXCEPT ![o] = r]] \in PairedLinks
  BY <1>3, <1>4, <1>5, Changed
<1>7. Unlink(links, s, o) = [deps |-> [links.deps EXCEPT ![s] = d], reverse |-> [links.reverse EXCEPT ![o] = r]]
  BY DEF Unlink, d, r
<1>. QED  BY <1>6, <1>7

Made == [links : PairedLinks, auto : SUBSET (Subjects \X Observers)]

LEMMA AutoSteps ==
  ASSUME NEW made \in Made, NEW s \in Subjects, NEW o \in Observers
  PROVE  AutoLink(made, s, o) \in Made /\ AutoUnlink(made, s, o) \in Made
<1>1. made.links \in PairedLinks /\ made.auto \subseteq Subjects \X Observers
  BY DEF Made
<1>2. Link(made.links, s, o) \in PairedLinks /\ Unlink(made.links, s, o) \in PairedLinks
  BY <1>1, LinkPaired, UnlinkPaired
<1>3. \A links \in PairedLinks, auto \in SUBSET (Subjects \X Observers) : [links |-> links, auto |-> auto] \in Made
  BY DEF Made
<1>4. made.auto \cup {<<s, o>>} \in SUBSET (Subjects \X Observers) /\ made.auto \ {<<s, o>>} \in SUBSET (Subjects \X Observers)
  BY <1>1
<1>5. AutoLink(made, s, o) \in Made
  BY <1>2, <1>3, <1>4 DEF AutoLink
<1>6. AutoUnlink(made, s, o) \in Made
  BY <1>2, <1>3, <1>4 DEF AutoUnlink
<1>. QED  BY <1>5, <1>6

LEMMA AutoLinkedMade ==
  ASSUME [links |-> Links, auto |-> autoEdges] \in Made, NEW pairs \in Seq(Subjects \X Observers), NEW wanted
  PROVE  AutoLinked(pairs, wanted) \in Made
<1>. DEFINE n == Len(pairs)
            start == [links |-> Links, auto |-> autoEdges]
            Pass(k, made) == IF k \in wanted THEN AutoLink(made, pairs[k][1], pairs[k][2]) ELSE made
            turn == [x \in (1..n) \X Made |-> Pass(x[1], x[2])]
            R(f) == [k \in 0..n |-> IF k = 0 THEN start ELSE Pass(k, f[k - 1])]
            result == CHOOSE f : f = R(f)
            J == [k \in 0..n |-> Made]
<1>1. n \in Nat /\ \A k \in 1..n : pairs[k][1] \in Subjects /\ pairs[k][2] \in Observers
  BY SeqFacts
<1>2. ASSUME NEW k \in 1..n, NEW m \in Made PROVE Pass(k, m) \in Made
  BY <1>1, AutoSteps
<1>3. AutoLinked(pairs, wanted) = result[n]
  BY DEF AutoLinked
<1>4. start \in Made
  OBVIOUS
<1>. HIDE DEF Pass, start, n
<1>5. \A k \in 0..n : k # 0 => k \in 1..n /\ k - 1 \in 0..n
  BY <1>1
<1>6. turn \in [(1..n) \X Made -> Made] /\ \A k \in 1..n, m \in Made : turn[<<k, m>>] = Pass(k, m)
  BY <1>2
<1>7. PICK f \in [0..n -> Made] : Loop(f, n, start, turn)
  <2>. HIDE DEF turn
  <2>. QED  BY <1>1, <1>4, <1>6, LoopExists
<1>8. \A k \in 0..n : k # 0 => f[k - 1] \in Made /\ turn[<<k, f[k - 1]>>] = Pass(k, f[k - 1])
  BY <1>5, <1>6, <1>7
<1>9. f = R(f)
  <2>. HIDE DEF turn
  <2>. QED  BY <1>7, <1>8 DEF Loop
<1>10. result = R(result)
  <2>. HIDE DEF R
  <2>. QED  BY <1>9
<1>. HIDE DEF result
<1>11. result[0] = start /\ \A k \in 1..n : result[k] = Pass(k, result[k - 1])
  <2>1. 0 \in 0..n /\ \A k \in 1..n : k \in 0..n /\ k # 0
    BY <1>1
  <2>. QED  BY <1>10, <2>1
<1>12. result[0] \in J[0] /\ \A k \in 1..n : result[k - 1] \in J[k - 1] => result[k] \in J[k]
  <2>1. 0 \in 0..n /\ \A k \in 1..n : k \in 0..n /\ k - 1 \in 0..n
    BY <1>1
  <2>. QED  BY <1>2, <1>4, <1>11, <2>1
<1>13. result[n] \in J[n]
  <2>. HIDE DEF J
  <2>. QED  BY <1>1, <1>12, LoopInvariant
<1>14. n \in 0..n
  BY <1>1
<1>. QED  BY <1>3, <1>13, <1>14

LEMMA AutoUnlinkedMade ==
  ASSUME [links |-> Links, auto |-> autoEdges] \in Made, NEW subjects \in Seq(Subjects), NEW o \in Observers
  PROVE  AutoUnlinked(subjects, o) \in Made
<1>. DEFINE n == Len(subjects)
            start == [links |-> Links, auto |-> autoEdges]
            Pass(k, made) == AutoUnlink(made, subjects[k], o)
            turn == [x \in (1..n) \X Made |-> Pass(x[1], x[2])]
            R(f) == [k \in 0..n |-> IF k = 0 THEN start ELSE Pass(k, f[k - 1])]
            result == CHOOSE f : f = R(f)
            J == [k \in 0..n |-> Made]
<1>1. n \in Nat /\ \A k \in 1..n : subjects[k] \in Subjects
  BY SeqFacts
<1>2. ASSUME NEW k \in 1..n, NEW m \in Made PROVE Pass(k, m) \in Made
  BY <1>1, AutoSteps
<1>3. AutoUnlinked(subjects, o) = result[n]
  BY DEF AutoUnlinked
<1>4. start \in Made
  OBVIOUS
<1>. HIDE DEF Pass, start, n
<1>5. \A k \in 0..n : k # 0 => k \in 1..n /\ k - 1 \in 0..n
  BY <1>1
<1>6. turn \in [(1..n) \X Made -> Made] /\ \A k \in 1..n, m \in Made : turn[<<k, m>>] = Pass(k, m)
  BY <1>2
<1>7. PICK f \in [0..n -> Made] : Loop(f, n, start, turn)
  <2>. HIDE DEF turn
  <2>. QED  BY <1>1, <1>4, <1>6, LoopExists
<1>8. \A k \in 0..n : k # 0 => f[k - 1] \in Made /\ turn[<<k, f[k - 1]>>] = Pass(k, f[k - 1])
  BY <1>5, <1>6, <1>7
<1>9. f = R(f)
  <2>. HIDE DEF turn
  <2>. QED  BY <1>7, <1>8 DEF Loop
<1>10. result = R(result)
  <2>. HIDE DEF R
  <2>. QED  BY <1>9
<1>. HIDE DEF result
<1>11. result[0] = start /\ \A k \in 1..n : result[k] = Pass(k, result[k - 1])
  <2>1. 0 \in 0..n /\ \A k \in 1..n : k \in 0..n /\ k # 0
    BY <1>1
  <2>. QED  BY <1>10, <2>1
<1>12. result[0] \in J[0] /\ \A k \in 1..n : result[k - 1] \in J[k - 1] => result[k] \in J[k]
  <2>1. 0 \in 0..n /\ \A k \in 1..n : k \in 0..n /\ k - 1 \in 0..n
    BY <1>1
  <2>. QED  BY <1>2, <1>4, <1>11, <2>1
<1>13. result[n] \in J[n]
  <2>. HIDE DEF J
  <2>. QED  BY <1>1, <1>12, LoopInvariant
<1>14. n \in 0..n
  BY <1>1
<1>. QED  BY <1>3, <1>13, <1>14

\* How often x is among the first k entries of q.
CountTo(q, k, x) == Cardinality({i \in 1..k : q[i] = x})

LEMMA CountToFacts ==
  ASSUME NEW S, NEW q \in Seq(S), NEW x
  PROVE  /\ CountTo(q, 0, x) = 0 /\ CountTo(q, Len(q), x) = Count(q, x)
         /\ \A k \in 1..Len(q) : /\ CountTo(q, k, x) = CountTo(q, k - 1, x) + (IF q[k] = x THEN 1 ELSE 0)
                                 /\ CountTo(q, k, x) <= Count(q, x)
                                 /\ CountTo(q, k - 1, x) \in Nat /\ CountTo(q, k, x) \in Nat
<1>1. Len(q) \in Nat /\ IsFiniteSet(1..Len(q))
  BY SeqFacts, FS_Interval
<1>2. CountTo(q, 0, x) = 0
  <2>1. {i \in 1..0 : q[i] = x} = {}
    OBVIOUS
  <2>. QED  BY <2>1, FS_EmptySet DEF CountTo
<1>3. CountTo(q, Len(q), x) = Count(q, x)
  BY CountOf DEF CountTo, Places
<1>4. ASSUME NEW k \in 1..Len(q)
      PROVE  /\ CountTo(q, k, x) = CountTo(q, k - 1, x) + (IF q[k] = x THEN 1 ELSE 0)
             /\ CountTo(q, k, x) <= Count(q, x)
             /\ CountTo(q, k - 1, x) \in Nat /\ CountTo(q, k, x) \in Nat
  <2>. DEFINE A == {i \in 1..(k - 1) : q[i] = x}
              B == {i \in 1..k : q[i] = x}
  <2>1. k \in Nat /\ k >= 1 /\ k <= Len(q)
    BY <1>1
  <2>2. A \subseteq 1..Len(q) /\ B \subseteq 1..Len(q) /\ B \subseteq Places(q, x) /\ k \notin A
    BY <1>1, <2>1 DEF Places
  <2>3. IsFiniteSet(A) /\ IsFiniteSet(B)
    BY <1>1, <2>2, FS_Subset
  <2>4. Cardinality(B) <= Cardinality(Places(q, x)) /\ Count(q, x) = Cardinality(Places(q, x))
    BY <2>2, CountOf, FS_Subset
  <2>5. B = IF q[k] = x THEN A \cup {k} ELSE A
    <3>1. \A i \in 1..k : i \in 1..(k - 1) \/ i = k
      BY <2>1
    <3>2. k \in 1..k /\ \A i \in 1..(k - 1) : i \in 1..k
      BY <2>1
    <3>. QED  BY <3>1, <3>2
  <2>. HIDE DEF A, B
  <2>6. Cardinality(A) \in Nat /\ Cardinality(B) \in Nat
    BY <2>3, FS_CardinalityType
  <2>7. Cardinality(A \cup {k}) = Cardinality(A) + 1
    BY <2>2, <2>3, FS_AddElement
  <2>8. Cardinality(B) = Cardinality(A) + (IF q[k] = x THEN 1 ELSE 0)
    BY <2>5, <2>6, <2>7
  <2>9. CountTo(q, k, x) = Cardinality(B) /\ CountTo(q, k - 1, x) = Cardinality(A)
    BY DEF CountTo, A, B
  <2>. QED  BY <2>4, <2>6, <2>8, <2>9
<1>. QED  BY <1>2, <1>3, <1>4

LEMMA WithoutSubjectPaired ==
  ASSUME Links \in PairedLinks, NEW s \in Subjects
  PROVE  WithoutSubject(s) \in PairedLinks
<1>. DEFINE q == deps[s]
            n == Len(q)
            V == [Observers -> Seq(Subjects)]
            Pass(k, r) == [r EXCEPT ![q[k]] = WithoutFirst(@, s)]
            turn == [x \in (1..n) \X V |-> Pass(x[1], x[2])]
            R(f) == [k \in 0..n |-> IF k = 0 THEN reverseDeps ELSE Pass(k, f[k - 1])]
            result == CHOOSE f : f = R(f)
            Gone(t, p, k) == IF t = s THEN CountTo(q, k, p) ELSE 0
            J == [k \in 0..n |-> {r \in V : \A p \in Observers, t \in Subjects :
                                              Count(r[p], t) = Count(reverseDeps[p], t) - Gone(t, p, k)}]
<1>1. /\ deps \in [Subjects -> Seq(Observers)] /\ reverseDeps \in V
      /\ \A t \in Subjects, p \in Observers : Count(deps[t], p) = Count(reverseDeps[p], t)
      /\ q \in Seq(Observers)
  BY DEF PairedLinks, Paired, LinkType, Links
<1>2. n \in Nat /\ \A k \in 1..n : q[k] \in Observers
  BY <1>1, SeqFacts
<1>3. WithoutSubject(s) = [deps |-> [deps EXCEPT ![s] = <<>>], reverse |-> result[n]]
  BY DEF WithoutSubject
<1>4. ASSUME NEW k \in 1..n, NEW r \in V PROVE Pass(k, r) \in V
  <2>1. r[q[k]] \in Seq(Subjects)
    BY <1>2
  <2>2. WithoutFirst(r[q[k]], s) \in Seq(Subjects)
    BY <2>1, WithoutFirstOf
  <2>. QED  BY <1>2, <2>2
<1>. HIDE DEF q, n
<1>5. \A k \in 0..n : k # 0 => k \in 1..n /\ k - 1 \in 0..n
  BY <1>2
<1>6. result = R(result)
  <2>. HIDE DEF Pass
  <2>1. turn \in [(1..n) \X V -> V] /\ \A k \in 1..n, r \in V : turn[<<k, r>>] = Pass(k, r)
    BY <1>4
  <2>2. PICK f \in [0..n -> V] : Loop(f, n, reverseDeps, turn)
    <3>. HIDE DEF turn, V
    <3>. QED  BY <1>1, <1>2, <2>1, LoopExists
  <2>3. \A k \in 0..n : k # 0 => f[k - 1] \in V /\ turn[<<k, f[k - 1]>>] = Pass(k, f[k - 1])
    BY <1>5, <2>1, <2>2
  <2>4. f = R(f)
    <3>. HIDE DEF turn
    <3>. QED  BY <2>2, <2>3 DEF Loop
  <2>. HIDE DEF R
  <2>. QED  BY <2>4
<1>. HIDE DEF result
<1>7. result[0] = reverseDeps /\ \A k \in 1..n : result[k] = Pass(k, result[k - 1])
  <2>. HIDE DEF Pass
  <2>1. 0 \in 0..n /\ \A k \in 1..n : k \in 0..n /\ k # 0
    BY <1>2
  <2>. QED  BY <1>6, <2>1
<1>8. ASSUME NEW k \in 1..n, NEW r \in J[k - 1] PROVE Pass(k, r) \in J[k]
  <2>. DEFINE o == q[k]
              r2 == Pass(k, r)
  <2>1. k - 1 \in 0..n /\ k \in 0..n /\ o \in Observers
    BY <1>2
  <2>2. /\ r \in V
        /\ \A p \in Observers, t \in Subjects : Count(r[p], t) = Count(reverseDeps[p], t) - Gone(t, p, k - 1)
    BY <2>1
  <2>3. \A p \in Observers : /\ CountTo(q, k, p) = CountTo(q, k - 1, p) + (IF o = p THEN 1 ELSE 0)
                             /\ CountTo(q, k, p) <= Count(q, p)
                             /\ CountTo(q, k - 1, p) \in Nat /\ CountTo(q, k, p) \in Nat
    BY <1>1, CountToFacts DEF n
  <2>4. \A p \in Observers, t \in Subjects : Count(reverseDeps[p], t) \in Nat
    BY <1>1, CountOf
  <2>5. Contains(r[o], s)
    <3>1. Count(r[o], s) = Count(q, o) - CountTo(q, k - 1, o)
      BY <1>1, <2>1, <2>2 DEF q
    <3>2. Count(q, o) \in Nat
      BY <1>1, CountOf
    <3>3. Count(r[o], s) # 0
      BY <2>1, <2>3, <3>1, <3>2
    <3>4. r[o] \in Seq(Subjects)
      BY <2>1, <2>2
    <3>. QED  BY <3>3, <3>4, CountOf
  <2>6. r2 \in V
    BY <1>4, <2>2
  <2>7. ASSUME NEW p \in Observers, NEW t \in Subjects
        PROVE  Count(r2[p], t) = Count(reverseDeps[p], t) - Gone(t, p, k)
    <3>1. r2[p] = IF p = o THEN WithoutFirst(r[o], s) ELSE r[p]
      BY <2>1, <2>2
    <3>2. \A u : Count(WithoutFirst(r[o], s), u) = Count(r[o], u) - (IF u = s /\ Contains(r[o], s) THEN 1 ELSE 0)
      <4>1. r[o] \in Seq(Subjects)
        BY <2>1, <2>2
      <4>. QED  BY <4>1, WithoutFirstOf
    <3>3. Count(r[p], t) = Count(reverseDeps[p], t) - Gone(t, p, k - 1) /\ Count(reverseDeps[p], t) \in Nat
      BY <2>2, <2>4
    <3>4. Gone(t, p, k) = Gone(t, p, k - 1) + (IF t = s /\ p = o THEN 1 ELSE 0) /\ Gone(t, p, k - 1) \in Nat
      BY <2>3
    <3>5. Count(r2[p], t) = Count(r[p], t) - (IF t = s /\ p = o THEN 1 ELSE 0)
      <4>. HIDE DEF Gone, r2, Pass, o
      <4>. QED  BY <2>5, <3>1, <3>2, <3>3, <3>4
    <3>. HIDE DEF Gone, r2, Pass, o
    <3>. QED  BY <3>3, <3>4, <3>5
  <2>. HIDE DEF r2, o, Pass, Gone
  <2>. QED  BY <2>1, <2>6, <2>7 DEF r2
<1>9. reverseDeps \in J[0]
  <2>1. 0 \in 0..n
    BY <1>2
  <2>2. \A p \in Observers, t \in Subjects : Gone(t, p, 0) = 0 /\ Count(reverseDeps[p], t) \in Nat
    BY <1>1, CountToFacts, CountOf
  <2>. HIDE DEF Gone
  <2>. QED  BY <1>1, <2>1, <2>2
<1>10. result[n] \in J[n]
  <2>. HIDE DEF J, Pass
  <2>. QED  BY <1>2, <1>7, <1>8, <1>9, LoopInvariant
<1>11. /\ result[n] \in V
       /\ \A p \in Observers, t \in Subjects :
            Count(result[n][p], t) = Count(reverseDeps[p], t) - (IF t = s THEN Count(q, p) ELSE 0)
  <2>1. n \in 0..n
    BY <1>2
  <2>2. \A p \in Observers, t \in Subjects : Gone(t, p, n) = IF t = s THEN Count(q, p) ELSE 0
    BY <1>1, CountToFacts DEF n
  <2>. HIDE DEF Gone
  <2>. QED  BY <1>10, <2>1, <2>2
<1>. DEFINE deps2 == [deps EXCEPT ![s] = <<>>]
            reverse2 == result[n]
<1>12. deps2 \in [Subjects -> Seq(Observers)]
  BY <1>1
<1>13. ASSUME NEW t \in Subjects, NEW p \in Observers PROVE Count(deps2[t], p) = Count(reverse2[p], t)
  <2>1. Count(reverseDeps[p], t) = Count(deps[t], p) /\ Count(deps[t], p) \in Nat
    BY <1>1, CountOf
  <2>2. CASE t = s
    <3>1. deps2[t] = <<>> /\ <<>> \in Seq(Observers) /\ ~Contains(<<>>, p)
      BY <1>1, <2>2 DEF Contains
    <3>2. Count(deps2[t], p) = 0
      BY <3>1, CountOf
    <3>. QED  BY <1>11, <2>1, <2>2, <3>2 DEF q
  <2>3. CASE t # s
    <3>1. deps2[t] = deps[t]
      BY <1>1, <2>3
    <3>. QED  BY <1>11, <2>1, <2>3, <3>1
  <2>. QED  BY <2>2, <2>3
<1>. HIDE DEF deps2, reverse2
<1>14. [deps |-> deps2, reverse |-> reverse2] \in PairedLinks
  BY <1>11, <1>12, <1>13 DEF PairedLinks, Paired, LinkType, reverse2
<1>. QED  BY <1>3, <1>14 DEF deps2, reverse2

-----------------------------------------------------------------------------
(***************************************************************************)
(* The inductive invariant.  While notify() collects, an observer of a subject *)
(* reached is either found or still ahead in an open call for that subject.    *)
(* While it sorts, an in-degree counts the entries of subjects that are not    *)
(* sorted yet and what the loop at hand has still to take off.               *)
(***************************************************************************)
GraphInv ==
  /\ Links \in PairedLinks
  /\ bindings \in Seq(Types \X Observers) /\ known \in [Types -> Seq(Subjects)]
  /\ autoEdges \in SUBSET (Subjects \X Observers)

Frames == Seq([subject : Subjects, at : Nat \ {0}])

NotifyTypes ==
  /\ phase \in {"idle", "collecting", "queueing", "sorting", "updating"} /\ changed \in SUBSET Subjects
  /\ calls \in Frames /\ (phase # "collecting" => calls = <<>>)
  /\ affected \in Seq(Observers) /\ queue \in Seq(Observers)
  /\ ahead \in Seq(Observers) /\ sorted \in Seq(Observers)
  /\ degree \in [Observers -> Nat]

Reached == changed \cup (ToSet(affected) \cap Subjects)
Open(x, i) == \E c \in 1..Len(calls) : calls[c].subject = x /\ calls[c].at <= i

CollectInv ==
  /\ IsInjective(affected)
  /\ \A c \in 1..Len(calls) : calls[c].subject \in Reached
  /\ \A x \in Reached : \A i \in 1..Len(deps[x]) : deps[x][i] \in ToSet(affected) \/ Open(x, i)
  /\ \A S \in SUBSET Observers : ClosedUnderChange(S) => ToSet(affected) \subseteq S

\* The entries of o's subjects that are affected and not sorted yet.
Pending(o) ==
  {i \in 1..Len(reverseDeps[o]) : reverseDeps[o][i] \in ToSet(affected) /\ reverseDeps[o][i] \notin ToSet(sorted)}

Once ==
  /\ IsInjective(sorted) /\ IsInjective(queue) /\ ToSet(sorted) \cap ToSet(queue) = {}
  /\ ToSet(sorted) \cup ToSet(queue) \subseteq ToSet(affected)

QueueInv ==
  /\ sorted = <<>> /\ IsInjective(ahead) /\ ToSet(ahead) \subseteq ToSet(affected)
  /\ \A o \in ToSet(affected) : degree[o] = Cardinality(Pending(o))
  /\ \A o \in ToSet(affected) : o \in ToSet(queue) <=> degree[o] = 0 /\ o \notin ToSet(ahead)

InOrder == \A j \in 1..Len(sorted) : Before(sorted[j]) \subseteq {sorted[i] : i \in 1..(j - 1)}

SortInv ==
  /\ InOrder
  /\ \A o \in ToSet(affected) : degree[o] = Cardinality(Pending(o)) + Count(ahead, o)
  /\ \A o \in ToSet(affected) : degree[o] = 0 <=> o \in ToSet(sorted) \cup ToSet(queue)

NotifyInv ==
  /\ (phase = "collecting" => queue = <<>> /\ sorted = <<>>)
  /\ (phase # "idle" => CollectInv)
  /\ (phase \in {"queueing", "sorting"} => Once)
  /\ (phase = "queueing" => QueueInv)
  /\ (phase = "sorting" => SortInv)
  /\ UpdatesInOrder

Inv == GraphInv /\ NotifyTypes /\ NotifyInv

-----------------------------------------------------------------------------
(***************************************************************************)
(* The calls that change the graph.                                        *)
(***************************************************************************)
LEMMA Relinked ==
  ASSUME NEW links \in PairedLinks, Relink(links)
  PROVE  Links' \in PairedLinks
<1>1. links = [deps |-> links.deps, reverse |-> links.reverse]
  BY DEF PairedLinks, LinkType
<1>2. Links' = links
  BY <1>1 DEF Relink, Links
<1>. QED  BY <1>2

LEMMA WithoutSome ==
  ASSUME NEW S, NEW q \in Seq(S), NEW x
  PROVE  WithoutFirst(q, x) \in Seq(S)
BY WithoutFirstOf

LEMMA MadeNow ==
  ASSUME GraphInv
  PROVE  [links |-> Links, auto |-> autoEdges] \in Made
BY DEF GraphInv, Made

LEMMA MadeParts ==
  ASSUME NEW made \in Made
  PROVE  made.links \in PairedLinks /\ made.auto \in SUBSET (Subjects \X Observers)
BY DEF Made

LEMMA GraphStep ==
  ASSUME GraphInv, [Next]_changeVars
  PROVE  GraphInv'
<1>. USE ChangeGraphAssumption
<1>1. ASSUME UNCHANGED graphVars PROVE GraphInv'
  BY <1>1 DEF GraphInv, graphVars, Links, PairedLinks, Paired, LinkType, Count
<1>2. ASSUME NEW s \in Subjects, NEW o \in Observers, Register(s, o) PROVE GraphInv'
  <2>1. Links' \in PairedLinks
    <3>1. Link(Links, s, o) \in PairedLinks
      BY LinkPaired DEF GraphInv
    <3>. QED  BY <1>2, <3>1, Relinked DEF Register
  <2>. QED  BY <1>2, <2>1 DEF Register, GraphInv
<1>3. ASSUME NEW s \in Subjects, NEW o \in Observers, Unregister(s, o) PROVE GraphInv'
  <2>1. Links' \in PairedLinks
    <3>1. Unlink(Links, s, o) \in PairedLinks
      BY UnlinkPaired DEF GraphInv
    <3>. QED  BY <1>3, <3>1, Relinked DEF Unregister
  <2>. QED  BY <1>3, <2>1 DEF Unregister, GraphInv
<1>4. ASSUME NEW s \in Subjects, UnregisterAll(s) PROVE GraphInv'
  <2>1. Links' \in PairedLinks
    <3>1. WithoutSubject(s) \in PairedLinks
      BY WithoutSubjectPaired DEF GraphInv
    <3>. QED  BY <1>4, <3>1, Relinked DEF UnregisterAll
  <2>. QED  BY <1>4, <2>1 DEF UnregisterAll, GraphInv
<1>5. ASSUME NEW pairs \in Seq(Subjects \X Observers), NEW wanted, MakeAutoEdges(pairs, wanted)
      PROVE  Links' \in PairedLinks /\ autoEdges' \in SUBSET (Subjects \X Observers)
  <2>1. AutoLinked(pairs, wanted) \in Made
    BY MadeNow, AutoLinkedMade
  <2>2. AutoLinked(pairs, wanted).links \in PairedLinks /\ AutoLinked(pairs, wanted).auto \in SUBSET (Subjects \X Observers)
    BY <2>1, MadeParts
  <2>. QED  BY <1>5, <2>2, Relinked DEF MakeAutoEdges
<1>6. ASSUME NEW s \in DOMAIN TypeOf, AddSubject(s) PROVE GraphInv'
  <2>. DEFINE pairs == [i \in DOMAIN bindings |-> <<s, bindings[i][2]>>]
              bound == {i \in DOMAIN bindings : bindings[i][1] = TypeOf[s] /\ bindings[i][2] # s}
  <2>1. MakeAutoEdges(pairs, bound) /\ bindings' = bindings /\ known' = [known EXCEPT ![TypeOf[s]] = Append(@, s)]
    BY <1>6 DEF AddSubject
  <2>2. s \in Subjects /\ TypeOf[s] \in Types
    BY DEF Types
  <2>3. bindings \in Seq(Types \X Observers) /\ known \in [Types -> Seq(Subjects)]
    BY DEF GraphInv
  <2>4. pairs \in Seq(Subjects \X Observers)
    <3>1. Len(bindings) \in Nat /\ DOMAIN bindings = 1..Len(bindings) /\ \A i \in 1..Len(bindings) : bindings[i] \in Types \X Observers
      BY <2>3, SeqFacts
    <3>2. \A i \in 1..Len(bindings) : <<s, bindings[i][2]>> \in Subjects \X Observers
      BY <2>2, <3>1
    <3>. QED  BY <3>1, <3>2
  <2>5. Links' \in PairedLinks /\ autoEdges' \in SUBSET (Subjects \X Observers)
    <3>. HIDE DEF pairs, bound
    <3>. QED  BY <1>5, <2>1, <2>4
  <2>6. known' \in [Types -> Seq(Subjects)]
    <3>1. known[TypeOf[s]] \in Seq(Subjects)
      BY <2>2, <2>3
    <3>2. Append(known[TypeOf[s]], s) \in Seq(Subjects)
      BY <2>2, <3>1, AppendFacts
    <3>. QED  BY <2>1, <2>2, <2>3, <3>2
  <2>. QED  BY <2>1, <2>3, <2>5, <2>6 DEF GraphInv
<1>7. ASSUME NEW s \in DOMAIN TypeOf, RemoveSubject(s) PROVE GraphInv'
  <2>1. s \in Subjects /\ TypeOf[s] \in Types
    BY DEF Types
  <2>2. Links' \in PairedLinks
    <3>1. WithoutSubject(s) \in PairedLinks
      BY <2>1, WithoutSubjectPaired DEF GraphInv
    <3>. QED  BY <1>7, <3>1, Relinked DEF RemoveSubject
  <2>3. known' \in [Types -> Seq(Subjects)]
    <3>1. known \in [Types -> Seq(Subjects)] /\ known[TypeOf[s]] \in Seq(Subjects)
      BY <2>1 DEF GraphInv
    <3>2. WithoutFirst(known[TypeOf[s]], s) \in Seq(Subjects)
      BY <3>1, WithoutSome
    <3>3. known' = [known EXCEPT ![TypeOf[s]] = WithoutFirst(@, s)]
      BY <1>7 DEF RemoveSubject
    <3>. QED  BY <2>1, <3>1, <3>2, <3>3
  <2>. QED  BY <1>7, <2>2, <2>3 DEF RemoveSubject, GraphInv
<1>8. ASSUME NEW t \in Types, NEW o \in Observers, RegisterByType(t, o) PROVE GraphInv'
  <2>. DEFINE pairs == [i \in DOMAIN known[t] |-> <<known[t][i], o>>]
  <2>1. MakeAutoEdges(pairs, DOMAIN known[t]) /\ bindings' = Append(bindings, <<t, o>>) /\ known' = known
    BY <1>8 DEF RegisterByType
  <2>2. bindings \in Seq(Types \X Observers) /\ known \in [Types -> Seq(Subjects)] /\ known[t] \in Seq(Subjects)
    BY DEF GraphInv
  <2>3. pairs \in Seq(Subjects \X Observers)
    <3>1. Len(known[t]) \in Nat /\ DOMAIN known[t] = 1..Len(known[t]) /\ \A i \in 1..Len(known[t]) : known[t][i] \in Subjects
      BY <2>2, SeqFacts
    <3>2. \A i \in 1..Len(known[t]) : <<known[t][i], o>> \in Subjects \X Observers
      BY <3>1
    <3>. QED  BY <3>1, <3>2
  <2>4. Links' \in PairedLinks /\ autoEdges' \in SUBSET (Subjects \X Observers)
    <3>. HIDE DEF pairs
    <3>. QED  BY <1>5, <2>1, <2>3
  <2>5. Append(bindings, <<t, o>>) \in Seq(Types \X Observers)
    BY <2>2, AppendFacts
  <2>. QED  BY <2>1, <2>2, <2>4, <2>5 DEF GraphInv
<1>9. ASSUME NEW t \in Types, NEW o \in Observers, UnregisterByType(t, o) PROVE GraphInv'
  <2>1. AutoUnlinked(known[t], o) \in Made
    <3>1. known[t] \in Seq(Subjects)
      BY DEF GraphInv
    <3>. QED  BY <3>1, MadeNow, AutoUnlinkedMade
  <2>2. Relink(AutoUnlinked(known[t], o).links) /\ autoEdges' = AutoUnlinked(known[t], o).auto
    BY <1>9 DEF UnregisterByType
  <2>3. Links' \in PairedLinks /\ autoEdges' \in SUBSET (Subjects \X Observers)
    BY <2>1, <2>2, MadeParts, Relinked
  <2>4. bindings' \in Seq(Types \X Observers)
    <3>1. bindings \in Seq(Types \X Observers) /\ bindings' = WithoutFirst(bindings, <<t, o>>)
      BY <1>9 DEF GraphInv, UnregisterByType
    <3>. QED  BY <3>1, WithoutSome
  <2>. QED  BY <1>9, <2>3, <2>4 DEF UnregisterByType, GraphInv
<1>10. ASSUME NEW s \in Subjects, Notify(s) PROVE GraphInv'
  BY <1>1, <1>10 DEF Notify
<1>11. ASSUME Turn PROVE GraphInv'
  BY <1>1, <1>11 DEF Turn, Visit, Return, TopoSort, Enqueue, TakeNode, Relax, Sorted
<1>12. ASSUME UNCHANGED changeVars PROVE GraphInv'
  BY <1>1, <1>12 DEF changeVars
<1>. QED  BY <1>2, <1>3, <1>4, <1>6, <1>7, <1>8, <1>9, <1>10, <1>11, <1>12 DEF Next

-----------------------------------------------------------------------------
(***************************************************************************)
(* The turns of a notification: the types.                                   *)
(***************************************************************************)
LEMMA GraphTypes ==
  ASSUME GraphInv
  PROVE  /\ deps \in [Subjects -> Seq(Observers)] /\ reverseDeps \in [Observers -> Seq(Subjects)]
         /\ BothDirections
BY DEF GraphInv, PairedLinks, Paired, LinkType, Links, BothDirections

LEMMA LastCall ==
  ASSUME GraphInv, NotifyTypes, calls # <<>>
  PROVE  /\ Last(calls) \in [subject : Subjects, at : Nat \ {0}] /\ Last(calls) = calls[Len(calls)]
         /\ Len(calls) \in Nat /\ Len(calls) >= 1
         /\ Observed \in Seq(Observers)
         /\ NextCall \in Frames /\ Len(NextCall) = Len(calls)
         /\ \A c \in 1..(Len(calls) - 1) : NextCall[c] = calls[c]
         /\ NextCall[Len(calls)].subject = Last(calls).subject /\ NextCall[Len(calls)].at = Last(calls).at + 1
<1>. DEFINE F == [subject : Subjects, at : Nat \ {0}]
            last == Last(calls)
            next == [last EXCEPT !.at = @ + 1]
            front == Front(calls)
<1>1. calls \in Seq(F)
  BY DEF NotifyTypes, Frames
<1>2. /\ front \in Seq(F) /\ Len(front) = Len(calls) - 1 /\ \A c \in 1..(Len(calls) - 1) : front[c] = calls[c]
      /\ last \in F /\ last = calls[Len(calls)] /\ Len(calls) \in Nat /\ Len(calls) >= 1
  <2>. HIDE DEF F
  <2>. QED  BY <1>1, EndFacts
<1>3. next \in F /\ next.subject = last.subject /\ next.at = last.at + 1
  BY <1>2
<1>4. Observed \in Seq(Observers)
  BY <1>2, GraphTypes DEF Observed
<1>5. NextCall = Append(front, next)
  BY DEF NextCall
<1>. HIDE DEF F, last, next, front
<1>6. /\ NextCall \in Seq(F) /\ Len(NextCall) = Len(front) + 1 /\ NextCall[Len(front) + 1] = next
      /\ \A c \in 1..Len(front) : NextCall[c] = front[c]
  BY <1>2, <1>3, <1>5, AppendFacts
<1>7. Len(front) + 1 = Len(calls)
  BY <1>2
<1>. QED  BY <1>2, <1>3, <1>4, <1>6, <1>7 DEF Frames, F, last

LEMMA BeginTypes ==
  ASSUME NEW doing \in {"idle", "collecting"}, NEW subjects \in SUBSET Subjects, NEW first \in Frames,
         doing = "idle" => first = <<>>, Begin(doing, subjects, first)
  PROVE  NotifyTypes'
<1>1. calls' \in Frames
  BY DEF Begin
<1>2. degree' \in [Observers -> Nat]
  BY DEF Begin
<1>. QED  BY <1>1, <1>2 DEF Begin, NotifyTypes

LEMMA TypeStep ==
  ASSUME GraphInv, NotifyTypes, NotifyInv, [Next]_changeVars
  PROVE  NotifyTypes'
<1>1. ASSUME Call PROVE NotifyTypes'
  <2>1. <<>> \in Frames
    BY DEF Frames
  <2>. QED  BY <1>1, <2>1, BeginTypes DEF Call
<1>2. ASSUME NEW s \in Subjects, Notify(s) PROVE NotifyTypes'
  <2>1. <<[subject |-> s, at |-> 1]>> \in Frames
    <3>1. [subject |-> s, at |-> 1] \in [subject : Subjects, at : Nat \ {0}]
      OBVIOUS
    <3>. QED  BY <3>1 DEF Frames
  <2>. QED  BY <1>2, <2>1, BeginTypes DEF Notify
<1>3. CASE Visit
  <2>. DEFINE o == Observed[Last(calls).at]
  <2>1. /\ phase = "collecting" /\ calls # <<>> /\ Last(calls).at <= Len(Observed)
        /\ UNCHANGED <<phase, changed, degree, queue, ahead, sorted>>
        /\ \/ affected' = affected /\ calls' = NextCall
           \/ /\ affected' = Append(affected, o)
              /\ calls' = IF o \in Subjects THEN Append(NextCall, [subject |-> o, at |-> 1]) ELSE NextCall
    BY <1>3 DEF Visit
  <2>2. NextCall \in Frames /\ Observed \in Seq(Observers) /\ Last(calls).at \in Nat \ {0}
    BY <2>1, LastCall
  <2>3. o \in Observers
    BY <2>1, <2>2
  <2>. HIDE DEF o
  <2>4. Append(affected, o) \in Seq(Observers)
    BY <2>3, AppendFacts DEF NotifyTypes
  <2>5. ASSUME o \in Subjects PROVE Append(NextCall, [subject |-> o, at |-> 1]) \in Frames
    <3>1. [subject |-> o, at |-> 1] \in [subject : Subjects, at : Nat \ {0}]
      BY <2>5
    <3>. QED  BY <2>2, <3>1, AppendFacts DEF Frames
  <2>6. calls' \in Frames /\ affected' \in Seq(Observers)
    BY <2>1, <2>2, <2>4, <2>5 DEF NotifyTypes
  <2>. QED  BY <2>1, <2>6 DEF NotifyTypes
<1>4. CASE Return
  <2>1. Front(calls) \in Frames
    BY <1>4, EndFacts DEF Return, NotifyTypes, Frames
  <2>. QED  BY <1>4, <2>1 DEF Return, NotifyTypes
<1>5. CASE TopoSort
  <2>1. ASSUME NEW o \in Observers PROVE InDegree(o) \in Nat
    <3>1. reverseDeps[o] \in Seq(Subjects)
      BY GraphTypes
    <3>2. Len(reverseDeps[o]) \in Nat /\ DOMAIN reverseDeps[o] = 1..Len(reverseDeps[o])
      BY <3>1, SeqFacts
    <3>3. IsFiniteSet(1..Len(reverseDeps[o]))
      BY <3>2, FS_Interval
    <3>. QED  BY <3>2, <3>3, FS_Subset, FS_CardinalityType DEF InDegree
  <2>2. degree' \in [Observers -> Nat]
    BY <1>5, <2>1 DEF TopoSort
  <2>. QED  BY <1>5, <2>2 DEF TopoSort, NotifyTypes
<1>6. CASE Enqueue
  <2>1. Tail(ahead) \in Seq(Observers) /\ Head(ahead) \in Observers
    BY <1>6, TailFacts DEF Enqueue, NotifyTypes
  <2>2. Append(queue, Head(ahead)) \in Seq(Observers)
    BY <2>1, AppendFacts DEF NotifyTypes
  <2>. QED  BY <1>6, <2>1, <2>2 DEF Enqueue, NotifyTypes
<1>7. CASE TakeNode
  <2>1. Tail(queue) \in Seq(Observers) /\ Head(queue) \in Observers
    BY <1>7, TailFacts DEF TakeNode, NotifyTypes
  <2>2. Append(sorted, Head(queue)) \in Seq(Observers)
    BY <2>1, AppendFacts DEF NotifyTypes
  <2>3. ahead' \in Seq(Observers)
    BY <1>7, GraphTypes DEF TakeNode
  <2>. QED  BY <1>7, <2>1, <2>2, <2>3 DEF TakeNode, NotifyTypes
<1>8. CASE Relax
  <2>. DEFINE o == Head(ahead)
  <2>1. Tail(ahead) \in Seq(Observers) /\ o \in Observers /\ ahead # <<>> /\ phase = "sorting"
    BY <1>8, TailFacts DEF Relax, NotifyTypes
  <2>2. Append(queue, o) \in Seq(Observers)
    BY <2>1, AppendFacts DEF NotifyTypes
  <2>3. degree' \in [Observers -> Nat]
    <3>1. CASE ~Contains(affected, o)
      BY <1>8, <3>1 DEF Relax, NotifyTypes
    <3>2. CASE Contains(affected, o)
      <4>1. degree' = [degree EXCEPT ![o] = @ - 1]
        BY <1>8, <3>2 DEF Relax
      <4>2. degree[o] = Cardinality(Pending(o)) + Count(ahead, o)
        <5>1. o \in ToSet(affected)
          BY <3>2, ToSetOf DEF NotifyTypes
        <5>. QED  BY <2>1, <5>1 DEF NotifyInv, SortInv
      <4>3. Count(ahead, o) = Count(Tail(ahead), o) + 1 /\ Count(Tail(ahead), o) \in Nat
        BY <2>1, CountTail, CountOf DEF NotifyTypes
      <4>4. Cardinality(Pending(o)) \in Nat
        <5>1. Len(reverseDeps[o]) \in Nat
          BY <2>1, GraphTypes, SeqFacts
        <5>2. IsFiniteSet(1..Len(reverseDeps[o]))
          BY <5>1, FS_Interval
        <5>. QED  BY <5>2, FS_Subset, FS_CardinalityType DEF Pending
      <4>5. degree[o] - 1 \in Nat /\ degree \in [Observers -> Nat]
        BY <4>2, <4>3, <4>4 DEF NotifyTypes
      <4>. QED  BY <4>1, <4>5
    <3>. QED  BY <3>1, <3>2
  <2>4. queue' \in Seq(Observers)
    BY <1>8, <2>2 DEF Relax, NotifyTypes
  <2>. QED  BY <1>8, <2>1, <2>3, <2>4 DEF Relax, NotifyTypes
<1>9. CASE Sorted
  BY <1>9 DEF Sorted, NotifyTypes
<1>10. CASE UNCHANGED changeVars
  BY <1>10 DEF changeVars, notifyVars, NotifyTypes
<1>. QED  BY <1>1, <1>2, <1>3, <1>4, <1>5, <1>6, <1>7, <1>8, <1>9, <1>10
          DEF Next, Turn, Register, Unregister, UnregisterAll, AddSubject, RemoveSubject, RegisterByType, UnregisterByType

LEMMA InjectiveSeq ==
  ASSUME NEW S, NEW q \in Seq(S)
  PROVE  IsInjective(q) <=> \A i, j \in 1..Len(q) : q[i] = q[j] => i = j
BY SeqFacts DEF IsInjective

LEMMA NoEntries ==
  ASSUME NEW S, NEW q \in Seq(S), Len(q) = 0
  PROVE  IsInjective(q) /\ ToSet(q) = {}
<1>1. 1..Len(q) = {}
  OBVIOUS
<1>2. IsInjective(q)
  BY <1>1, InjectiveSeq
<1>3. ToSet(q) = {q[i] : i \in 1..Len(q)}
  BY ToSetOf
<1>. QED  BY <1>1, <1>2, <1>3

LEMMA InjectiveAppend ==
  ASSUME NEW S, NEW q \in Seq(S), NEW x \in S, IsInjective(q), x \notin ToSet(q)
  PROVE  IsInjective(Append(q, x))
<1>. DEFINE r == Append(q, x)
            n == Len(q)
<1>1. n \in Nat /\ \A i, j \in 1..n : q[i] = q[j] => i = j
  BY SeqFacts, InjectiveSeq
<1>2. \A i \in 1..n : q[i] # x
  BY ToSetOf
<1>3. r \in Seq(S) /\ Len(r) = n + 1 /\ r[n + 1] = x /\ \A i \in 1..n : r[i] = q[i]
  BY AppendFacts
<1>4. \A i \in 1..(n + 1) : i = n + 1 \/ i \in 1..n
  BY <1>1
<1>. HIDE DEF r, n
<1>5. \A i, j \in 1..Len(r) : r[i] = r[j] => i = j
  BY <1>1, <1>2, <1>3, <1>4
<1>6. IsInjective(r)
  BY <1>3, <1>5, InjectiveSeq
<1>. QED  BY <1>6 DEF r

LEMMA ToSetTail ==
  ASSUME NEW S, NEW q \in Seq(S), q # <<>>
  PROVE  /\ ToSet(q) = {Head(q)} \cup ToSet(Tail(q))
         /\ IsInjective(q) => IsInjective(Tail(q)) /\ Head(q) \notin ToSet(Tail(q))
<1>. DEFINE r == Tail(q)
            n == Len(q)
<1>1. /\ r \in Seq(S) /\ Len(r) = n - 1 /\ \A i \in 1..(n - 1) : r[i] = q[i + 1]
      /\ Head(q) = q[1] /\ n \in Nat /\ n >= 1
  BY TailFacts
<1>2. \A i \in 1..n : i = 1 \/ (i - 1 \in 1..(n - 1) /\ (i - 1) + 1 = i)
  BY <1>1
<1>3. 1 \in 1..n /\ \A i \in 1..(n - 1) : i + 1 \in 1..n /\ i + 1 # 1
  BY <1>1
<1>4. \A i, j \in 1..(n - 1) : i + 1 = j + 1 => i = j
  OBVIOUS
<1>5. ToSet(q) = {q[i] : i \in 1..n} /\ ToSet(r) = {r[i] : i \in 1..(n - 1)}
  BY <1>1, ToSetOf
<1>. HIDE DEF r, n
<1>6. ToSet(q) = {Head(q)} \cup ToSet(r)
  <2>1. \A i \in 1..n : q[i] = Head(q) \/ \E j \in 1..(n - 1) : q[i] = r[j]
    BY <1>1, <1>2
  <2>2. {Head(q)} \cup ToSet(r) \subseteq ToSet(q)
    BY <1>1, <1>3, <1>5
  <2>. QED  BY <1>5, <2>1, <2>2
<1>7. ASSUME IsInjective(q) PROVE IsInjective(r) /\ Head(q) \notin ToSet(r)
  <2>1. \A i, j \in 1..n : q[i] = q[j] => i = j
    BY <1>7, InjectiveSeq DEF n
  <2>2. \A i, j \in 1..Len(r) : r[i] = r[j] => i = j
    BY <1>1, <1>3, <1>4, <2>1
  <2>3. IsInjective(r)
    BY <1>1, <2>2, InjectiveSeq
  <2>. QED  BY <1>1, <1>3, <1>5, <2>1, <2>3
<1>. QED  BY <1>6, <1>7 DEF r

-----------------------------------------------------------------------------
(***************************************************************************)
(* _collect_affected(): what is found, and what open calls have still to find. *)
(***************************************************************************)
LEMMA CollectSame ==
  ASSUME CollectInv, UNCHANGED <<deps, changed, calls, affected>>
  PROVE  CollectInv'
BY DEF CollectInv, Reached, Open, ClosedUnderChange

LEMMA CollectNotify ==
  ASSUME GraphInv, NEW s \in Subjects, Notify(s)
  PROVE  CollectInv'
<1>1. /\ changed' = {s} /\ affected' = <<>> /\ calls' = <<[subject |-> s, at |-> 1]>>
      /\ deps' = deps /\ deps \in [Subjects -> Seq(Observers)]
  BY GraphTypes DEF Notify, Begin, graphVars
<1>2. IsInjective(affected') /\ ToSet(affected') = {}
  <2>1. affected' \in Seq(Observers) /\ Len(affected') = 0
    BY <1>1
  <2>. QED  BY <2>1, NoEntries
<1>3. Reached' = {s}
  BY <1>1, <1>2 DEF Reached
<1>4. Len(calls') = 1 /\ calls'[1].subject = s /\ calls'[1].at = 1
  BY <1>1
<1>5. \A c \in 1..Len(calls') : calls'[c].subject \in Reached'
  BY <1>3, <1>4
<1>6. \A i \in 1..Len(deps'[s]) : Open(s, i)'
  BY <1>4 DEF Open
<1>. QED  BY <1>1, <1>2, <1>3, <1>5, <1>6 DEF CollectInv

LEMMA CollectVisit ==
  ASSUME GraphInv, NotifyTypes, CollectInv, Visit
  PROVE  CollectInv'
<1>. DEFINE o == Observed[Last(calls).at]
            x0 == Last(calls).subject
            n == Len(calls)
            found == ToSet(affected)
<1>1. /\ calls # <<>> /\ Last(calls).at <= Len(Observed) /\ deps' = deps /\ changed' = changed
      /\ \/ Contains(affected, o) /\ affected' = affected /\ calls' = NextCall
         \/ /\ ~Contains(affected, o) /\ affected' = Append(affected, o)
            /\ calls' = IF o \in Subjects THEN Append(NextCall, [subject |-> o, at |-> 1]) ELSE NextCall
  BY DEF Visit, graphVars
<1>2. /\ x0 \in Subjects /\ Last(calls).at \in Nat \ {0} /\ Last(calls) = calls[n] /\ n \in Nat /\ n >= 1
      /\ Observed \in Seq(Observers) /\ NextCall \in Frames /\ Len(NextCall) = n
      /\ \A c \in 1..(n - 1) : NextCall[c] = calls[c]
      /\ NextCall[n].subject = x0 /\ NextCall[n].at = Last(calls).at + 1
  BY <1>1, LastCall
<1>3. Last(calls).at \in 1..Len(Observed) /\ o \in Observers /\ Observed = deps[x0] /\ Len(Observed) \in Nat
  BY <1>1, <1>2 DEF Observed
<1>4. affected \in Seq(Observers) /\ changed \in SUBSET Subjects /\ (Contains(affected, o) <=> o \in found)
  BY ToSetOf DEF NotifyTypes
<1>5. x0 \in Reached
  <2>1. n \in 1..n
    BY <1>2
  <2>. QED  BY <1>2, <2>1 DEF CollectInv
<1>. HIDE DEF o, n
<1>6. ToSet(affected)' = found \cup {o} /\ IsInjective(affected')
  <2>1. CASE o \in found
    BY <1>1, <1>4, <2>1 DEF CollectInv
  <2>2. CASE o \notin found
    <3>1. affected' = Append(affected, o)
      BY <1>1, <1>4, <2>2
    <3>2. ToSet(Append(affected, o)) = found \cup {o}
      BY <1>3, <1>4, ToSetAppend
    <3>3. IsInjective(Append(affected, o))
      BY <1>3, <1>4, <2>2, InjectiveAppend DEF CollectInv
    <3>. QED  BY <3>1, <3>2, <3>3
  <2>. QED  BY <2>1, <2>2
<1>7. Reached' = Reached \cup ({o} \cap Subjects)
  BY <1>1, <1>6 DEF Reached
<1>8. /\ Len(calls') \in Nat /\ Len(calls') >= n /\ \A c \in 1..n : calls'[c] = NextCall[c]
      /\ \A c \in 1..Len(calls') : c \in 1..n \/ (calls'[c].subject = o /\ o \in Subjects)
      /\ (o \in Subjects /\ o \notin found => Len(calls') = n + 1 /\ calls'[n + 1].subject = o /\ calls'[n + 1].at = 1)
  <2>1. CASE o \in found \/ o \notin Subjects
    BY <1>1, <1>2, <1>4, <2>1
  <2>2. CASE o \notin found /\ o \in Subjects
    <3>. DEFINE frame == [subject |-> o, at |-> 1]
    <3>1. calls' = Append(NextCall, frame) /\ frame \in [subject : Subjects, at : Nat \ {0}]
      BY <1>1, <1>4, <2>2
    <3>2. frame.subject = o /\ frame.at = 1
      OBVIOUS
    <3>. HIDE DEF frame
    <3>3. Len(calls') = n + 1 /\ calls'[n + 1] = frame /\ \A c \in 1..n : calls'[c] = NextCall[c]
      BY <1>2, <3>1, AppendFacts DEF Frames
    <3>4. \A c \in 1..(n + 1) : c \in 1..n \/ c = n + 1
      BY <1>2
    <3>. QED  BY <1>2, <2>2, <3>2, <3>3, <3>4
  <2>. QED  BY <2>1, <2>2
<1>9. \A c \in 1..n : NextCall[c].subject = calls[c].subject
  <2>1. \A c \in 1..n : c \in 1..(n - 1) \/ c = n
    BY <1>2
  <2>. QED  BY <1>2, <2>1
<1>10. ASSUME NEW c \in 1..Len(calls') PROVE calls'[c].subject \in Reached'
  <2>1. CASE c \in 1..n
    <3>1. calls'[c].subject = calls[c].subject
      BY <1>8, <1>9, <2>1
    <3>2. calls[c].subject \in Reached
      BY <2>1 DEF CollectInv, n
    <3>. QED  BY <1>7, <3>1, <3>2
  <2>2. CASE c \notin 1..n
    BY <1>7, <1>8, <2>2
  <2>. QED  BY <2>1, <2>2
<1>11. ASSUME NEW x \in Reached', NEW i \in 1..Len(deps[x]), deps[x][i] \notin found \cup {o}
       PROVE  Open(x, i)'
  <2>1. CASE x \in Reached
    <3>1. PICK c \in 1..n : calls[c].subject = x /\ calls[c].at <= i
      BY <1>11, <2>1 DEF CollectInv, Open, n
    <3>2. c \in 1..Len(calls') /\ calls'[c] = NextCall[c]
      <4>1. Len(calls') \in Nat /\ Len(calls') >= n /\ calls'[c] = NextCall[c]
        BY <1>8
      <4>. QED  BY <1>2, <4>1
    <3>3. CASE c \in 1..(n - 1)
      BY <1>2, <3>1, <3>2, <3>3 DEF Open
    <3>4. CASE c = n
      <4>1. x = x0 /\ Last(calls).at <= i
        BY <1>2, <3>1, <3>4
      <4>2. i # Last(calls).at
        BY <1>3, <1>11, <4>1 DEF o
      <4>3. i \in Nat
        BY <1>3, <4>1
      <4>4. Last(calls).at + 1 <= i
        BY <1>2, <4>1, <4>2, <4>3
      <4>. QED  BY <1>2, <3>2, <3>4, <4>1, <4>4 DEF Open
    <3>. QED  BY <1>2, <3>3, <3>4
  <2>2. CASE x \notin Reached
    <3>1. x = o /\ o \in Subjects /\ o \notin found
      BY <1>7, <2>2 DEF Reached
    <3>2. n + 1 \in 1..Len(calls') /\ calls'[n + 1].subject = x /\ calls'[n + 1].at = 1
      BY <1>2, <1>8, <3>1
    <3>3. 1 <= i
      <4>1. deps[x] \in Seq(Observers)
        BY <3>1, GraphTypes
      <4>2. Len(deps[x]) \in Nat
        BY <4>1, SeqFacts
      <4>. QED  BY <4>2
    <3>. QED  BY <3>2, <3>3 DEF Open
  <2>. QED  BY <2>1, <2>2
<1>12. ASSUME NEW S \in SUBSET Observers, ClosedUnderChange(S)' PROVE found \cup {o} \subseteq S
  <2>1. ClosedUnderChange(S)
    BY <1>1, <1>12 DEF ClosedUnderChange
  <2>2. found \subseteq S
    BY <2>1 DEF CollectInv
  <2>3. ToSet(deps[x0]) \subseteq S
    BY <1>5, <2>1, <2>2 DEF ClosedUnderChange, Reached
  <2>4. o \in ToSet(deps[x0])
    BY <1>2, <1>3, ToSetOf DEF o
  <2>. QED  BY <2>2, <2>3, <2>4
<1>. HIDE DEF found
<1>. QED  BY <1>1, <1>6, <1>10, <1>11, <1>12 DEF CollectInv

LEMMA CollectReturn ==
  ASSUME GraphInv, NotifyTypes, CollectInv, Return
  PROVE  CollectInv'
<1>. DEFINE n == Len(calls)
<1>1. /\ calls # <<>> /\ Last(calls).at > Len(Observed) /\ calls' = Front(calls)
      /\ deps' = deps /\ changed' = changed /\ affected' = affected
  BY DEF Return, graphVars
<1>2. Len(calls') = n - 1 /\ \A c \in 1..(n - 1) : calls'[c] = calls[c]
  BY <1>1, EndFacts DEF NotifyTypes, Frames
<1>3. /\ Last(calls) = calls[n] /\ Last(calls).at \in Nat /\ Last(calls).subject \in Subjects /\ n \in Nat /\ n >= 1
      /\ Observed = deps[Last(calls).subject] /\ Len(Observed) \in Nat
  BY <1>1, LastCall DEF Observed
<1>4. \A c \in 1..(n - 1) : c \in 1..n
  BY <1>3
<1>. HIDE DEF n
<1>5. Reached' = Reached
  BY <1>1 DEF Reached
<1>6. \A c \in 1..Len(calls') : calls'[c].subject \in Reached
  BY <1>2, <1>4 DEF CollectInv, n
<1>7. ASSUME NEW x \in Reached, NEW i \in 1..Len(deps[x]), Open(x, i) PROVE Open(x, i)'
  <2>1. PICK c \in 1..n : calls[c].subject = x /\ calls[c].at <= i
    BY <1>7 DEF Open, n
  <2>2. c # n
    <3>. SUFFICES ASSUME c = n PROVE FALSE
      OBVIOUS
    <3>1. x = Last(calls).subject /\ Last(calls).at <= i
      BY <1>3, <2>1
    <3>2. i \in 1..Len(Observed)
      BY <1>3, <3>1
    <3>. QED  BY <1>1, <1>3, <3>1, <3>2
  <2>3. c \in 1..(n - 1)
    BY <1>3, <2>2
  <2>. QED  BY <1>2, <2>1, <2>3 DEF Open
<1>. QED  BY <1>1, <1>5, <1>6, <1>7 DEF CollectInv, ClosedUnderChange

LEMMA CollectStep ==
  ASSUME GraphInv, NotifyTypes, NotifyInv, [Next]_changeVars
  PROVE  phase' # "idle" => CollectInv'
<1>1. ASSUME Call PROVE phase' = "idle"
  BY <1>1 DEF Call, Begin
<1>2. ASSUME NEW s \in Subjects, Notify(s) PROVE CollectInv'
  BY <1>2, CollectNotify
<1>3. ASSUME Visit PROVE CollectInv'
  BY <1>3, CollectVisit DEF NotifyInv, Visit
<1>4. ASSUME Return PROVE CollectInv'
  BY <1>4, CollectReturn DEF NotifyInv, Return
<1>5. ASSUME TopoSort \/ Enqueue \/ TakeNode \/ Relax \/ Sorted PROVE CollectInv'
  <2>1. phase # "idle" /\ UNCHANGED <<deps, changed, calls, affected>>
    BY <1>5 DEF TopoSort, Enqueue, TakeNode, Relax, Sorted, graphVars
  <2>. QED  BY <2>1, CollectSame DEF NotifyInv
<1>6. ASSUME UNCHANGED changeVars, phase' # "idle" PROVE CollectInv'
  <2>1. phase # "idle" /\ UNCHANGED <<deps, changed, calls, affected>>
    BY <1>6 DEF changeVars, graphVars, notifyVars
  <2>. QED  BY <2>1, CollectSame DEF NotifyInv
<1>. QED  BY <1>1, <1>2, <1>3, <1>4, <1>5, <1>6
          DEF Next, Turn, Register, Unregister, UnregisterAll, AddSubject, RemoveSubject, RegisterByType, UnregisterByType

\* When no call is open, all that was found is what the change reaches.
LEMMA CollectedAll ==
  ASSUME GraphInv, NotifyTypes, CollectInv, calls = <<>>
  PROVE  /\ IsInjective(affected) /\ ClosedUnderChange(ToSet(affected))
         /\ \A S \in SUBSET Observers : ClosedUnderChange(S) => ToSet(affected) \subseteq S
<1>1. \A x, i : ~Open(x, i)
  BY DEF Open
<1>2. ASSUME NEW x \in Reached PROVE ToSet(deps[x]) \subseteq ToSet(affected)
  <2>1. deps[x] \in Seq(Observers)
    BY GraphTypes DEF Reached, NotifyTypes
  <2>2. \A i \in 1..Len(deps[x]) : deps[x][i] \in ToSet(affected)
    BY <1>1 DEF CollectInv
  <2>. QED  BY <2>1, <2>2, ToSetOf
<1>. QED  BY <1>2 DEF CollectInv, ClosedUnderChange, Reached

-----------------------------------------------------------------------------
(***************************************************************************)
(* _topo_sort(): the in-degrees and the queue.                               *)
(***************************************************************************)
LEMMA PendingFacts ==
  ASSUME GraphInv, NEW o \in Observers
  PROVE  IsFiniteSet(Pending(o)) /\ Cardinality(Pending(o)) \in Nat /\ (Cardinality(Pending(o)) = 0 <=> Pending(o) = {})
<1>1. Len(reverseDeps[o]) \in Nat
  BY GraphTypes, SeqFacts
<1>2. IsFiniteSet(1..Len(reverseDeps[o]))
  BY <1>1, FS_Interval
<1>3. IsFiniteSet(Pending(o))
  BY <1>2, FS_Subset DEF Pending
<1>. QED  BY <1>3, FS_CardinalityType, FS_EmptySet

LEMMA EdgeBack ==
  ASSUME GraphInv, NEW s \in Subjects, NEW o \in Observers
  PROVE  /\ HasEdge(deps, s, o) <=> \E i \in 1..Len(reverseDeps[o]) : reverseDeps[o][i] = s
         /\ Count(deps[s], o) = Cardinality(Places(reverseDeps[o], s))
<1>1. /\ deps[s] \in Seq(Observers) /\ reverseDeps[o] \in Seq(Subjects)
      /\ Count(deps[s], o) = Count(reverseDeps[o], s)
  BY GraphTypes DEF BothDirections
<1>2. Contains(deps[s], o) <=> Contains(reverseDeps[o], s)
  BY <1>1, CountOf
<1>3. Count(reverseDeps[o], s) = Cardinality(Places(reverseDeps[o], s))
  BY <1>1, CountOf
<1>. QED  BY <1>1, <1>2, <1>3 DEF HasEdge, Contains

LEMMA PendingBefore ==
  ASSUME GraphInv, NotifyTypes, NEW o \in Observers
  PROVE  Pending(o) = {} <=> Before(o) \subseteq ToSet(sorted)
<1>1. ASSUME Pending(o) = {}, NEW m \in Before(o) PROVE m \in ToSet(sorted)
  <2>1. m \in ToSet(affected) /\ m \in Subjects /\ HasEdge(deps, m, o)
    BY DEF Before
  <2>2. PICK i \in 1..Len(reverseDeps[o]) : reverseDeps[o][i] = m
    BY <2>1, EdgeBack
  <2>. QED  BY <1>1, <2>1, <2>2 DEF Pending
<1>2. ASSUME NEW i \in Pending(o), Before(o) \subseteq ToSet(sorted) PROVE FALSE
  <2>1. /\ i \in 1..Len(reverseDeps[o]) /\ reverseDeps[o][i] \in ToSet(affected)
        /\ reverseDeps[o][i] \notin ToSet(sorted)
    BY DEF Pending
  <2>2. reverseDeps[o][i] \in Subjects
    <3>1. reverseDeps[o] \in Seq(Subjects)
      BY GraphTypes
    <3>. QED  BY <2>1, <3>1
  <2>3. reverseDeps[o][i] \in Before(o)
    BY <2>1, <2>2, EdgeBack DEF Before
  <2>. QED  BY <1>2, <2>1, <2>3
<1>. QED  BY <1>1, <1>2

LEMMA AffectedObservers ==
  ASSUME NotifyTypes
  PROVE  /\ ToSet(affected) \subseteq Observers
         /\ \A o : Contains(affected, o) <=> o \in ToSet(affected)
BY ToSetOf DEF NotifyTypes

LEMMA QueueFirst ==
  ASSUME GraphInv, NotifyTypes, NotifyInv, TopoSort, phase' = "queueing"
  PROVE  Once' /\ QueueInv'
<1>1. /\ phase = "collecting" /\ sorted' = sorted /\ queue' = queue /\ ahead' = affected /\ affected' = affected
      /\ reverseDeps' = reverseDeps /\ queue = <<>> /\ sorted = <<>>
      /\ degree' = [o \in Observers |-> IF Contains(affected, o) THEN InDegree(o) ELSE 0]
  BY DEF TopoSort, NotifyInv, graphVars
<1>2. /\ IsInjective(sorted) /\ IsInjective(queue) /\ ToSet(sorted) = {} /\ ToSet(queue) = {}
      /\ IsInjective(affected)
  <2>1. sorted \in Seq(Observers) /\ queue \in Seq(Observers) /\ Len(sorted) = 0 /\ Len(queue) = 0
    BY <1>1 DEF NotifyTypes
  <2>. QED  BY <1>1, <2>1, NoEntries DEF NotifyInv, CollectInv
<1>3. ASSUME NEW o \in ToSet(affected) PROVE degree'[o] = Cardinality(Pending(o)')
  <2>1. o \in Observers /\ Contains(affected, o)
    BY AffectedObservers
  <2>2. reverseDeps[o] \in Seq(Subjects)
    BY <2>1, GraphTypes
  <2>3. DOMAIN reverseDeps[o] = 1..Len(reverseDeps[o])
    BY <2>2, SeqFacts
  <2>4. Pending(o)' = {i \in 1..Len(reverseDeps[o]) : reverseDeps[o][i] \in ToSet(affected)}
    BY <1>1, <1>2 DEF Pending
  <2>5. InDegree(o) = Cardinality(Pending(o)')
    <3>1. \A m : m \in Observers /\ Contains(affected, m) <=> m \in ToSet(affected)
      BY AffectedObservers
    <3>. QED  BY <2>3, <2>4, <3>1 DEF InDegree
  <2>. QED  BY <1>1, <2>1, <2>5
<1>. QED  BY <1>1, <1>2, <1>3 DEF Once, QueueInv

LEMMA QueueNext ==
  ASSUME GraphInv, NotifyTypes, Once, QueueInv, Enqueue
  PROVE  /\ Once'
         /\ phase' = "queueing" => QueueInv'
         /\ phase' = "sorting"  => SortInv'
<1>. DEFINE h == Head(ahead)
            A == ToSet(affected)
<1>1. /\ ahead # <<>> /\ ahead' = Tail(ahead)
      /\ queue' = IF degree[h] = 0 THEN Append(queue, h) ELSE queue
      /\ affected' = affected /\ reverseDeps' = reverseDeps /\ sorted' = sorted /\ degree' = degree /\ deps' = deps
      /\ phase' = (IF ahead' = <<>> THEN "sorting" ELSE "queueing")
  BY DEF Enqueue, graphVars
<1>2. ahead \in Seq(Observers) /\ queue \in Seq(Observers) /\ sorted \in Seq(Observers)
  BY DEF NotifyTypes
<1>3. /\ h \in Observers /\ ToSet(ahead) = {h} \cup ToSet(ahead') /\ ahead' \in Seq(Observers)
      /\ IsInjective(ahead') /\ h \notin ToSet(ahead')
  BY <1>1, <1>2, TailFacts, ToSetTail DEF QueueInv
<1>4. h \in A /\ h \notin ToSet(queue)
  BY <1>3 DEF QueueInv
<1>5. ToSet(sorted) = {} /\ sorted = <<>> /\ Len(sorted) = 0
  <2>1. Len(sorted) = 0
    BY DEF QueueInv
  <2>. QED  BY <1>2, <2>1, NoEntries DEF QueueInv
<1>6. /\ ToSet(queue') = ToSet(queue) \cup (IF degree[h] = 0 THEN {h} ELSE {})
      /\ IsInjective(queue')
  BY <1>1, <1>2, <1>3, <1>4, ToSetAppend, InjectiveAppend DEF Once
<1>. HIDE DEF h
<1>7. Once'
  BY <1>1, <1>4, <1>5, <1>6 DEF Once
<1>8. ASSUME NEW o \in A PROVE o \in ToSet(queue') <=> degree[o] = 0 /\ o \notin ToSet(ahead')
  BY <1>3, <1>4, <1>6 DEF QueueInv
<1>9. \A o \in A : Pending(o)' = Pending(o)
  BY <1>1 DEF Pending
<1>10. ASSUME phase' = "queueing" PROVE QueueInv'
  BY <1>1, <1>3, <1>5, <1>8, <1>9 DEF QueueInv
<1>11. ASSUME phase' = "sorting" PROVE SortInv'
  <2>1. Len(ahead') = 0
    <3>1. ahead' = <<>>
      BY <1>1, <1>11
    <3>. QED  BY <3>1
  <2>2. ToSet(ahead') = {} /\ \A o \in A : Count(ahead', o) = 0
    <3>1. ToSet(ahead') = {}
      BY <1>3, <2>1, NoEntries
    <3>. QED  BY <1>3, <3>1, CountOf, ToSetOf
  <2>3. \A o \in A : degree'[o] = Cardinality(Pending(o)') + Count(ahead', o)
    <3>1. \A o \in A : Cardinality(Pending(o)) \in Nat
      BY PendingFacts, AffectedObservers
    <3>. QED  BY <1>1, <1>9, <2>2, <3>1 DEF QueueInv
  <2>4. \A o \in A : degree'[o] = 0 <=> o \in ToSet(sorted') \cup ToSet(queue')
    BY <1>1, <1>5, <1>8, <2>2
  <2>5. InOrder'
    BY <1>1, <1>5 DEF InOrder
  <2>. QED  BY <1>1, <2>3, <2>4, <2>5 DEF SortInv
<1>. QED  BY <1>7, <1>10, <1>11

LEMMA SortTake ==
  ASSUME GraphInv, NotifyTypes, Once, SortInv, TakeNode
  PROVE  Once' /\ SortInv'
<1>. DEFINE node == Head(queue)
            A == ToSet(affected)
            n == Len(sorted)
<1>1. /\ ahead = <<>> /\ queue # <<>> /\ queue' = Tail(queue) /\ sorted' = Append(sorted, node)
      /\ ahead' = (IF node \in Subjects THEN deps[node] ELSE <<>>)
      /\ deps' = deps /\ reverseDeps' = reverseDeps /\ affected' = affected /\ degree' = degree
  BY DEF TakeNode, graphVars
<1>2. queue \in Seq(Observers) /\ sorted \in Seq(Observers) /\ n \in Nat
  BY SeqFacts DEF NotifyTypes
<1>3. /\ node \in Observers /\ ToSet(queue) = {node} \cup ToSet(queue')
      /\ IsInjective(queue') /\ node \notin ToSet(queue')
  BY <1>1, <1>2, TailFacts, ToSetTail DEF Once
<1>4. node \in A /\ node \notin ToSet(sorted)
  BY <1>3 DEF Once
<1>5. ToSet(sorted') = ToSet(sorted) \cup {node} /\ IsInjective(sorted')
  BY <1>1, <1>2, <1>3, <1>4, ToSetAppend, InjectiveAppend DEF Once
<1>6. Once'
  BY <1>1, <1>3, <1>4, <1>5 DEF Once
<1>7. \A o \in A : o \in Observers /\ Cardinality(Pending(o)) \in Nat /\ IsFiniteSet(Pending(o))
  BY PendingFacts, AffectedObservers
<1>8. \A o \in A : degree[o] = Cardinality(Pending(o))
  <2>1. ahead \in Seq(Observers) /\ Len(ahead) = 0
    BY <1>1 DEF NotifyTypes
  <2>2. ToSet(ahead) = {}
    BY <2>1, NoEntries
  <2>3. \A o \in A : Count(ahead, o) = 0
    BY <2>1, <2>2, CountOf, ToSetOf
  <2>. QED  BY <1>7, <2>3 DEF SortInv
<1>9. Before(node) \subseteq ToSet(sorted)
  <2>1. degree[node] = 0
    BY <1>3, <1>4 DEF SortInv
  <2>2. Pending(node) = {}
    BY <1>3, <1>4, <1>8, <2>1, PendingFacts
  <2>. QED  BY <1>3, <2>2, PendingBefore
<1>10. /\ sorted'[n + 1] = node /\ Len(sorted') = n + 1 /\ \A i \in 1..n : sorted'[i] = sorted[i]
       /\ ToSet(sorted) = {sorted[i] : i \in 1..n}
  <2>. HIDE DEF node
  <2>. QED  BY <1>1, <1>2, <1>3, AppendFacts, ToSetOf
<1>. HIDE DEF node, n
<1>11. InOrder'
  <2>. SUFFICES ASSUME NEW j \in 1..(n + 1), NEW m \in Before(sorted'[j])
                PROVE  \E i \in 1..(j - 1) : m = sorted'[i]
    BY <1>1, <1>10 DEF InOrder, Before
  <2>1. CASE j = n + 1
    <3>1. m \in ToSet(sorted) /\ j - 1 = n
      BY <1>2, <1>9, <1>10, <2>1
    <3>2. PICK i \in 1..n : m = sorted[i]
      BY <1>10, <3>1
    <3>. QED  BY <1>10, <3>1, <3>2
  <2>2. CASE j # n + 1
    <3>1. j \in 1..n /\ \A i \in 1..(j - 1) : i \in 1..n
      BY <1>2, <2>2
    <3>2. m \in Before(sorted[j])
      BY <1>10, <3>1
    <3>3. PICK i \in 1..(j - 1) : m = sorted[i]
      <4>1. InOrder /\ j \in 1..Len(sorted)
        BY <3>1 DEF SortInv, n
      <4>2. Before(sorted[j]) \subseteq {sorted[i] : i \in 1..(j - 1)}
        BY <4>1 DEF InOrder
      <4>. QED  BY <3>2, <4>2
    <3>. QED  BY <1>10, <3>1, <3>3
  <2>. QED  BY <2>1, <2>2
<1>12. ASSUME NEW o \in A PROVE degree'[o] = Cardinality(Pending(o)') + Count(ahead', o)
  <2>. DEFINE here == Places(reverseDeps[o], node)
              rest == Pending(o)'
  <2>1. /\ rest = {i \in 1..Len(reverseDeps[o]) : reverseDeps[o][i] \in A /\ reverseDeps[o][i] \notin ToSet(sorted')}
        /\ Pending(o) = {i \in 1..Len(reverseDeps[o]) : reverseDeps[o][i] \in A /\ reverseDeps[o][i] \notin ToSet(sorted)}
        /\ here = {i \in 1..Len(reverseDeps[o]) : reverseDeps[o][i] = node}
    BY <1>1 DEF Pending, Places
  <2>2. Pending(o) = rest \cup here /\ rest \cap here = {}
    BY <1>4, <1>5, <2>1
  <2>3. IsFiniteSet(rest) /\ IsFiniteSet(here)
    BY <1>7, <2>2, FS_Subset
  <2>4. Cardinality(Pending(o)) = Cardinality(rest) + Cardinality(here)
    <3>. HIDE DEF rest, here
    <3>1. Cardinality(rest) \in Nat /\ Cardinality(here) \in Nat
      BY <2>3, FS_CardinalityType
    <3>2. Cardinality(rest \cap here) = 0
      BY <2>2, FS_EmptySet
    <3>3. Cardinality(rest \cup here) = Cardinality(rest) + Cardinality(here) - Cardinality(rest \cap here)
      BY <2>3, FS_Union
    <3>. QED  BY <2>2, <3>1, <3>2, <3>3
  <2>5. Count(ahead', o) = Cardinality(here)
    <3>1. CASE node \in Subjects
      <4>1. Count(deps[node], o) = Cardinality(here)
        BY <1>7, <3>1, EdgeBack
      <4>. QED  BY <1>1, <3>1, <4>1
    <3>2. CASE node \notin Subjects
      <4>1. reverseDeps[o] \in Seq(Subjects)
        BY <1>7, GraphTypes
      <4>2. here = {}
        BY <3>2, <4>1 DEF Places
      <4>3. ahead' \in Seq(Observers) /\ Len(ahead') = 0
        BY <1>1, <3>2
      <4>4. ToSet(ahead') = {}
        BY <4>3, NoEntries
      <4>5. Count(ahead', o) = 0
        BY <4>3, <4>4, CountOf, ToSetOf
      <4>. QED  BY <4>2, <4>5, FS_EmptySet
    <3>. QED  BY <3>1, <3>2
  <2>. QED  BY <1>1, <1>8, <2>4, <2>5
<1>13. \A o \in A : degree'[o] = 0 <=> o \in ToSet(sorted') \cup ToSet(queue')
  BY <1>1, <1>3, <1>5 DEF SortInv
<1>. QED  BY <1>1, <1>6, <1>11, <1>12, <1>13 DEF SortInv

LEMMA SortRelax ==
  ASSUME GraphInv, NotifyTypes, Once, SortInv, Relax
  PROVE  Once' /\ SortInv'
<1>. DEFINE h == Head(ahead)
            A == ToSet(affected)
<1>1. /\ ahead # <<>> /\ ahead' = Tail(ahead)
      /\ deps' = deps /\ reverseDeps' = reverseDeps /\ affected' = affected /\ sorted' = sorted
  BY DEF Relax, graphVars
<1>2. ahead \in Seq(Observers) /\ queue \in Seq(Observers) /\ degree \in [Observers -> Nat]
  BY DEF NotifyTypes
<1>3. /\ h \in Observers /\ ahead' \in Seq(Observers)
      /\ \A o : Count(ahead, o) = Count(ahead', o) + (IF h = o THEN 1 ELSE 0)
      /\ \A o : Count(ahead', o) \in Nat
  BY <1>1, <1>2, TailFacts, CountTail, CountOf
<1>4. \A o \in A : Pending(o)' = Pending(o) /\ Cardinality(Pending(o)) \in Nat /\ o \in Observers
  BY <1>1, PendingFacts, AffectedObservers DEF Pending
<1>5. InOrder'
  BY <1>1 DEF SortInv, InOrder, Before
<1>6. h \in A <=> Contains(affected, h)
  BY AffectedObservers
<1>7. CASE h \notin A
  <2>1. degree' = degree /\ queue' = queue
    BY <1>6, <1>7 DEF Relax
  <2>2. \A o \in A : degree[o] = Cardinality(Pending(o)') + Count(ahead', o)
    <3>. TAKE o \in A
    <3>1. degree[o] = Cardinality(Pending(o)) + Count(ahead, o) /\ h # o
      BY <1>7 DEF SortInv
    <3>. QED  BY <1>3, <1>4, <3>1
  <2>. QED  BY <1>1, <1>5, <2>1, <2>2 DEF SortInv, Once
<1>8. CASE h \in A
  <2>1. /\ degree' = [degree EXCEPT ![h] = @ - 1]
        /\ queue' = IF degree[h] = 1 THEN Append(queue, h) ELSE queue
    BY <1>6, <1>8 DEF Relax
  <2>2. degree[h] \in Nat /\ degree[h] >= 1
    <3>1. degree[h] = Cardinality(Pending(h)) + Count(ahead, h)
      BY <1>8 DEF SortInv
    <3>2. Count(ahead, h) = Count(ahead', h) + 1
      BY <1>3
    <3>. QED  BY <1>3, <1>4, <1>8, <3>1, <3>2
  <2>3. h \notin ToSet(sorted) /\ h \notin ToSet(queue)
    BY <1>8, <2>2 DEF SortInv
  <2>4. \A o \in A : degree'[o] = IF o = h THEN degree[o] - 1 ELSE degree[o]
    BY <1>2, <1>4, <2>1
  <2>. HIDE DEF h
  <2>5. ASSUME NEW o \in A PROVE degree'[o] = Cardinality(Pending(o)') + Count(ahead', o)
    <3>1. degree[o] = Cardinality(Pending(o)) + Count(ahead, o)
      BY DEF SortInv
    <3>. QED  BY <1>3, <1>4, <2>4, <3>1
  <2>6. /\ ToSet(queue') = ToSet(queue) \cup (IF degree[h] = 1 THEN {h} ELSE {})
        /\ IsInjective(queue')
    BY <1>2, <1>3, <2>1, <2>3, ToSetAppend, InjectiveAppend DEF Once
  <2>7. Once'
    BY <1>1, <1>8, <2>3, <2>6 DEF Once
  <2>8. ASSUME NEW o \in A PROVE degree'[o] = 0 <=> o \in ToSet(sorted') \cup ToSet(queue')
    <3>1. degree[o] = 0 <=> o \in ToSet(sorted) \cup ToSet(queue)
      BY DEF SortInv
    <3>2. CASE o = h
      BY <1>1, <2>2, <2>3, <2>4, <2>6, <3>2
    <3>3. CASE o # h
      BY <1>1, <2>4, <2>6, <3>1, <3>3
    <3>. QED  BY <3>2, <3>3
  <2>. QED  BY <1>1, <1>5, <2>5, <2>7, <2>8 DEF SortInv
<1>. QED  BY <1>7, <1>8

\* When nothing is left to go through, what is sorted is all that can be.
LEMMA SortedAll ==
  ASSUME GraphInv, NotifyTypes, Once, SortInv, ahead = <<>>, queue = <<>>
  PROVE  /\ IsInjective(sorted) /\ ToSet(sorted) \subseteq ToSet(affected)
         /\ \A n \in ToSet(affected) : n \in ToSet(sorted) <=> Before(n) \subseteq ToSet(sorted)
         /\ \A i, j \in DOMAIN sorted : sorted[i] \in Before(sorted[j]) => i < j
<1>1. /\ ahead \in Seq(Observers) /\ Len(ahead) = 0 /\ queue \in Seq(Observers) /\ Len(queue) = 0
      /\ sorted \in Seq(Observers)
  BY DEF NotifyTypes
<1>2. ToSet(ahead) = {} /\ ToSet(queue) = {}
  BY <1>1, NoEntries
<1>3. \A o : Count(ahead, o) = 0
  BY <1>1, <1>2, CountOf, ToSetOf
<1>4. ASSUME NEW n \in ToSet(affected) PROVE n \in ToSet(sorted) <=> Before(n) \subseteq ToSet(sorted)
  <2>1. n \in Observers
    BY AffectedObservers
  <2>2. Cardinality(Pending(n)) \in Nat /\ (Cardinality(Pending(n)) = 0 <=> Pending(n) = {})
    BY <2>1, PendingFacts
  <2>3. degree[n] = Cardinality(Pending(n)) + Count(ahead, n) /\ (degree[n] = 0 <=> n \in ToSet(sorted) \cup ToSet(queue))
    BY DEF SortInv
  <2>4. degree[n] = Cardinality(Pending(n))
    BY <1>3, <2>2, <2>3
  <2>. QED  BY <1>2, <2>1, <2>2, <2>3, <2>4, PendingBefore
<1>5. ASSUME NEW i \in DOMAIN sorted, NEW j \in DOMAIN sorted, sorted[i] \in Before(sorted[j]) PROVE i < j
  <2>1. Len(sorted) \in Nat /\ DOMAIN sorted = 1..Len(sorted)
    BY <1>1, SeqFacts
  <2>2. PICK k \in 1..(j - 1) : sorted[i] = sorted[k]
    BY <1>5, <2>1 DEF SortInv, InOrder
  <2>3. k \in 1..Len(sorted) /\ k < j
    BY <2>1
  <2>4. i = k
    BY <2>1, <2>2, <2>3 DEF Once, IsInjective
  <2>. QED  BY <2>3, <2>4
<1>. QED  BY <1>4, <1>5 DEF Once

-----------------------------------------------------------------------------
(***************************************************************************)
(* The invariant, and what follows from it.                                  *)
(***************************************************************************)
LEMMA NotifyStep ==
  ASSUME GraphInv, NotifyTypes, NotifyInv, [Next]_changeVars
  PROVE  NotifyInv'
<1>1. phase' # "idle" => CollectInv'
  BY CollectStep
<1>. DEFINE Others ==
       /\ (phase = "collecting" => queue = <<>> /\ sorted = <<>>)
       /\ (phase \in {"queueing", "sorting"} => Once)
       /\ (phase = "queueing" => QueueInv)
       /\ (phase = "sorting" => SortInv)
       /\ UpdatesInOrder
<1>2. ASSUME Call PROVE Others'
  BY <1>2 DEF Call, Begin, UpdatesInOrder
<1>3. ASSUME NEW s \in Subjects, Notify(s) PROVE Others'
  BY <1>3 DEF Notify, Begin, UpdatesInOrder
<1>4. ASSUME Visit \/ Return PROVE Others'
  BY <1>4 DEF Visit, Return, UpdatesInOrder, NotifyInv
<1>5. ASSUME TopoSort PROVE Others'
  <2>1. phase' \in {"idle", "queueing"}
    BY <1>5 DEF TopoSort
  <2>2. phase' = "queueing" => Once' /\ QueueInv'
    BY <1>5, QueueFirst
  <2>. QED  BY <2>1, <2>2 DEF UpdatesInOrder
<1>6. ASSUME Enqueue PROVE Others'
  <2>1. phase = "queueing" /\ phase' \in {"queueing", "sorting"}
    BY <1>6 DEF Enqueue
  <2>2. Once' /\ (phase' = "queueing" => QueueInv') /\ (phase' = "sorting" => SortInv')
    BY <1>6, <2>1, QueueNext DEF NotifyInv
  <2>. QED  BY <2>1, <2>2 DEF UpdatesInOrder
<1>7. ASSUME TakeNode \/ Relax PROVE Others'
  <2>1. phase = "sorting" /\ phase' = "sorting"
    BY <1>7 DEF TakeNode, Relax
  <2>2. Once' /\ SortInv'
    BY <1>7, <2>1, SortTake, SortRelax DEF NotifyInv
  <2>. QED  BY <2>1, <2>2 DEF UpdatesInOrder
<1>8. ASSUME Sorted PROVE Others'
  <2>1. /\ phase = "sorting" /\ phase' = "updating" /\ ahead = <<>> /\ queue = <<>>
        /\ sorted' = sorted /\ affected' = affected /\ deps' = deps
    BY <1>8 DEF Sorted, graphVars
  <2>2. /\ IsInjective(sorted) /\ ToSet(sorted) \subseteq ToSet(affected)
        /\ \A n \in ToSet(affected) : n \in ToSet(sorted) <=> Before(n) \subseteq ToSet(sorted)
        /\ \A i, j \in DOMAIN sorted : sorted[i] \in Before(sorted[j]) => i < j
    BY <2>1, SortedAll DEF NotifyInv
  <2>3. \A n : Before(n)' = Before(n)
    BY <2>1 DEF Before
  <2>4. UpdatesInOrder'
    BY <2>1, <2>2, <2>3 DEF UpdatesInOrder
  <2>. QED  BY <2>1, <2>4
<1>9. ASSUME UNCHANGED changeVars PROVE Others'
  <2>1. /\ phase' = phase /\ deps' = deps /\ reverseDeps' = reverseDeps /\ affected' = affected /\ degree' = degree
        /\ queue' = queue /\ ahead' = ahead /\ sorted' = sorted
    BY <1>9 DEF changeVars, graphVars, notifyVars
  <2>2. (\A n : Before(n)' = Before(n)) /\ (\A o : Pending(o)' = Pending(o))
    BY <2>1 DEF Before, Pending
  <2>3. (phase \in {"queueing", "sorting"} => Once') /\ (phase = "queueing" => QueueInv')
    BY <2>1, <2>2 DEF NotifyInv, Once, QueueInv
  <2>4. phase = "sorting" => SortInv'
    BY <2>1, <2>2 DEF NotifyInv, SortInv, InOrder
  <2>5. UpdatesInOrder'
    BY <2>1, <2>2 DEF NotifyInv, UpdatesInOrder
  <2>. QED  BY <2>1, <2>3, <2>4, <2>5 DEF NotifyInv
<1>10. Others'
  <2>. HIDE DEF Others
  <2>. QED  BY <1>2, <1>3, <1>4, <1>5, <1>6, <1>7, <1>8, <1>9
            DEF Next, Turn, Register, Unregister, UnregisterAll, AddSubject, RemoveSubject, RegisterByType, UnregisterByType
<1>. QED  BY <1>1, <1>10 DEF NotifyInv

LEMMA InvInit ==
  ASSUME Init
  PROVE  Inv
<1>1. ASSUME NEW S PROVE <<>> \in Seq(S)
  OBVIOUS
<1>2. Links \in PairedLinks
  <2>1. deps \in [Subjects -> Seq(Observers)] /\ reverseDeps \in [Observers -> Seq(Subjects)]
    BY DEF Init
  <2>2. \A s \in Subjects, o \in Observers : Count(deps[s], o) = Count(reverseDeps[o], s)
    BY DEF Init, Count
  <2>. QED  BY <2>1, <2>2 DEF Links, PairedLinks, Paired, LinkType
<1>3. known \in [Types -> Seq(Subjects)] /\ bindings \in Seq(Types \X Observers)
  BY DEF Init
<1>4. GraphInv
  BY <1>2, <1>3 DEF Init, GraphInv
<1>5. NotifyTypes
  <2>1. calls \in Frames
    BY DEF Init, Frames
  <2>2. degree \in [Observers -> Nat]
    BY DEF Init
  <2>. QED  BY <2>1, <2>2 DEF Init, NotifyTypes
<1>6. NotifyInv
  BY DEF Init, NotifyInv, UpdatesInOrder
<1>. QED  BY <1>4, <1>5, <1>6 DEF Inv

LEMMA InvHolds == Spec => []Inv
<1>1. Init => Inv
  BY InvInit
<1>2. Inv /\ [Next]_changeVars => Inv'
  BY GraphStep, TypeStep, NotifyStep DEF Inv
<1>. QED  BY <1>1, <1>2, PTL DEF Spec

(* The types of the change managers; the in-degree that a turn of Kahn's algorithm takes   *)
(* one off is at least 1, so that none falls below 0 without its observer in the queue.   *)
THEOREM TypeCorrect == Spec => []TypeOK
<1>1. Inv => TypeOK
  BY GraphTypes DEF Inv, GraphInv, NotifyTypes, Frames, TypeOK
<1>. QED  BY <1>1, InvHolds, PTL

(* The two directions of the edges stay the same, whatever calls register and unregister    *)
(* by subject or by type, a pair registered twice included.                          *)
THEOREM SameEdges == Spec => []BothDirections
<1>1. Inv => BothDirections
  BY GraphTypes DEF Inv
<1>. QED  BY <1>1, InvHolds, PTL

(* A notification finds exactly the observers that the change reaches, each once: those of    *)
(* every graph, with its diamonds and its cycles.                                   *)
THEOREM FindsAllReached == Spec => []ReachesAll
<1>1. Inv => ReachesAll
  <2>. SUFFICES ASSUME Inv, phase \in {"queueing", "sorting", "updating"}
                PROVE  /\ IsInjective(affected) /\ ClosedUnderChange(ToSet(affected))
                       /\ \A S \in SUBSET Observers : ClosedUnderChange(S) => ToSet(affected) \subseteq S
    BY DEF ReachesAll
  <2>. QED  BY CollectedAll DEF Inv, NotifyTypes, NotifyInv
<1>. QED  BY <1>1, InvHolds, PTL

(* The order of the updates: each affected observer once, after the affected that it observes, *)
(* and none left out unless one of these is.                                        *)
THEOREM SortsInOrder == Spec => []UpdatesInOrder
<1>1. Inv => UpdatesInOrder
  BY DEF Inv, NotifyInv
<1>. QED  BY <1>1, InvHolds, PTL
=============================================================================
