--------------------------- MODULE SagaPathProofs ---------------------------
(***************************************************************************)
(* Proofs about the paths of Saga: where each work item is, that only work   *)
(* in place is compensated, that a joined activity stands for all the work   *)
(* under it, that added work is taken up, that a saga whose backward path    *)
(* ended has no effects left, that alternatives are tried one at a time, and *)
(* that effects go in reverse order.                                         *)
(***************************************************************************)
EXTENDS SagaProofs, WellFoundedInduction

\* The work that the compensation of item i adds, and that the compensation of this adds, and
\* so on: the least set with Extra[i] that is closed under Extra.
AddsTo(i, T) == Range(Extra[i]) \subseteq T
Below(i) ==
  {j \in Items : \A T \in SUBSET Items : AddsTo(i, T) /\ (\A k \in T : AddsTo(k, T)) => j \in T}

\* An item is one piece of work: it is built into one place of one slip, or added by the
\* compensation of one item, and never leads to itself.
OneUse ==
  /\ \A s \in Slips : \A m, n \in 1..Len(Work[s]) : Work[s][m] = Work[s][n] => m = n
  /\ \A i \in Items : \A m, n \in 1..Len(Extra[i]) : Extra[i][m] = Extra[i][n] => m = n
  /\ \A s \in Slips, i \in Items : Range(Work[s]) \cap Range(Extra[i]) = {}
  /\ \A i, j \in Items : i # j => Range(Extra[i]) \cap Range(Extra[j]) = {}
  /\ \A i \in Items : i \notin Below(i)

\* Every slip is nested, at some depth, in an item of the root's.
AllHang ==
  \A T \in SUBSET Slips :
    Root \in T /\ (\A i \in Items : Owner[i] \in T => Branches(i) \subseteq T) => T = Slips

\* Compensations raise, and add work, in the root only.
RaisesInRoot == \A i \in Fragile : Owner[i] = Root
AddsInRoot   == \A i \in Items : Extra[i] # <<>> => Owner[i] = Root

\* A cancelled activity is not in an alternative, but of a fallback of the root.
CancelsOut ==
  \A i \in Cancellable : \A f \in Items :
    Kind[f] = "fallback" /\ Owner[i] \in Branches(f) => Owner[f] = Root

\* A cancelled activity is not in a branch.
CancelsNoBranch ==
  \A i \in Cancellable : \A p \in Items : Kind[p] = "parallel" => Owner[i] \notin Branches(p)

-----------------------------------------------------------------------------
(***************************************************************************)
(* Where items are.                                                         *)
(***************************************************************************)
InPending(i) == \E k \in 1..Len(pending[Owner[i]]) : pending[Owner[i]][k] = i
InLogs(i)    == \E k \in 1..Len(logs[Owner[i]]) : logs[Owner[i]][k].item = i
Present(i)   == InPending(i) \/ InLogs(i) \/ At(i)

\* An item is in one place, and what its compensation may add is nowhere yet.
PlaceInv ==
  /\ \A s \in Slips : \A m, n \in 1..Len(pending[s]) : pending[s][m] = pending[s][n] => m = n
  /\ \A s \in Slips : \A m, n \in 1..Len(logs[s]) : logs[s][m].item = logs[s][n].item => m = n
  /\ \A i \in Items : /\ InPending(i) => ~InLogs(i) /\ ~At(i)
                      /\ InLogs(i) => ~At(i)
                      /\ Present(i) => \A j \in Below(i) : ~Present(j)

\* Work that is still to come has not been started.
Upcoming(i) == InPending(i) \/ \E h \in Items : Present(h) /\ i \in Below(h)

IdleInv ==
  /\ \A i \in Items : Upcoming(i) => \A b \in Branches(i) : phase[b] = "idle"
  /\ \A i \in Items : At(i) /\ phase[Owner[i]] = "working" /\ Kind[i] = "fallback" =>
       \A n \in 1..Len(Subs[i]) : n > alt[Owner[i]] => phase[Subs[i][n]] = "idle"

\* A nested slip on its way forward has its work before it, in hand or done.
DoneInv ==
  \A b \in Slips \ {Root} :
    /\ phase[b] \in {"idle", "forward", "working", "succeeded"} =>
         \A i \in Range(Work[b]) : Present(i)
    /\ phase[b] = "succeeded" => pending[b] = <<>>

\* What a work log stands for has succeeded.
JoinInv == \A s \in Slips : \A k \in 1..Len(logs[s]) : \A b \in Compensated(logs[s][k]) : phase[b] = "succeeded"

\* The first item that a compensation added is next.
NextInv ==
  \A s \in Slips : \A k \in 1..Len(pending[s]) : \A i \in Items :
    Extra[i] # <<>> /\ pending[s][k] = Extra[i][1] => phase[s] = "forward" /\ k = 1

-----------------------------------------------------------------------------
(***************************************************************************)
(* What has work to undo under it.                                          *)
(***************************************************************************)
Dirty(b) == logs[b] # <<>> \/ phase[b] \notin Quiet

\* A slip with work to undo is driven by the item that holds it, or that item has its log.
Held(i, b) ==
  \/ At(i) /\ (Kind[i] = "fallback" => alt[Owner[i]] > 0 /\ b = Alternative(Owner[i]))
  \/ \E k \in 1..Len(logs[Owner[i]]) :
       logs[Owner[i]][k].item = i /\ b \in Compensated(logs[Owner[i]][k])

Broken == phase[Root] \in {"cancelled", "raised"}

HeldInv == ~Broken => \A i \in Items : \A b \in Branches(i) : Dirty(b) => Held(i, b)

\* A slip that was sent backward comes to its end there.
BackInv ==
  \A i \in Items : At(i) /\ phase[Owner[i]] \in {"aborting", "undoing"} =>
    /\ Kind[i] = "fallback" => alt[Owner[i]] \in 1..Len(Subs[i])
    /\ \A b \in Branches(i) : Kind[i] = "parallel" \/ b = Alternative(Owner[i]) =>
         phase[b] \in {"backward", "undoing", "failed"}

FailedInv == \A b \in Slips : phase[b] = "failed" => logs[b] = <<>>

\* Nothing raises in a nested slip, and no cancellation gets past a fallback of another than
\* the root.
RaisedInv == \A b \in Slips \ {Root} : phase[b] # "raised"
CancelInv ==
  \A f \in Items : \A b \in Branches(f) : Kind[f] = "fallback" /\ phase[b] = "cancelled" => Owner[f] = Root

BranchInv ==
  \A p \in Items : \A b \in Branches(p) : Kind[p] = "parallel" => phase[b] # "cancelled"

AppliedInv == phase[Root] # "raised" => applied \subseteq Logged

-----------------------------------------------------------------------------
(***************************************************************************)
(* What a step of slip s does to the places of items.                       *)
(***************************************************************************)
Rest(s) == /\ pending'[s] = pending[s] /\ logs'[s] = logs[s]
           /\ phase'[s] \in Busy => phase[s] \in Busy /\ cur'[s] = cur[s] /\ phase'[s] # "undoing"
           /\ phase[s] = "forward" => pending[s] = <<>>
Take(s) == /\ phase[s] = "forward" /\ pending[s] # <<>> /\ phase'[s] = "working"
           /\ pending'[s] = Tail(pending[s]) /\ cur'[s] = Head(pending[s]) /\ alt'[s] = 0
           /\ logs'[s] = logs[s]
Keep(s) == /\ phase[s] = "working" /\ phase'[s] = "forward"
           /\ logs'[s] = Append(logs[s], [item |-> cur[s], alt |-> alt[s]])
           /\ pending'[s] = pending[s]
Pop(s)  == /\ phase[s] = "backward" /\ logs[s] # <<>> /\ phase'[s] = "undoing"
           /\ logs'[s] = SubSeq(logs[s], 1, Len(logs[s]) - 1)
           /\ cur'[s] = logs[s][Len(logs[s])].item /\ alt'[s] = logs[s][Len(logs[s])].alt
           /\ pending'[s] = pending[s]
Adds(s) == /\ phase[s] = "undoing" /\ phase'[s] = IF s = Root THEN "forward" ELSE "backward"
           /\ pending'[s] = Extra[cur[s]] \o pending[s] /\ Extra[cur[s]] # <<>>
           /\ logs'[s] = logs[s]

\* Other slips rest, but those that the item at work in s starts.
Started(s, x) ==
  \E i \in Items : /\ cur'[s] = i /\ phase'[s] \in Busy /\ Owner[i] = s /\ x \in Branches(i)
                  /\ phase[x] \in Quiet /\ phase'[x] \in {"forward", "backward"}
Others(s) == \A x \in Slips : x # s =>
               /\ pending'[x] = pending[x] /\ logs'[x] = logs[x]
               /\ cur'[x] = cur[x] /\ alt'[x] = alt[x]
               /\ phase'[x] = phase[x] \/ Started(s, x)

LEMMA AloneOthers ==
  ASSUME IInv, NEW s \in Slips, NEW to, phase' = [phase EXCEPT ![s] = to], UNCHANGED <<cur, alt>>,
         \A x \in Slips : x # s => pending'[x] = pending[x] /\ logs'[x] = logs[x]
  PROVE  Others(s) /\ phase'[s] = to
BY DEF Others, IInv, TypeOK

LEMMA Moves ==
  ASSUME IInv, NEW s \in Slips, Forward(s) \/ Backward(s)
  PROVE  Others(s) /\ (Rest(s) \/ Take(s) \/ Keep(s) \/ Pop(s) \/ Adds(s))
<1>. TypeOK /\ TypeOK'
  BY InvStep DEF Next, IInv
<1>. USE DEF Busy
<1>1. CASE \/ Finish(s) \/ LeafFails(s) \/ LeafCancelled(s) \/ ParallelAborted(s)
           \/ FallbackFails(s) \/ FallbackCancelled(s) \/ Undone(s)
           \/ LeafCompensationRaises(s) \/ ParallelCompensated(s) \/ FallbackCompensated(s)
  <2>1. /\ UNCHANGED <<pending, logs, cur, alt>>
        /\ \E to \in {"succeeded", "backward", "cancelled", "failed", "raised"} :
             phase' = [phase EXCEPT ![s] = to]
        /\ phase[s] = "forward" => pending[s] = <<>>
    BY <1>1 DEF Finish, LeafFails, LeafCancelled, ParallelAborted, FallbackFails, FallbackCancelled,
                Undone, LeafCompensationRaises, ParallelCompensated, FallbackCompensated, WorkFailed,
                UndoGoes, Working, Undoing
  <2>. QED  BY <2>1, AloneOthers DEF Rest
<1>2. CASE LeafSucceeds(s) \/ ParallelJoins(s) \/ AlternativeSucceeds(s)
  <2>1. /\ phase[s] = "working" /\ UNCHANGED <<pending, cur, alt>>
        /\ logs' = [logs EXCEPT ![s] = Append(@, [item |-> cur[s], alt |-> alt[s]])]
        /\ phase' = [phase EXCEPT ![s] = "forward"]
    BY <1>2 DEF LeafSucceeds, ParallelJoins, AlternativeSucceeds, Working, WorkDone
  <2>2. /\ logs'[s] = Append(logs[s], [item |-> cur[s], alt |-> alt[s]])
        /\ \A x \in Slips : x # s => logs'[x] = logs[x]
    BY <2>1 DEF TypeOK
  <2>. QED  BY <2>1, <2>2, AloneOthers DEF Keep
<1>3. CASE LeafCompensated(s)
  <2>1. UNCHANGED <<pending, logs, cur, alt>> /\ phase' = [phase EXCEPT ![s] = "backward"] /\ phase[s] = "undoing"
    BY <1>3 DEF LeafCompensated, UndoGoes, Undoing
  <2>2. Others(s) /\ phase'[s] = "backward"
    BY <2>1, AloneOthers
  <2>. QED  BY <2>1, <2>2 DEF Rest
<1>4. CASE LeafResumes(s)
  <2>1. /\ phase[s] = "undoing" /\ UNCHANGED <<logs, cur, alt>> /\ Extra[cur[s]] # <<>>
        /\ pending' = [pending EXCEPT ![s] = Extra[cur[s]] \o @]
        /\ phase' = [phase EXCEPT ![s] = IF s = Root THEN "forward" ELSE "backward"]
    BY <1>4 DEF LeafResumes, Undoing, UndoGoes
  <2>2. /\ pending'[s] = Extra[cur[s]] \o pending[s]
        /\ \A x \in Slips : x # s => pending'[x] = pending[x]
    BY <2>1 DEF TypeOK
  <2>. QED  BY <2>1, <2>2, AloneOthers DEF Adds
<1>5. CASE ProcessNext(s)
  <2>. DEFINE i == Head(pending[s])
              started == IF Kind[i] = "parallel" THEN Branches(i) ELSE {}
  <2>1. /\ phase[s] = "forward" /\ pending[s] # <<>> /\ UNCHANGED logs
        /\ cur' = [cur EXCEPT ![s] = i] /\ alt' = [alt EXCEPT ![s] = 0]
        /\ Drive(s, "working", started, "forward")
        /\ pending' = [pending EXCEPT ![s] = Tail(@)]
    BY <1>5 DEF ProcessNext
  <2>2. i \in Items /\ Owner[i] = s
    <3>1. i = pending[s][1] /\ i \in Items /\ Len(pending[s]) >= 1
      BY <2>1, SeqFacts DEF TypeOK
    <3>. QED  BY <3>1 DEF IInv, OwnInv, Own, OwnPending
  <2>3. \A b \in Branches(i) : phase[b] \in Quiet
    BY <2>1, <2>2 DEF IInv, QuietInv, At
  <2>4. \A x \in Slips : phase'[x] = IF x = s THEN "working" ELSE IF x \in started THEN "forward" ELSE phase[x]
    BY <2>1 DEF Drive
  <2>. HIDE DEF i
  <2>5. cur'[s] = i
    BY <2>1, <2>2 DEF TypeOK
  <2>6. ASSUME NEW x \in Slips, x # s, phase'[x] # phase[x] PROVE Started(s, x)
    BY <2>2, <2>3, <2>4, <2>5, <2>6 DEF Started
  <2>7. Others(s)
    BY <2>1, <2>6 DEF Others, TypeOK
  <2>8. Take(s)
    BY <2>1, <2>4 DEF Take, i, TypeOK
  <2>. QED  BY <2>7, <2>8
<1>6. CASE ParallelFails(s)
  <2>1. /\ phase[s] = "working" /\ Drive(s, "aborting", Branches(cur[s]), "backward")
        /\ UNCHANGED <<pending, logs, cur, alt>>
    BY <1>6 DEF ParallelFails, Working
  <2>2. cur[s] \in Items /\ Owner[cur[s]] = s /\ \A b \in Branches(cur[s]) : phase[b] \in Quiet
    BY <1>6, <2>1, NothingUnder DEF ParallelFails
  <2>3. \A x \in Slips : phase'[x] = IF x = s THEN "aborting" ELSE IF x \in Branches(cur[s]) THEN "backward" ELSE phase[x]
    BY <2>1 DEF Drive
  <2>. QED  BY <2>1, <2>2, <2>3 DEF Others, Started, Rest
<1>7. CASE NextAlternative(s)
  <2>. DEFINE a == Subs[cur[s]][alt[s] + 1]
  <2>1. /\ phase[s] = "working" /\ Kind[cur[s]] = "fallback" /\ alt[s] < Len(Subs[cur[s]])
        /\ alt[s] > 0 => phase[Alternative(s)] = "failed"
        /\ alt' = [alt EXCEPT ![s] = @ + 1]
        /\ Drive(s, "working", {a}, "forward")
        /\ UNCHANGED <<pending, logs, cur>>
    BY <1>7 DEF NextAlternative, Working
  <2>2. cur[s] \in Items /\ Owner[cur[s]] = s /\ \A b \in Branches(cur[s]) : phase[b] \in Quiet
    BY <2>1, NothingUnder DEF Final
  <2>3. a \in Branches(cur[s])
    <3>1. alt[s] \in Nat /\ Len(Subs[cur[s]]) \in Nat
      BY <2>2, SagaAssumption DEF TypeOK
    <3>2. alt[s] + 1 \in 1..Len(Subs[cur[s]])
      BY <2>1, <3>1
    <3>. QED  BY <2>2, <3>2, BranchOf
  <2>. HIDE DEF a
  <2>4. \A x \in Slips : phase'[x] = IF x = s THEN "working" ELSE IF x = a THEN "forward" ELSE phase[x]
    BY <2>1 DEF Drive
  <2>5. \A x \in Slips : x # s => alt'[x] = alt[x]
    BY <2>1 DEF TypeOK
  <2>. QED  BY <2>1, <2>2, <2>3, <2>4, <2>5 DEF Others, Started, Rest
<1>8. CASE UndoLast(s)
  <2>. DEFINE l == logs[s][Len(logs[s])]
  <2>1. /\ phase[s] = "backward" /\ logs[s] # <<>> /\ logs[s] \in Seq(WorkLog)
        /\ cur' = [cur EXCEPT ![s] = l.item] /\ alt' = [alt EXCEPT ![s] = l.alt]
        /\ Drive(s, "undoing", Compensated(l), "backward")
        /\ logs' = [logs EXCEPT ![s] = SubSeq(@, 1, Len(@) - 1)]
        /\ UNCHANGED pending
    BY <1>8 DEF UndoLast, Undo, TypeOK
  <2>2. l \in WorkLog /\ OwnLog(s, l)
    <3>1. Len(logs[s]) \in 1..Len(logs[s])
      BY <2>1
    <3>. QED  BY <2>1, <3>1, SeqFacts DEF IInv, OwnInv, Own, OwnLogs
  <2>3. /\ l.item \in Items /\ Owner[l.item] = s /\ Compensated(l) \subseteq Branches(l.item)
        /\ \A b \in Branches(l.item) : phase[b] \in Quiet
    <3>1. l.item \in Items /\ Owner[l.item] = s
      BY <2>2 DEF OwnLog, WorkLog
    <3>2. Compensated(l) \subseteq Branches(l.item)
      BY <2>2, <3>1, BranchOf DEF Compensated, OwnLog
    <3>. QED  BY <2>1, <3>1, <3>2 DEF IInv, QuietInv, At
  <2>4. \A x \in Slips : phase'[x] = IF x = s THEN "undoing" ELSE IF x \in Compensated(l) THEN "backward" ELSE phase[x]
    BY <2>1 DEF Drive
  <2>. HIDE DEF l
  <2>5. cur'[s] = l.item /\ alt'[s] = l.alt /\ logs'[s] = SubSeq(logs[s], 1, Len(logs[s]) - 1)
    BY <2>1, <2>3 DEF TypeOK
  <2>6. ASSUME NEW x \in Slips, x # s, phase'[x] # phase[x] PROVE Started(s, x)
    BY <2>3, <2>4, <2>5, <2>6 DEF Started
  <2>7. Others(s)
    BY <2>1, <2>6 DEF Others, TypeOK
  <2>8. Pop(s)
    BY <2>1, <2>4, <2>5 DEF Pop, l
  <2>. QED  BY <2>7, <2>8
<1>. QED  BY <1>1, <1>2, <1>3, <1>4, <1>5, <1>6, <1>7, <1>8 DEF Forward, Backward

-----------------------------------------------------------------------------
(***************************************************************************)
(* An item is in one place.                                                 *)
(***************************************************************************)
LEMMA BelowClosed ==
  ASSUME NEW i \in Items
  PROVE  /\ Range(Extra[i]) \subseteq Below(i) /\ Below(i) \subseteq Items
         /\ \A j \in Below(i) : Below(j) \subseteq Below(i)
<1>1. Range(Extra[i]) \subseteq Items
  BY SagaAssumption, SeqFacts DEF Range
<1>2. Range(Extra[i]) \subseteq Below(i) /\ Below(i) \subseteq Items
  BY <1>1 DEF Below, AddsTo
<1>3. ASSUME NEW j \in Below(i), NEW k \in Below(j) PROVE k \in Below(i)
  <2>. SUFFICES ASSUME NEW T \in SUBSET Items, AddsTo(i, T), \A x \in T : AddsTo(x, T) PROVE k \in T
    BY <1>3 DEF Below
  <2>1. j \in T
    BY DEF Below
  <2>. QED  BY <2>1 DEF Below
<1>. QED  BY <1>2, <1>3

\* Only the item that adds j directly is last on the way to j.
LEMMA BelowParent ==
  ASSUME OneUse, NEW i \in Items, NEW h \in Items, NEW j \in Below(i), j \in Range(Extra[h])
  PROVE  h = i \/ h \in Below(i)
<1>. SUFFICES ASSUME h # i, h \notin Below(i) PROVE FALSE
  OBVIOUS
<1>. DEFINE T == Below(i) \ {j}
<1>1. T \in SUBSET Items /\ AddsTo(i, T)
  BY BelowClosed DEF AddsTo, OneUse
<1>2. ASSUME NEW k \in T PROVE AddsTo(k, T)
  <2>1. k \in Items /\ Range(Extra[k]) \subseteq Below(i)
    BY BelowClosed
  <2>. QED  BY <2>1 DEF AddsTo, OneUse
<1>. QED  BY <1>1, <1>2 DEF Below

\* Where the items of other slips are, and that those of s go to one place at most.
LEMMA PlacesElsewhere ==
  ASSUME IInv, NEW s \in Slips, Others(s), NEW i \in Items, Owner[i] # s
  PROVE  InPending(i)' = InPending(i) /\ InLogs(i)' = InLogs(i) /\ At(i)' = At(i)
<1>1. Owner[i] \in Slips
  BY SagaAssumption DEF Tree
<1>2. /\ pending'[Owner[i]] = pending[Owner[i]] /\ logs'[Owner[i]] = logs[Owner[i]]
      /\ cur'[Owner[i]] = cur[Owner[i]]
      /\ phase'[Owner[i]] \in Busy <=> phase[Owner[i]] \in Busy
  BY <1>1 DEF Others, Started, Busy, Quiet
<1>. QED  BY <1>2 DEF InPending, InLogs, At

LEMMA RangeOf ==
  ASSUME NEW S, NEW q \in Seq(S), NEW x
  PROVE  x \in Range(q) <=> \E k \in 1..Len(q) : q[k] = x
BY DEF Range

\* The places of the items of s after a step of s.
LEMMA PlacesHere ==
  ASSUME IInv, IInv', PlaceInv, NEW s \in Slips, NEW i \in Items, Owner[i] = s
  PROVE  /\ Rest(s) => InPending(i)' = InPending(i) /\ InLogs(i)' = InLogs(i) /\ (At(i)' => At(i))
         /\ Take(s) => /\ InLogs(i)' = InLogs(i) /\ ~At(i)
                       /\ At(i)' <=> i = Head(pending[s])
                       /\ InPending(i) <=> InPending(i)' \/ At(i)'
                       /\ ~(InPending(i)' /\ At(i)')
         /\ Keep(s) => /\ InPending(i)' = InPending(i) /\ ~At(i)'
                       /\ At(i) <=> i = cur[s]
                       /\ InLogs(i)' <=> InLogs(i) \/ At(i)
         /\ Pop(s)  => /\ InPending(i)' = InPending(i) /\ ~At(i)
                       /\ At(i)' <=> i = logs[s][Len(logs[s])].item
                       /\ InLogs(i) <=> InLogs(i)' \/ At(i)'
                       /\ ~(InLogs(i)' /\ At(i)')
         /\ Adds(s) => /\ InLogs(i)' = InLogs(i) /\ ~At(i)'
                       /\ At(i) <=> i = cur[s]
                       /\ InPending(i)' <=> InPending(i) \/ i \in Range(Extra[cur[s]])
<1>. /\ pending[s] \in Seq(Items) /\ logs[s] \in Seq(WorkLog)
     /\ pending'[s] \in Seq(Items) /\ logs'[s] \in Seq(WorkLog)
  BY DEF IInv, TypeOK
<1>0. /\ \A m, n \in 1..Len(pending[s]) : pending[s][m] = pending[s][n] => m = n
      /\ \A m, n \in 1..Len(logs[s]) : logs[s][m].item = logs[s][n].item => m = n
  BY DEF PlaceInv
<1>1. ASSUME Rest(s)
      PROVE  InPending(i)' = InPending(i) /\ InLogs(i)' = InLogs(i) /\ (At(i)' => At(i))
  BY <1>1 DEF Rest, InPending, InLogs, At
<1>2. ASSUME Take(s)
      PROVE  /\ InLogs(i)' = InLogs(i) /\ ~At(i)
             /\ At(i)' <=> i = Head(pending[s])
             /\ InPending(i) <=> InPending(i)' \/ At(i)'
             /\ ~(InPending(i)' /\ At(i)')
  <2>1. /\ Head(pending[s]) = pending[s][1] /\ Len(pending[s]) >= 1
        /\ Len(pending'[s]) = Len(pending[s]) - 1
        /\ \A k \in 1..Len(pending[s]) - 1 : pending'[s][k] = pending[s][k + 1]
    BY <1>2, SeqFacts DEF Take
  <2>2. InLogs(i)' = InLogs(i)
    BY <1>2 DEF Take, InLogs
  <2>3. ~At(i) /\ (At(i)' <=> i = Head(pending[s]))
    BY <1>2 DEF Take, At, Busy
  <2>4. InPending(i)' <=> \E k \in 1..Len(pending[s]) - 1 : pending[s][k + 1] = i
    BY <2>1 DEF InPending
  <2>5. (\E k \in 1..Len(pending[s]) - 1 : pending[s][k + 1] = i)
        <=> \E k \in 2..Len(pending[s]) : pending[s][k] = i
    <3>1. ASSUME NEW k \in 2..Len(pending[s]), pending[s][k] = i
          PROVE  \E m \in 1..Len(pending[s]) - 1 : pending[s][m + 1] = i
      <4>1. k - 1 \in 1..Len(pending[s]) - 1 /\ (k - 1) + 1 = k
        BY <2>1
      <4>. QED  BY <3>1, <4>1
    <3>2. \A k \in 1..Len(pending[s]) - 1 : k + 1 \in 2..Len(pending[s])
      BY <2>1
    <3>. QED  BY <3>1, <3>2
  <2>6. InPending(i) <=> pending[s][1] = i \/ \E k \in 2..Len(pending[s]) : pending[s][k] = i
    <3>1. 1..Len(pending[s]) = {1} \cup (2..Len(pending[s]))
      BY <2>1
    <3>. QED  BY <3>1 DEF InPending
  <2>7. pending[s][1] = i => ~ \E k \in 2..Len(pending[s]) : pending[s][k] = i
    BY <1>0, <2>1
  <2>. QED  BY <2>1, <2>2, <2>3, <2>4, <2>5, <2>6, <2>7
<1>3. ASSUME Keep(s)
      PROVE  /\ InPending(i)' = InPending(i) /\ ~At(i)'
             /\ At(i) <=> i = cur[s]
             /\ InLogs(i)' <=> InLogs(i) \/ At(i)
  <2>. DEFINE l == [item |-> cur[s], alt |-> alt[s]]
  <2>1. l \in WorkLog /\ l.item = cur[s]
    BY <1>3 DEF Keep, Busy, IInv, OwnInv, Own, OwnWork, TypeOK, WorkLog
  <2>. HIDE DEF l
  <2>2. /\ Len(logs'[s]) = Len(logs[s]) + 1 /\ logs'[s][Len(logs[s]) + 1] = l
        /\ \A k \in 1..Len(logs[s]) : logs'[s][k] = logs[s][k]
        /\ Len(logs[s]) \in Nat
    BY <1>3, <2>1, SeqFacts DEF Keep, l
  <2>3. InPending(i)' = InPending(i) /\ ~At(i)' /\ (At(i) <=> i = cur[s])
    BY <1>3 DEF Keep, InPending, At, Busy
  <2>4. InLogs(i)' <=> (\E k \in 1..Len(logs[s]) : logs[s][k].item = i) \/ l.item = i
    <3>1. 1..Len(logs'[s]) = (1..Len(logs[s])) \cup {Len(logs[s]) + 1}
      BY <2>2
    <3>. QED  BY <2>2, <3>1 DEF InLogs
  <2>. QED  BY <2>1, <2>3, <2>4 DEF InLogs
<1>4. ASSUME Pop(s)
      PROVE  /\ InPending(i)' = InPending(i) /\ ~At(i)
             /\ At(i)' <=> i = logs[s][Len(logs[s])].item
             /\ InLogs(i) <=> InLogs(i)' \/ At(i)'
             /\ ~(InLogs(i)' /\ At(i)')
  <2>1. /\ Len(logs[s]) >= 1 /\ Len(logs[s]) \in Nat /\ Len(logs'[s]) = Len(logs[s]) - 1
        /\ \A k \in 1..Len(logs[s]) - 1 : logs'[s][k] = logs[s][k]
    BY <1>4, SeqFacts DEF Pop
  <2>2. InPending(i)' = InPending(i) /\ ~At(i) /\ (At(i)' <=> i = logs[s][Len(logs[s])].item)
    BY <1>4 DEF Pop, InPending, At, Busy
  <2>3. InLogs(i)' <=> \E k \in 1..Len(logs[s]) - 1 : logs[s][k].item = i
    BY <2>1 DEF InLogs
  <2>4. InLogs(i) <=> (\E k \in 1..Len(logs[s]) - 1 : logs[s][k].item = i) \/ logs[s][Len(logs[s])].item = i
    <3>1. 1..Len(logs[s]) = (1..Len(logs[s]) - 1) \cup {Len(logs[s])}
      BY <2>1
    <3>. QED  BY <3>1 DEF InLogs
  <2>5. logs[s][Len(logs[s])].item = i => ~ \E k \in 1..Len(logs[s]) - 1 : logs[s][k].item = i
    <3>1. \A k \in 1..Len(logs[s]) - 1 : k \in 1..Len(logs[s]) /\ k # Len(logs[s])
      BY <2>1
    <3>2. Len(logs[s]) \in 1..Len(logs[s])
      BY <2>1
    <3>. QED  BY <1>0, <3>1, <3>2
  <2>. QED  BY <2>2, <2>3, <2>4, <2>5
<1>5. ASSUME Adds(s)
      PROVE  /\ InLogs(i)' = InLogs(i) /\ ~At(i)'
             /\ At(i) <=> i = cur[s]
             /\ InPending(i)' <=> InPending(i) \/ i \in Range(Extra[cur[s]])
  <2>1. InLogs(i)' = InLogs(i) /\ ~At(i)' /\ (At(i) <=> i = cur[s])
    BY <1>5 DEF Adds, InLogs, At, Busy
  <2>2. Extra[cur[s]] \in Seq(Items)
    BY <1>5, SagaAssumption DEF Adds, Busy, IInv, OwnInv, Own, OwnWork
  <2>. DEFINE p == Extra[cur[s]]
              q == pending[s]
  <2>3. pending'[s] = p \o q /\ p \in Seq(Items) /\ q \in Seq(Items)
    BY <1>5, <2>2 DEF Adds
  <2>. HIDE DEF p, q
  <2>4. /\ Len(p \o q) = Len(p) + Len(q) /\ Len(p) \in Nat /\ Len(q) \in Nat
        /\ \A k \in 1..Len(p) : (p \o q)[k] = p[k]
        /\ \A k \in 1..Len(q) : (p \o q)[Len(p) + k] = q[k]
    BY <2>3
  <2>5. (\E k \in 1..Len(p \o q) : (p \o q)[k] = i)
        => (\E k \in 1..Len(q) : q[k] = i) \/ (\E k \in 1..Len(p) : p[k] = i)
    BY <2>3, ConcatFacts
  <2>6. \A k \in 1..Len(p) : k \in 1..Len(p \o q)
    BY <2>4
  <2>7. \A k \in 1..Len(q) : Len(p) + k \in 1..Len(p \o q)
    BY <2>4
  <2>8. (\E k \in 1..Len(q) : q[k] = i) \/ (\E k \in 1..Len(p) : p[k] = i)
        => \E k \in 1..Len(p \o q) : (p \o q)[k] = i
    BY <2>4, <2>6, <2>7
  <2>9. i \in Range(p) <=> \E k \in 1..Len(p) : p[k] = i
    BY <2>3, RangeOf
  <2>. QED  BY <2>1, <2>3, <2>5, <2>8, <2>9 DEF InPending, p, q
<1>. QED  BY <1>1, <1>2, <1>3, <1>4, <1>5

\* One order of a sequence: no element twice.
Once(q) == \A m, n \in 1..Len(q) : q[m] = q[n] => m = n

LEMMA ConcatIndex ==
  ASSUME NEW S, NEW p \in Seq(S), NEW q \in Seq(S)
  PROVE  /\ Len(p \o q) = Len(p) + Len(q) /\ Len(p) \in Nat /\ Len(q) \in Nat
         /\ \A k \in 1..Len(p) : (p \o q)[k] = p[k]
         /\ \A k \in 1..Len(p \o q) : k \notin 1..Len(p) => k - Len(p) \in 1..Len(q) /\ (p \o q)[k] = q[k - Len(p)]
<1>1. /\ Len(p \o q) = Len(p) + Len(q) /\ Len(p) \in Nat /\ Len(q) \in Nat
      /\ \A k \in 1..Len(p) : (p \o q)[k] = p[k]
  OBVIOUS
<1>2. ASSUME NEW k \in 1..Len(p \o q), k \notin 1..Len(p)
      PROVE  k - Len(p) \in 1..Len(q) /\ (p \o q)[k] = q[k - Len(p)]
  BY <1>1, <1>2
<1>. QED  BY <1>1, <1>2

LEMMA OnceConcat ==
  ASSUME NEW S, NEW p \in Seq(S), NEW q \in Seq(S), Once(p), Once(q),
         \A m \in 1..Len(p), n \in 1..Len(q) : p[m] # q[n]
  PROVE  Once(p \o q)
<1>1. /\ Len(p \o q) = Len(p) + Len(q) /\ Len(p) \in Nat /\ Len(q) \in Nat
      /\ \A k \in 1..Len(p) : (p \o q)[k] = p[k]
  BY ConcatIndex
<1>2. \A k \in 1..Len(p \o q) : k \notin 1..Len(p) => k - Len(p) \in 1..Len(q) /\ (p \o q)[k] = q[k - Len(p)]
  BY ConcatIndex
<1>. SUFFICES ASSUME NEW m \in 1..Len(p \o q), NEW n \in 1..Len(p \o q), (p \o q)[m] = (p \o q)[n]
     PROVE  m = n
  BY DEF Once
<1>3. CASE m \in 1..Len(p) /\ n \in 1..Len(p)
  BY <1>1, <1>3 DEF Once
<1>4. CASE m \notin 1..Len(p) /\ n \notin 1..Len(p)
  <2>1. m - Len(p) = n - Len(p)
    BY <1>2, <1>4 DEF Once
  <2>. QED  BY <1>1, <2>1
<1>5. CASE (m \in 1..Len(p)) # (n \in 1..Len(p))
  BY <1>1, <1>2, <1>5
<1>. QED  BY <1>3, <1>4, <1>5

LEMMA PlaceInit == ASSUME OneUse, Init PROVE PlaceInv
<1>1. IInv
  BY InvInit
<1>2. \A s \in Slips : logs[s] = <<>> /\ pending[s] = Work[s] /\ phase[s] \notin Busy
  BY DEF Init, Busy
<1>3. \A i \in Items : Owner[i] \in Slips
  BY SagaAssumption DEF Tree
<1>4. \A i \in Items : ~InLogs(i) /\ ~At(i)
  BY <1>2, <1>3 DEF InLogs, At
<1>5. \A i \in Items : InPending(i) => i \in Range(Work[Owner[i]])
  BY <1>2, <1>3, SagaAssumption, RangeOf DEF InPending
<1>6. ASSUME NEW i \in Items, NEW j \in Below(i) PROVE ~Present(j)
  <2>1. \A s \in Slips : j \notin Range(Work[s])
    <3>. DEFINE T == {k \in Items : \A s \in Slips : k \notin Range(Work[s])}
    <3>1. \A k \in Items : AddsTo(k, T)
      BY BelowClosed DEF AddsTo, OneUse
    <3>2. T \in SUBSET Items /\ \A k \in T : AddsTo(k, T)
      BY <3>1
    <3>. HIDE DEF T
    <3>3. j \in T
      BY <1>6, <3>1, <3>2 DEF Below
    <3>. QED  BY <3>3 DEF T
  <2>. QED  BY <1>3, <1>4, <1>5, <2>1, BelowClosed DEF Present
<1>. QED  BY <1>2, <1>4, <1>6 DEF PlaceInv, OneUse

LEMMA PlaceStep ==
  ASSUME OneUse, IInv, IInv', PlaceInv, NEW s \in Slips, Forward(s) \/ Backward(s)
  PROVE  PlaceInv'
<1>0. Others(s) /\ (Rest(s) \/ Take(s) \/ Keep(s) \/ Pop(s) \/ Adds(s))
  BY Moves
<1>. /\ pending[s] \in Seq(Items) /\ logs[s] \in Seq(WorkLog)
     /\ pending'[s] \in Seq(Items) /\ logs'[s] \in Seq(WorkLog)
  BY DEF IInv, TypeOK
<1>1. \A x \in Slips : Once(pending[x])
  BY DEF PlaceInv, Once
<1>2. \A x \in Slips : \A m, n \in 1..Len(logs[x]) : logs[x][m].item = logs[x][n].item => m = n
  BY DEF PlaceInv
<1>3. \A i \in Items : /\ InPending(i) => ~InLogs(i) /\ ~At(i)
                       /\ InLogs(i) => ~At(i)
                       /\ Present(i) => \A j \in Below(i) : ~Present(j)
  BY DEF PlaceInv
<1>. PICK h : h = cur[s]
  OBVIOUS
<1>4. ASSUME Adds(s)
      PROVE  /\ h \in Items /\ Owner[h] = s /\ At(h) /\ Extra[h] \in Seq(Items) /\ Once(Extra[h])
             /\ Range(Extra[h]) \subseteq Below(h) /\ h \notin Below(h) /\ ~Present(h)'
             /\ \A i \in Range(Extra[h]) : ~Present(i)
  <2>1. h \in Items /\ Owner[h] = s /\ At(h)
    BY <1>4 DEF Adds, At, Busy, IInv, OwnInv, Own, OwnWork
  <2>2. Extra[h] \in Seq(Items) /\ Once(Extra[h]) /\ h \notin Below(h)
    BY <2>1, SagaAssumption DEF OneUse, Once
  <2>3. Range(Extra[h]) \subseteq Below(h)
    BY <2>1, BelowClosed
  <2>4. \A i \in Range(Extra[h]) : ~Present(i)
    BY <1>3, <2>1, <2>3 DEF Present
  <2>5. InLogs(h)' = InLogs(h) /\ ~At(h)' /\ (InPending(h)' <=> InPending(h) \/ h \in Range(Extra[cur[s]]))
    BY <1>4, <2>1, PlacesHere
  <2>6. ~Present(h)'
    BY <1>3, <2>1, <2>2, <2>3, <2>5 DEF Present
  <2>. QED  BY <2>1, <2>2, <2>3, <2>4, <2>6
<1>5. \A i \in Items : Present(i)' => Present(i) \/ (Adds(s) /\ i \in Range(Extra[h]))
  <2>. SUFFICES ASSUME NEW i \in Items, Present(i)' PROVE Present(i) \/ (Adds(s) /\ i \in Range(Extra[h]))
    OBVIOUS
  <2>1. CASE Owner[i] # s
    BY <1>0, <2>1, PlacesElsewhere DEF Present
  <2>2. CASE Owner[i] = s
    <3>1. CASE Rest(s)
      BY <2>2, <3>1, PlacesHere DEF Present
    <3>2. CASE Take(s)
      BY <2>2, <3>2, PlacesHere DEF Present
    <3>3. CASE Keep(s)
      BY <2>2, <3>3, PlacesHere DEF Present
    <3>4. CASE Pop(s)
      BY <2>2, <3>4, PlacesHere DEF Present
    <3>5. CASE Adds(s)
      BY <2>2, <3>5, PlacesHere DEF Present
    <3>. QED  BY <1>0, <3>1, <3>2, <3>3, <3>4, <3>5
  <2>. QED  BY <2>1, <2>2
<1>6. ASSUME NEW x \in Slips PROVE Once(pending'[x])
  <2>1. CASE x # s \/ Rest(s) \/ Keep(s) \/ Pop(s)
    <3>1. pending'[x] = pending[x]
      BY <1>0, <2>1 DEF Others, Rest, Keep, Pop
    <3>. QED  BY <1>1, <3>1
  <2>2. CASE x = s /\ Take(s)
    <3>1. /\ Len(pending'[s]) = Len(pending[s]) - 1 /\ Len(pending[s]) \in Nat
          /\ \A k \in 1..Len(pending[s]) - 1 : pending'[s][k] = pending[s][k + 1]
      BY <2>2, SeqFacts DEF Take
    <3>2. \A k \in 1..Len(pending[s]) - 1 : k + 1 \in 1..Len(pending[s])
      BY <3>1
    <3>. SUFFICES ASSUME NEW m \in 1..Len(pending'[s]), NEW n \in 1..Len(pending'[s]), pending'[s][m] = pending'[s][n]
                  PROVE  m = n
      BY <2>2 DEF Once
    <3>3. m \in 1..Len(pending[s]) - 1 /\ n \in 1..Len(pending[s]) - 1
      BY <3>1
    <3>4. pending[s][m + 1] = pending[s][n + 1]
      BY <3>1, <3>3
    <3>5. m + 1 = n + 1
      BY <1>1, <3>2, <3>3, <3>4 DEF Once
    <3>. QED  BY <3>1, <3>5
  <2>3. CASE x = s /\ Adds(s)
    <3>1. pending'[s] = Extra[h] \o pending[s] /\ Once(pending[s])
      BY <1>1, <2>3 DEF Adds
    <3>2. ASSUME NEW m \in 1..Len(Extra[h]), NEW n \in 1..Len(pending[s]) PROVE Extra[h][m] # pending[s][n]
      <4>1. Extra[h][m] \in Range(Extra[h])
        BY <1>4, <2>3, RangeOf
      <4>2. pending[s][n] \in Items /\ Owner[pending[s][n]] = s
        BY DEF IInv, OwnInv, Own, OwnPending
      <4>3. InPending(pending[s][n])
        BY <4>2 DEF InPending
      <4>. QED  BY <1>4, <2>3, <4>1, <4>3 DEF Present
    <3>. QED  BY <1>4, <2>3, <3>1, <3>2, OnceConcat
  <2>. QED  BY <1>0, <2>1, <2>2, <2>3
<1>7. ASSUME NEW x \in Slips, NEW m \in 1..Len(logs'[x]), NEW n \in 1..Len(logs'[x]),
             logs'[x][m].item = logs'[x][n].item
      PROVE  m = n
  <2>1. CASE x # s \/ Rest(s) \/ Take(s) \/ Adds(s)
    <3>1. logs'[x] = logs[x]
      BY <1>0, <2>1 DEF Others, Rest, Take, Adds
    <3>. QED  BY <1>2, <1>7, <3>1
  <2>2. CASE x = s /\ Pop(s)
    <3>1. /\ Len(logs'[s]) = Len(logs[s]) - 1 /\ Len(logs[s]) \in Nat
          /\ \A k \in 1..Len(logs[s]) - 1 : logs'[s][k] = logs[s][k]
      BY <2>2, SeqFacts DEF Pop
    <3>2. m \in 1..Len(logs[s]) /\ n \in 1..Len(logs[s]) /\ logs'[s][m] = logs[s][m] /\ logs'[s][n] = logs[s][n]
      BY <2>2, <3>1
    <3>. QED  BY <1>2, <1>7, <2>2, <3>2
  <2>3. CASE x = s /\ Keep(s)
    <3>. DEFINE l == [item |-> cur[s], alt |-> alt[s]]
    <3>1. cur[s] \in Items /\ Owner[cur[s]] = s /\ At(cur[s]) /\ l \in WorkLog /\ l.item = cur[s]
      BY <2>3 DEF Keep, At, Busy, IInv, OwnInv, Own, OwnWork, TypeOK, WorkLog
    <3>2. ~InLogs(cur[s])
      BY <1>3, <3>1
    <3>. HIDE DEF l
    <3>3. \A k \in 1..Len(logs[s]) : logs[s][k].item # l.item
      BY <3>1, <3>2 DEF InLogs
    <3>4. /\ Len(logs'[s]) = Len(logs[s]) + 1 /\ logs'[s][Len(logs[s]) + 1] = l
          /\ \A k \in 1..Len(logs[s]) : logs'[s][k] = logs[s][k]
          /\ Len(logs[s]) \in Nat
      BY <2>3, <3>1, SeqFacts DEF Keep, l
    <3>5. (m \in 1..Len(logs[s]) \/ m = Len(logs[s]) + 1) /\ (n \in 1..Len(logs[s]) \/ n = Len(logs[s]) + 1)
      BY <2>3, <3>4
    <3>. QED  BY <1>2, <1>7, <2>3, <3>3, <3>4, <3>5
  <2>. QED  BY <1>0, <2>1, <2>2, <2>3
<1>8. ASSUME NEW i \in Items
      PROVE  /\ InPending(i)' => ~InLogs(i)' /\ ~At(i)'
             /\ InLogs(i)' => ~At(i)'
  <2>1. CASE Owner[i] # s
    BY <1>0, <1>3, <2>1, PlacesElsewhere
  <2>2. CASE Owner[i] = s
    <3>1. CASE Rest(s)
      BY <1>3, <2>2, <3>1, PlacesHere
    <3>2. CASE Take(s)
      BY <1>3, <2>2, <3>2, PlacesHere
    <3>3. CASE Keep(s)
      BY <1>3, <2>2, <3>3, PlacesHere
    <3>4. CASE Pop(s)
      BY <1>3, <2>2, <3>4, PlacesHere
    <3>5. CASE Adds(s)
      BY <1>3, <1>4, <2>2, <3>5, PlacesHere DEF Present
    <3>. QED  BY <1>0, <3>1, <3>2, <3>3, <3>4, <3>5
  <2>. QED  BY <2>1, <2>2
<1>9. ASSUME NEW i \in Items, Present(i)', NEW j \in Below(i), Present(j)' PROVE FALSE
  <2>0. j \in Items /\ Below(j) \subseteq Below(i) /\ i \notin Below(i)
    BY BelowClosed DEF OneUse
  <2>1. CASE Present(i) /\ Present(j)
    BY <1>3, <2>1
  <2>2. CASE Present(i) /\ Adds(s) /\ j \in Range(Extra[h])
    <3>1. h = i \/ h \in Below(i)
      BY <1>4, <2>2, BelowParent
    <3>2. Present(h)
      BY <1>4, <2>2 DEF Present
    <3>. QED  BY <1>3, <1>4, <1>9, <2>2, <3>1, <3>2
  <2>3. CASE Adds(s) /\ i \in Range(Extra[h])
    <3>1. i \in Below(h) /\ Below(i) \subseteq Below(h) /\ Present(h)
      BY <1>4, <2>3, BelowClosed DEF Present
    <3>2. ~Present(j)
      BY <1>3, <1>4, <2>3, <3>1
    <3>3. j \in Range(Extra[h])
      BY <1>5, <1>9, <2>0, <3>2
    <3>4. h = i \/ h \in Below(i)
      BY <1>4, <2>3, <3>3, BelowParent
    <3>. QED  BY <1>4, <2>3, <3>1, <3>4
  <2>. QED  BY <1>5, <1>9, <2>0, <2>1, <2>2, <2>3
<1>10. \A i \in Items : Present(i)' => \A j \in Below(i) : ~Present(j)'
  BY <1>9
<1>11. \A x \in Slips : \A m, n \in 1..Len(pending'[x]) : pending'[x][m] = pending'[x][n] => m = n
  BY <1>6 DEF Once
<1>12. \A x \in Slips : \A m, n \in 1..Len(logs'[x]) : logs'[x][m].item = logs'[x][n].item => m = n
  BY <1>7
<1>13. \A i \in Items : /\ InPending(i)' => ~InLogs(i)' /\ ~At(i)'
                        /\ InLogs(i)' => ~At(i)'
                        /\ Present(i)' => \A j \in Below(i) : ~Present(j)'
  BY <1>8, <1>10
<1>. QED  BY <1>11, <1>12, <1>13 DEF PlaceInv

LEMMA PlaceInvariance == ASSUME OneUse PROVE Spec => [](IInv /\ PlaceInv)
<1>1. Init => IInv /\ PlaceInv
  BY InvInit, PlaceInit
<1>2. IInv /\ PlaceInv /\ [Next]_vars => (IInv /\ PlaceInv)'
  <2>. SUFFICES ASSUME IInv, PlaceInv, [Next]_vars PROVE IInv' /\ PlaceInv'
    OBVIOUS
  <2>1. IInv'
    BY InvStep
  <2>2. CASE UNCHANGED vars
    BY <2>1, <2>2 DEF vars, PlaceInv, Present, InPending, InLogs, At
  <2>3. CASE Next
    BY <2>1, <2>3, PlaceStep DEF Next
  <2>. QED  BY <2>1, <2>2, <2>3
<1>. QED  BY <1>1, <1>2, PTL DEF Spec

-----------------------------------------------------------------------------
(***************************************************************************)
(* Work that is logged, or is being compensated, is in place.               *)
(***************************************************************************)
Back(i) == phase[Owner[i]] = "undoing" /\ cur[Owner[i]] = i

LEMMA LoggedPlace == IInv => \A i \in Leaves : i \in Logged <=> InLogs(i) \/ Back(i)
<1>. SUFFICES ASSUME IInv, NEW i \in Leaves PROVE i \in Logged <=> InLogs(i) \/ Back(i)
  OBVIOUS
<1>1. Owner[i] \in Slips /\ i \in Items
  BY SagaAssumption DEF Tree, Leaves
<1>2. ASSUME NEW s \in Slips PROVE i \in LoggedItems(s) <=> \E k \in 1..Len(logs[s]) : logs[s][k].item = i
  BY DEF LoggedItems, Range, IInv, TypeOK
<1>3. ASSUME NEW s \in Slips, NEW k \in 1..Len(logs[s]) PROVE Owner[logs[s][k].item] = s
  BY DEF IInv, OwnInv, Own, OwnLogs, OwnLog
<1>4. ASSUME NEW s \in Slips, phase[s] = "undoing" PROVE Owner[cur[s]] = s
  BY <1>4 DEF Busy, IInv, OwnInv, Own, OwnWork
<1>. QED  BY <1>1, <1>2, <1>3, <1>4 DEF Logged, InLogs, Back

LEMMA LoggedPlaceNext == IInv' => \A i \in Leaves : i \in Logged' <=> InLogs(i)' \/ Back(i)'
<1>1. (IInv => \A i \in Leaves : i \in Logged <=> InLogs(i) \/ Back(i))'
  BY LoggedPlace, PTL
<1>. QED  BY <1>1

LEMMA LoggedFrom ==
  ASSUME IInv, IInv', PlaceInv, NEW s \in Slips, Forward(s) \/ Backward(s), NEW i \in Leaves, i \in Logged'
  PROVE  i \in Logged \/ (Keep(s) /\ i = cur[s])
<1>1. Others(s) /\ (Rest(s) \/ Take(s) \/ Keep(s) \/ Pop(s) \/ Adds(s))
  BY Moves
<1>2. i \in Items /\ Owner[i] \in Slips
  BY SagaAssumption DEF Tree, Leaves
<1>3. InLogs(i)' \/ Back(i)'
  <2>1. i \in Logged' <=> InLogs(i)' \/ Back(i)'
    BY LoggedPlaceNext
  <2>. QED  BY <2>1
<1>4. i \in Logged <=> InLogs(i) \/ Back(i)
  BY LoggedPlace
<1>5. CASE Owner[i] # s
  <2>1. Back(i)' => Back(i)
    BY <1>1, <1>2, <1>5 DEF Back, Others, Started
  <2>. QED  BY <1>1, <1>2, <1>3, <1>4, <1>5, <2>1, PlacesElsewhere
<1>6. CASE Owner[i] = s
  <2>1. CASE Rest(s)
    <3>1. InLogs(i)' = InLogs(i) /\ ~Back(i)'
      BY <1>2, <1>6, <2>1, PlacesHere DEF Rest, Back, Busy
    <3>. QED  BY <1>3, <1>4, <3>1
  <2>2. CASE Take(s) \/ Adds(s)
    <3>1. InLogs(i)' = InLogs(i) /\ ~Back(i)'
      BY <1>2, <1>6, <2>2, PlacesHere DEF Take, Adds, Back
    <3>. QED  BY <1>3, <1>4, <3>1
  <2>3. CASE Keep(s)
    <3>1. ~Back(i)' /\ (InLogs(i)' <=> InLogs(i) \/ At(i)) /\ (At(i) <=> i = cur[s])
      BY <1>2, <1>6, <2>3, PlacesHere DEF Keep, Back
    <3>. QED  BY <1>3, <1>4, <2>3, <3>1
  <2>4. CASE Pop(s)
    <3>1. InLogs(i) <=> InLogs(i)' \/ At(i)'
      BY <1>2, <1>6, <2>4, PlacesHere
    <3>2. Back(i)' => At(i)'
      BY DEF Back, At, Busy
    <3>. QED  BY <1>3, <1>4, <3>1, <3>2
  <2>. QED  BY <1>1, <2>1, <2>2, <2>3, <2>4
<1>. QED  BY <1>5, <1>6

LEMMA LoggedIsAppliedStep ==
  ASSUME IInv, IInv', PlaceInv, LoggedIsApplied, NEW s \in Slips, Forward(s) \/ Backward(s)
  PROVE  LoggedIsApplied'
<1>. SUFFICES ASSUME NEW i \in Leaves, i \in Logged' PROVE i \in applied'
  BY DEF LoggedIsApplied, Logged
<1>1. i \in Logged \/ (Keep(s) /\ i = cur[s])
  BY LoggedFrom
<1>2. CASE LeafSucceeds(s)
  BY <1>1, <1>2 DEF LeafSucceeds, LoggedIsApplied
<1>3. CASE LeafCompensated(s) \/ LeafResumes(s)
  <2>1. /\ phase[s] = "undoing" /\ applied' = applied \ {cur[s]} /\ UNCHANGED <<logs, cur>>
        /\ phase'[s] \in {"forward", "backward"}
    BY <1>3 DEF LeafCompensated, LeafResumes, Undoing, UndoGoes, IInv, TypeOK
  <2>2. cur[s] \in Items /\ Owner[cur[s]] = s
    BY <2>1 DEF Busy, IInv, OwnInv, Own, OwnWork
  <2>3. i # cur[s]
    <3>1. SUFFICES ASSUME i = cur[s] PROVE FALSE
      OBVIOUS
    <3>2. At(i) /\ ~InLogs(i) /\ ~InLogs(i)' /\ ~Back(i)'
      BY <2>1, <2>2, <3>1 DEF At, Busy, PlaceInv, InLogs, Back
    <3>3. i \in Logged' <=> InLogs(i)' \/ Back(i)'
      BY LoggedPlaceNext
    <3>. QED  BY <3>2, <3>3
  <2>4. i \in Logged
    BY <1>1, <2>1 DEF Keep
  <2>. QED  BY <2>1, <2>3, <2>4 DEF LoggedIsApplied
<1>4. CASE ~(LeafSucceeds(s) \/ LeafCompensated(s) \/ LeafResumes(s))
  <2>1. applied' = applied
    BY <1>4 DEF Forward, Backward, ProcessNext, Finish, LeafFails, LeafCancelled, ParallelJoins, ParallelFails,
         ParallelAborted, NextAlternative, AlternativeSucceeds, FallbackFails, FallbackCancelled, UndoLast, Undo,
         Undone, LeafCompensationRaises, ParallelCompensated, FallbackCompensated
  <2>2. ~(Keep(s) /\ i = cur[s])
    <3>. SUFFICES ASSUME phase[s] = "working", phase'[s] = "forward", i = cur[s] PROVE FALSE
      BY DEF Keep
    <3>1. Kind[cur[s]] = "leaf"
      BY DEF Leaves
    <3>2. ~ParallelJoins(s) /\ ~AlternativeSucceeds(s) /\ ~NextAlternative(s)
      BY <3>1 DEF ParallelJoins, AlternativeSucceeds, NextAlternative, Working
    <3>3. ~LeafFails(s) /\ ~LeafCancelled(s) /\ ~ParallelFails(s) /\ ~FallbackFails(s) /\ ~FallbackCancelled(s)
      BY <3>1 DEF LeafFails, LeafCancelled, ParallelFails, FallbackFails, FallbackCancelled, WorkFailed, Working, IInv, TypeOK
    <3>. QED  BY <1>4, <3>2, <3>3 DEF Forward, Backward, ProcessNext, Finish, ParallelAborted, UndoLast,
                Undone, LeafCompensationRaises, ParallelCompensated, FallbackCompensated, Undoing
  <2>. QED  BY <1>1, <2>1, <2>2 DEF LoggedIsApplied
<1>. QED  BY <1>2, <1>3, <1>4

\* No compensation runs for work that is not in place, whatever the activities do, if an
\* item is one piece of work: the same item twice in a slip would be compensated twice.
THEOREM CompensatesWorkInPlace == ASSUME OneUse PROVE Spec => []LoggedIsApplied
<1>1. Init => LoggedIsApplied
  BY DEF Init, LoggedIsApplied, Logged, LoggedItems, Range
<1>2. IInv /\ IInv' /\ PlaceInv /\ LoggedIsApplied /\ [Next]_vars => LoggedIsApplied'
  <2>. SUFFICES ASSUME IInv, IInv', PlaceInv, LoggedIsApplied, [Next]_vars PROVE LoggedIsApplied'
    OBVIOUS
  <2>1. CASE UNCHANGED vars
    BY <2>1 DEF vars, LoggedIsApplied, Logged, LoggedItems
  <2>. QED  BY <2>1, LoggedIsAppliedStep DEF Next
<1>. QED  BY <1>1, <1>2, PlaceInvariance, PTL DEF Spec

-----------------------------------------------------------------------------
(***************************************************************************)
(* The forward path resumes with what a compensation added.                 *)
(***************************************************************************)
LEMMA NextInit == ASSUME OneUse, Init PROVE NextInv
<1>. SUFFICES ASSUME NEW s \in Slips, NEW k \in 1..Len(Work[s]), NEW i \in Items, Extra[i] # <<>>
              PROVE  Work[s][k] # Extra[i][1]
  BY DEF Init, NextInv
<1>1. Work[s][k] \in Range(Work[s])
  BY SagaAssumption, RangeOf
<1>2. Extra[i][1] \in Range(Extra[i])
  BY SagaAssumption DEF Range
<1>. QED  BY <1>1, <1>2 DEF OneUse

LEMMA NextStep ==
  ASSUME OneUse, AddsInRoot, IInv, NextInv, NEW s \in Slips, Forward(s) \/ Backward(s)
  PROVE  NextInv'
<1>. SUFFICES ASSUME NEW x \in Slips, NEW k \in 1..Len(pending'[x]), NEW i \in Items,
                     Extra[i] # <<>>, pending'[x][k] = Extra[i][1]
              PROVE  phase'[x] = "forward" /\ k = 1
  BY DEF NextInv
<1>1. Others(s) /\ (Rest(s) \/ Take(s) \/ Keep(s) \/ Pop(s) \/ Adds(s))
  BY Moves
<1>2. \A n \in 1..Len(pending[x]) : pending[x][n] = Extra[i][1] => phase[x] = "forward" /\ n = 1
  BY DEF NextInv
<1>3. pending[s] \in Seq(Items)
  BY DEF IInv, TypeOK
<1>4. CASE x # s
  BY <1>1, <1>2, <1>4 DEF Others, Started, Quiet
<1>5. CASE x = s /\ (Rest(s) \/ Keep(s) \/ Pop(s))
  <2>1. pending'[s] = pending[s]
    BY <1>5 DEF Rest, Keep, Pop
  <2>2. phase[s] = "forward" /\ k \in 1..Len(pending[s])
    BY <1>2, <1>5, <2>1
  <2>3. pending[s] # <<>>
    BY <2>2
  <2>. QED  BY <1>5, <2>2, <2>3 DEF Rest, Keep, Pop
<1>6. CASE x = s /\ Take(s)
  <2>1. /\ Len(pending'[s]) = Len(pending[s]) - 1 /\ Len(pending[s]) \in Nat
        /\ \A n \in 1..Len(pending[s]) - 1 : pending'[s][n] = pending[s][n + 1]
    BY <1>3, <1>6, SeqFacts DEF Take
  <2>2. k \in 1..Len(pending[s]) - 1 /\ k + 1 \in 1..Len(pending[s]) /\ k + 1 # 1
    BY <1>6, <2>1
  <2>3. pending[s][k + 1] = Extra[i][1]
    BY <1>6, <2>1, <2>2
  <2>. QED  BY <1>2, <1>6, <2>2, <2>3
<1>7. CASE x = s /\ Adds(s)
  <2>. PICK h : h = cur[s]
    OBVIOUS
  <2>1. h \in Items /\ Owner[h] = s /\ Extra[h] \in Seq(Items)
    BY <1>7, SagaAssumption DEF Adds, Busy, IInv, OwnInv, Own, OwnWork
  <2>2. /\ pending'[s] = Extra[h] \o pending[s] /\ Extra[h] # <<>> /\ phase[s] = "undoing"
        /\ phase'[s] = IF s = Root THEN "forward" ELSE "backward"
    BY <1>7 DEF Adds
  <2>3. s = Root
    BY <2>1, <2>2 DEF AddsInRoot
  <2>4. \A n \in 1..Len(pending[s]) : pending[s][n] # Extra[i][1]
    BY <1>2, <1>7, <2>2
  <2>5. k \in 1..Len(pending'[s]) /\ pending'[s][k] = Extra[i][1]
    BY <1>7
  <2>6. k \in 1..Len(Extra[h]) /\ Extra[h][k] = Extra[i][1]
    <3>. DEFINE p == Extra[h]
                q == pending[s]
                e == Extra[i][1]
    <3>1. p \in Seq(Items) /\ q \in Seq(Items) /\ \A n \in 1..Len(q) : q[n] # e
      BY <1>3, <2>1, <2>4
    <3>2. k \in 1..Len(p \o q) /\ (p \o q)[k] = e
      BY <2>2, <2>5
    <3>. HIDE DEF p, q, e
    <3>3. k \in 1..Len(p) /\ p[k] = e
      BY <3>1, <3>2, ConcatIndex
    <3>. QED  BY <3>3 DEF p, e
  <2>7. Extra[i][1] \in Range(Extra[h]) /\ Extra[i][1] \in Range(Extra[i])
    <3>1. Extra[h][k] \in Range(Extra[h])
      BY <2>1, <2>6, RangeOf
    <3>2. Extra[i][1] \in Range(Extra[i])
      BY SagaAssumption DEF Range
    <3>. QED  BY <2>6, <3>1, <3>2
  <2>8. i = h
    BY <2>1, <2>7 DEF OneUse
  <2>9. k = 1
    <3>1. 1 \in 1..Len(Extra[h])
      BY <2>6
    <3>. QED  BY <2>1, <2>6, <2>8, <3>1 DEF OneUse
  <2>. QED  BY <1>7, <2>2, <2>3, <2>9
<1>. QED  BY <1>1, <1>4, <1>5, <1>6, <1>7

\* Where compensations add work in the root only, what they put first in its queue is taken up
\* before its backward path goes on.
THEOREM TakesUpAddedWork == ASSUME OneUse, AddsInRoot PROVE Spec => []AddedWorkIsDone
<1>1. Init => NextInv
  BY NextInit
<1>2. IInv /\ NextInv /\ [Next]_vars => NextInv'
  <2>1. ASSUME NextInv, UNCHANGED vars PROVE NextInv'
    BY <2>1 DEF vars, NextInv
  <2>. QED  BY <2>1, NextStep DEF Next
<1>3. IInv /\ NextInv => AddedWorkIsDone
  <2>. SUFFICES ASSUME IInv, NextInv, NEW s \in Slips, phase[s] = "failed", NEW i \in Items, Extra[i] # <<>>
                PROVE  Extra[i][1] \notin Range(pending[s])
    BY DEF AddedWorkIsDone
  <2>1. pending[s] \in Seq(Items)
    BY DEF IInv, TypeOK
  <2>2. \A k \in 1..Len(pending[s]) : pending[s][k] # Extra[i][1]
    BY DEF NextInv
  <2>. QED  BY <2>1, <2>2, RangeOf
<1>. QED  BY <1>1, <1>2, <1>3, Invariance, PTL DEF Spec

-----------------------------------------------------------------------------
(***************************************************************************)
(* Which slips a step of s starts.                                          *)
(***************************************************************************)
Branch(s, x) == /\ ProcessNext(s) /\ Kind[Head(pending[s])] = "parallel"
                /\ x \in Branches(Head(pending[s])) /\ phase'[x] = "forward"
Try(s, x)    == NextAlternative(s) /\ x = Subs[cur[s]][alt[s] + 1] /\ phase'[x] = "forward"
Abort(s, x)  == ParallelFails(s) /\ x \in Branches(cur[s]) /\ phase'[x] = "backward"
Undrive(s, x) == UndoLast(s) /\ x \in Compensated(logs[s][Len(logs[s])]) /\ phase'[x] = "backward"

LEMMA Starts ==
  ASSUME IInv, NEW s \in Slips, Forward(s) \/ Backward(s), NEW x \in Slips, x # s, phase'[x] # phase[x]
  PROVE  Branch(s, x) \/ Try(s, x) \/ Abort(s, x) \/ Undrive(s, x)
<1>1. CASE ProcessNext(s)
  <2>. DEFINE started == IF Kind[Head(pending[s])] = "parallel" THEN Branches(Head(pending[s])) ELSE {}
  <2>1. phase'[x] = IF x \in started THEN "forward" ELSE phase[x]
    BY <1>1 DEF ProcessNext, Drive
  <2>. QED  BY <1>1, <2>1 DEF Branch
<1>2. CASE NextAlternative(s)
  <2>1. phase'[x] = IF x = Subs[cur[s]][alt[s] + 1] THEN "forward" ELSE phase[x]
    BY <1>2 DEF NextAlternative, Drive
  <2>. QED  BY <1>2, <2>1 DEF Try
<1>3. CASE ParallelFails(s)
  <2>1. phase'[x] = IF x \in Branches(cur[s]) THEN "backward" ELSE phase[x]
    BY <1>3 DEF ParallelFails, Drive
  <2>. QED  BY <1>3, <2>1 DEF Abort
<1>4. CASE UndoLast(s)
  <2>1. phase'[x] = IF x \in Compensated(logs[s][Len(logs[s])]) THEN "backward" ELSE phase[x]
    BY <1>4 DEF UndoLast, Undo, Drive
  <2>. QED  BY <1>4, <2>1 DEF Undrive
<1>5. ASSUME NEW to, phase' = [phase EXCEPT ![s] = to] PROVE FALSE
  BY <1>5 DEF IInv, TypeOK
<1>6. CASE \/ Finish(s) \/ LeafSucceeds(s) \/ LeafFails(s) \/ LeafCancelled(s) \/ ParallelJoins(s) \/ ParallelAborted(s)
           \/ AlternativeSucceeds(s) \/ FallbackFails(s) \/ FallbackCancelled(s) \/ Undone(s)
  BY <1>5, <1>6 DEF Finish, LeafSucceeds, LeafFails, LeafCancelled, ParallelJoins, ParallelAborted,
     AlternativeSucceeds, FallbackFails, FallbackCancelled, Undone, WorkDone, WorkFailed
<1>7. CASE \/ LeafCompensated(s) \/ LeafResumes(s) \/ LeafCompensationRaises(s)
           \/ ParallelCompensated(s) \/ FallbackCompensated(s)
  BY <1>5, <1>7 DEF LeafCompensated, LeafResumes, LeafCompensationRaises, ParallelCompensated, FallbackCompensated, UndoGoes
<1>. QED  BY <1>1, <1>2, <1>3, <1>4, <1>6, <1>7 DEF Forward, Backward

\* A slip is in one item, and not of the slip it belongs to.
LEMMA OneHolder ==
  /\ \A i, j \in Items : \A b \in Branches(i) : b \in Branches(j) => i = j
  /\ \A i \in Items : Owner[i] \in Slips /\ Owner[i] \notin Branches(i)
BY SagaAssumption DEF Tree

-----------------------------------------------------------------------------
(***************************************************************************)
(* What has not been started is idle, and work is neither lost nor skipped   *)
(* on the way forward.                                                      *)
(***************************************************************************)
LEMMA UpcomingFrom ==
  ASSUME OneUse, IInv, IInv', PlaceInv, NEW s \in Slips, Forward(s) \/ Backward(s), NEW i \in Items, Upcoming(i)'
  PROVE  Upcoming(i)
<1>1. Others(s) /\ (Rest(s) \/ Take(s) \/ Keep(s) \/ Pop(s) \/ Adds(s))
  BY Moves
<1>. PICK h : h = cur[s]
  OBVIOUS
<1>2. Adds(s) => h \in Items /\ Owner[h] = s /\ Present(h) /\ Range(Extra[h]) \subseteq Below(h)
  BY BelowClosed DEF Adds, At, Present, Busy, IInv, OwnInv, Own, OwnWork
<1>3. ASSUME NEW j \in Items, Owner[j] # s PROVE InPending(j)' = InPending(j) /\ Present(j)' = Present(j)
  BY <1>1, <1>3, PlacesElsewhere DEF Present
<1>4. ASSUME NEW j \in Items, Owner[j] = s
      PROVE  /\ InPending(j)' => InPending(j) \/ (Adds(s) /\ j \in Range(Extra[h]))
             /\ Present(j)' => Present(j) \/ (Adds(s) /\ j \in Range(Extra[h]))
  <2>1. CASE Rest(s)
    BY <1>4, <2>1, PlacesHere DEF Present
  <2>2. CASE Take(s)
    BY <1>4, <2>2, PlacesHere DEF Present
  <2>3. CASE Keep(s)
    BY <1>4, <2>3, PlacesHere DEF Present
  <2>4. CASE Pop(s)
    BY <1>4, <2>4, PlacesHere DEF Present
  <2>5. CASE Adds(s)
    BY <1>4, <2>5, PlacesHere DEF Present
  <2>. QED  BY <1>1, <2>1, <2>2, <2>3, <2>4, <2>5
<1>5. CASE InPending(i)'
  BY <1>2, <1>3, <1>4, <1>5 DEF Upcoming
<1>6. CASE \E j \in Items : Present(j)' /\ i \in Below(j)
  <2>. PICK j \in Items : Present(j)' /\ i \in Below(j)
    BY <1>6
  <2>1. CASE Present(j)
    BY <2>1 DEF Upcoming
  <2>2. CASE Adds(s) /\ j \in Range(Extra[h])
    BY <1>2, <2>2, BelowClosed DEF Upcoming
  <2>. QED  BY <1>3, <1>4, <2>1, <2>2
<1>. QED  BY <1>5, <1>6 DEF Upcoming

LEMMA IdleStep ==
  ASSUME OneUse, IInv, IInv', PlaceInv, PlaceInv', IdleInv, NEW s \in Slips, Forward(s) \/ Backward(s)
  PROVE  IdleInv'
<1>1. Others(s)
  BY Moves
<1>2. phase[s] # "idle"
  BY DEF Forward, Backward, ProcessNext, Finish, LeafSucceeds, LeafFails, LeafCancelled, ParallelJoins, ParallelFails,
     ParallelAborted, NextAlternative, AlternativeSucceeds, FallbackFails, FallbackCancelled, UndoLast, Undone,
     LeafCompensated, LeafResumes, LeafCompensationRaises, ParallelCompensated, FallbackCompensated, Working, Undoing
<1>3. ASSUME NEW i \in Items, Upcoming(i)', NEW b \in Branches(i) PROVE phase'[b] = "idle"
  <2>1. phase[b] = "idle" /\ b \in Slips /\ b # s
    BY <1>2, <1>3, UpcomingFrom, BranchSlips DEF IdleInv
  <2>2. ASSUME Started(s, b) PROVE FALSE
    <3>1. At(i)'
      BY <2>2, OneHolder DEF Started, At
    <3>2. /\ InPending(i)' => ~At(i)'
          /\ \A j \in Items : Present(j)' => \A k \in Below(j) : ~Present(k)'
      BY DEF PlaceInv
    <3>3. Present(i)' /\ ~InPending(i)'
      BY <3>1, <3>2 DEF Present
    <3>4. PICK j \in Items : Present(j)' /\ i \in Below(j)
      BY <1>3, <3>3 DEF Upcoming
    <3>. QED  BY <3>2, <3>3, <3>4
  <2>. QED  BY <1>1, <2>1, <2>2 DEF Others
<1>4. ASSUME NEW i \in Items, At(i)', phase'[Owner[i]] = "working", Kind[i] = "fallback",
             NEW n \in 1..Len(Subs[i]), n > alt'[Owner[i]]
      PROVE  phase'[Subs[i][n]] = "idle"
  <2>. DEFINE b == Subs[i][n]
  <2>1. b \in Branches(i) /\ b \in Slips /\ Owner[i] \in Slips /\ Owner[i] # b
    BY BranchOf, BranchSlips, OneHolder
  <2>2. CASE Owner[i] # s
    <3>1. At(i) /\ phase[Owner[i]] = "working" /\ alt'[Owner[i]] = alt[Owner[i]]
      BY <1>1, <1>4, <2>1, <2>2 DEF Others, Started, At
    <3>2. phase[b] = "idle"
      BY <1>4, <3>1 DEF IdleInv
    <3>3. ~Started(s, b)
      BY <2>1, <2>2, OneHolder DEF Started
    <3>. QED  BY <1>1, <1>2, <2>1, <3>2, <3>3 DEF Others
  <2>3. CASE Owner[i] = s
    <3>0. cur'[s] = i /\ phase'[s] = "working" /\ b # s
      BY <1>4, <2>1, <2>3 DEF At
    <3>1. ProcessNext(s) \/ NextAlternative(s)
      BY <3>0 DEF IInv, TypeOK, Drive, Forward, Backward, Finish, LeafSucceeds, LeafFails, LeafCancelled, ParallelJoins,
         ParallelFails, ParallelAborted, AlternativeSucceeds, FallbackFails, FallbackCancelled, WorkDone, WorkFailed,
         UndoLast, Undo, Undone, LeafCompensated, LeafResumes, LeafCompensationRaises, ParallelCompensated,
         FallbackCompensated, UndoGoes
    <3>2. CASE ProcessNext(s)
      <4>1. i = Head(pending[s]) /\ pending[s] # <<>> /\ pending[s] \in Seq(Items)
        BY <3>0, <3>2 DEF ProcessNext, IInv, TypeOK
      <4>2. pending[s][1] = i /\ 1 \in 1..Len(pending[s])
        BY <4>1, SeqFacts
      <4>3. Upcoming(i)
        BY <2>3, <4>2 DEF Upcoming, InPending
      <4>4. phase[b] = "idle"
        BY <2>1, <4>3 DEF IdleInv
      <4>5. ~Branch(s, b)
        BY <1>4, <4>1 DEF Branch
      <4>6. ~Try(s, b) /\ ~Abort(s, b) /\ ~Undrive(s, b)
        BY <3>2 DEF ProcessNext, Try, Abort, Undrive, NextAlternative, ParallelFails, UndoLast, Working
      <4>. HIDE DEF b
      <4>7. phase'[b] = phase[b]
        BY <2>1, <3>0, <4>5, <4>6, Starts
      <4>. QED  BY <4>4, <4>7 DEF b
    <3>3. CASE NextAlternative(s)
      <4>1. /\ cur[s] = i /\ alt'[s] = alt[s] + 1 /\ phase[s] = "working" /\ alt[s] \in Nat
            /\ alt[s] < Len(Subs[i]) /\ Len(Subs[i]) \in Nat
        BY <3>0, <3>3, SagaAssumption DEF NextAlternative, Working, IInv, TypeOK
      <4>2. n > alt[s] + 1 /\ n > alt[s] /\ alt[s] + 1 \in 1..Len(Subs[i])
        BY <1>4, <2>3, <4>1
      <4>3. phase[b] = "idle"
        BY <1>4, <2>3, <4>1, <4>2 DEF IdleInv, At, Busy
      <4>4. b # Subs[i][alt[s] + 1]
        BY <4>2, SagaAssumption DEF Tree
      <4>5. phase'[b] = phase[b]
        BY <2>1, <3>0, <3>3, <4>1, <4>4 DEF NextAlternative, Drive
      <4>. QED  BY <4>3, <4>5
    <3>. QED  BY <3>1, <3>2, <3>3
  <2>. QED  BY <2>2, <2>3
<1>5. \A i \in Items : Upcoming(i)' => \A b \in Branches(i) : phase'[b] = "idle"
  BY <1>3
<1>6. \A i \in Items : At(i)' /\ phase'[Owner[i]] = "working" /\ Kind[i] = "fallback" =>
        \A n \in 1..Len(Subs[i]) : n > alt'[Owner[i]] => phase'[Subs[i][n]] = "idle"
  BY <1>4
<1>. QED  BY <1>5, <1>6 DEF IdleInv

LEMMA IdleInit == ASSUME OneUse, Init PROVE IdleInv
<1>1. \A b \in Slips \ {Root} : phase[b] = "idle"
  BY DEF Init
<1>2. \A i \in Items : ~At(i)
  BY OneHolder DEF Init, At, Busy
<1>. QED  BY <1>1, <1>2, BranchSlips DEF IdleInv

\* What is started on its way forward was idle.
LEMMA StartsIdle ==
  ASSUME IInv, IdleInv, NEW s \in Slips, Forward(s) \/ Backward(s), NEW x \in Slips, x # s,
         phase'[x] # phase[x], phase'[x] = "forward"
  PROVE  phase[x] = "idle"
<1>1. Branch(s, x) \/ Try(s, x)
  BY Starts DEF Abort, Undrive
<1>2. CASE Branch(s, x)
  <2>. DEFINE i == Head(pending[s])
  <2>1. pending[s] # <<>> /\ pending[s] \in Seq(Items) /\ x \in Branches(i)
    BY <1>2 DEF Branch, ProcessNext, IInv, TypeOK
  <2>2. pending[s][1] = i /\ 1 \in 1..Len(pending[s]) /\ i \in Items
    BY <2>1, SeqFacts
  <2>3. Owner[i] = s
    BY <2>2 DEF IInv, OwnInv, Own, OwnPending
  <2>. HIDE DEF i
  <2>. QED  BY <2>1, <2>2, <2>3 DEF IdleInv, Upcoming, InPending
<1>3. CASE Try(s, x)
  <2>1. /\ phase[s] = "working" /\ Kind[cur[s]] = "fallback" /\ cur[s] \in Items /\ Owner[cur[s]] = s
        /\ alt[s] \in Nat /\ alt[s] < Len(Subs[cur[s]]) /\ x = Subs[cur[s]][alt[s] + 1]
    BY <1>3 DEF Try, NextAlternative, Working, Busy, IInv, TypeOK, OwnInv, Own, OwnWork
  <2>2. alt[s] + 1 \in 1..Len(Subs[cur[s]]) /\ alt[s] + 1 > alt[s]
    <3>1. Len(Subs[cur[s]]) \in Nat
      BY <2>1, SagaAssumption
    <3>. QED  BY <2>1, <3>1
  <2>. QED  BY <2>1, <2>2 DEF IdleInv, At, Busy
<1>. QED  BY <1>1, <1>2, <1>3

LEMMA DoneStep ==
  ASSUME OneUse, IInv, IInv', PlaceInv, IdleInv, DoneInv, NEW s \in Slips, Forward(s) \/ Backward(s)
  PROVE  DoneInv'
<1>. SUFFICES ASSUME NEW b \in Slips \ {Root}
     PROVE  /\ phase'[b] \in {"idle", "forward", "working", "succeeded"} =>
                 \A i \in Range(Work[b]) : Present(i)'
            /\ phase'[b] = "succeeded" => pending'[b] = <<>>
  BY DEF DoneInv
<1>1. Others(s) /\ (Rest(s) \/ Take(s) \/ Keep(s) \/ Pop(s) \/ Adds(s))
  BY Moves
<1>2. \A i \in Range(Work[b]) : i \in Items /\ Owner[i] = b
  <2>1. Work[b] \in Seq(Items)
    BY SagaAssumption
  <2>. QED  BY <2>1, SagaAssumption, SeqFacts DEF Tree, Range
<1>3. /\ phase[b] \in {"idle", "forward", "working", "succeeded"} => \A i \in Range(Work[b]) : Present(i)
      /\ phase[b] = "succeeded" => pending[b] = <<>>
  BY DEF DoneInv
<1>4. CASE b # s
  <2>1. \A i \in Range(Work[b]) : Present(i)' = Present(i)
    BY <1>1, <1>2, <1>4, PlacesElsewhere DEF Present
  <2>2. phase'[b] = phase[b] \/ phase'[b] = "backward" \/ (phase'[b] = "forward" /\ phase[b] = "idle")
    BY <1>1, <1>4, StartsIdle DEF Others, Started
  <2>3. pending'[b] = pending[b]
    BY <1>1, <1>4 DEF Others
  <2>. QED  BY <1>3, <2>1, <2>2, <2>3
<1>5. CASE b = s
  <2>1. ASSUME phase'[s] \in {"idle", "forward", "working", "succeeded"}
        PROVE  Finish(s) \/ NextAlternative(s) \/ Take(s) \/ Keep(s)
    <3>1. ~Pop(s) /\ ~Adds(s)
      BY <1>5, <2>1 DEF Pop, Adds
    <3>2. ~ParallelFails(s) /\ ~UndoLast(s)
      BY <2>1 DEF ParallelFails, UndoLast, Undo, Drive
    <3>3. /\ ~(LeafFails(s) \/ LeafCancelled(s) \/ ParallelAborted(s) \/ FallbackFails(s) \/ FallbackCancelled(s))
          /\ ~(Undone(s) \/ LeafCompensated(s) \/ LeafResumes(s) \/ LeafCompensationRaises(s))
          /\ ~(ParallelCompensated(s) \/ FallbackCompensated(s))
      BY <1>5, <2>1 DEF IInv, TypeOK, LeafFails, LeafCancelled, ParallelAborted, FallbackFails, FallbackCancelled,
         WorkFailed, Undone, LeafCompensated, LeafResumes, LeafCompensationRaises, ParallelCompensated,
         FallbackCompensated, UndoGoes
    <3>4. ProcessNext(s) => ~Rest(s)
      BY DEF ProcessNext, Rest
    <3>5. LeafSucceeds(s) \/ ParallelJoins(s) \/ AlternativeSucceeds(s) => ~Rest(s)
      <4>1. ASSUME phase[s] = "working", WorkDone(s) PROVE ~Rest(s)
        <5>1. logs'[s] = Append(logs[s], [item |-> cur[s], alt |-> alt[s]]) /\ logs[s] \in Seq(WorkLog)
          BY <4>1 DEF WorkDone, IInv, TypeOK
        <5>2. [item |-> cur[s], alt |-> alt[s]] \in WorkLog
          BY <4>1 DEF Busy, IInv, OwnInv, Own, OwnWork, TypeOK, WorkLog
        <5>3. Len(logs'[s]) = Len(logs[s]) + 1 /\ Len(logs[s]) \in Nat
          BY <5>1, <5>2, SeqFacts
        <5>. QED  BY <5>3 DEF Rest
      <4>. QED  BY <4>1 DEF LeafSucceeds, ParallelJoins, AlternativeSucceeds, Working
    <3>. QED  BY <1>1, <3>1, <3>2, <3>3, <3>4, <3>5 DEF Forward, Backward
  <2>2. CASE Take(s) \/ Keep(s)
    <3>1. ASSUME NEW i \in Items, Owner[i] = s, Present(i) PROVE Present(i)'
      <4>1. CASE Take(s)
        BY <3>1, <4>1, PlacesHere DEF Present
      <4>2. CASE Keep(s)
        BY <3>1, <4>2, PlacesHere DEF Present
      <4>. QED  BY <2>2, <4>1, <4>2
    <3>2. phase[s] \in {"forward", "working"} /\ phase'[s] # "succeeded"
      BY <2>2 DEF Take, Keep
    <3>. QED  BY <1>2, <1>3, <1>5, <3>1, <3>2
  <2>3. CASE Finish(s)
    <3>1. phase[s] = "forward" /\ pending[s] = <<>> /\ UNCHANGED <<pending, logs, cur>>
      BY <2>3 DEF Finish
    <3>2. \A i \in Range(Work[s]) : Present(i)'
      BY <1>2, <1>3, <1>5, <3>1 DEF Present, InPending, InLogs, At, Busy
    <3>. QED  BY <1>5, <3>1, <3>2
  <2>4. CASE NextAlternative(s)
    <3>1. phase[s] = "working" /\ phase'[s] = "working" /\ UNCHANGED <<pending, logs, cur>>
      BY <2>4 DEF NextAlternative, Working, Drive
    <3>2. \A i \in Range(Work[s]) : Present(i)'
      BY <1>2, <1>3, <1>5, <3>1 DEF Present, InPending, InLogs, At, Busy
    <3>. QED  BY <1>5, <3>1, <3>2
  <2>. QED  BY <1>5, <2>1, <2>2, <2>3, <2>4
<1>. QED  BY <1>4, <1>5

LEMMA DoneInit == ASSUME Init PROVE DoneInv
<1>. SUFFICES ASSUME NEW b \in Slips \ {Root}, NEW i \in Range(Work[b]) PROVE Present(i)
  BY DEF Init, DoneInv
<1>1. Work[b] \in Seq(Items) /\ Owner[i] = b
  BY SagaAssumption DEF Tree
<1>. QED  BY <1>1, RangeOf DEF Init, Present, InPending

-----------------------------------------------------------------------------
(***************************************************************************)
(* Where a cancellation ends, and what a joined activity stands for.         *)
(***************************************************************************)
LEMMA CancelStep ==
  ASSUME CancelsOut, IInv, CancelInv, NEW s \in Slips, Forward(s) \/ Backward(s)
  PROVE  CancelInv'
<1>. SUFFICES ASSUME NEW f \in Items, NEW b \in Branches(f), Kind[f] = "fallback", phase'[b] = "cancelled",
                     phase[b] # "cancelled"
              PROVE  Owner[f] = Root
  BY DEF CancelInv
<1>1. b \in Slips \ {Root}
  BY BranchSlips
<1>2. b = s
  BY <1>1, Moves DEF Others, Started
<1>3. LeafCancelled(s) \/ FallbackCancelled(s)
  BY <1>2 DEF IInv, TypeOK, Drive, Forward, Backward, ProcessNext, Finish, LeafSucceeds, LeafFails, ParallelJoins,
     ParallelFails, ParallelAborted, NextAlternative, AlternativeSucceeds, FallbackFails, WorkDone, WorkFailed,
     UndoLast, Undo, Undone, LeafCompensated, LeafResumes, LeafCompensationRaises, ParallelCompensated,
     FallbackCompensated, UndoGoes
<1>4. cur[s] \in Items /\ Owner[cur[s]] = s
  BY <1>3 DEF LeafCancelled, FallbackCancelled, Working, Busy, IInv, OwnInv, Own, OwnWork
<1>5. CASE LeafCancelled(s)
  BY <1>2, <1>4, <1>5 DEF LeafCancelled, CancelsOut
<1>6. CASE FallbackCancelled(s)
  <2>1. /\ Kind[cur[s]] = "fallback" /\ alt[s] > 0 /\ phase[Alternative(s)] = "cancelled"
        /\ alt[s] <= Len(Subs[cur[s]]) /\ alt[s] \in Nat
    BY <1>6 DEF FallbackCancelled, Working, IInv, TypeOK, OwnInv, Own, OwnWork
  <2>2. Alternative(s) \in Branches(cur[s])
    <3>1. alt[s] \in 1..Len(Subs[cur[s]])
      BY <1>4, <2>1, SagaAssumption
    <3>. QED  BY <1>4, <3>1, BranchOf DEF Alternative
  <2>3. Owner[cur[s]] = Root
    BY <1>4, <2>1, <2>2 DEF CancelInv
  <2>. QED  BY <1>1, <1>2, <1>4, <2>3
<1>. QED  BY <1>3, <1>5, <1>6

\* The alternative that a fallback is at is one of its slips.
LEMMA AlternativeOf ==
  ASSUME IInv, NEW s \in Slips, phase[s] = "working", Kind[cur[s]] = "fallback", alt[s] > 0
  PROVE  /\ cur[s] \in Items /\ Owner[cur[s]] = s /\ alt[s] \in 1..Len(Subs[cur[s]])
         /\ Alternative(s) \in Branches(cur[s])
<1>1. cur[s] \in Items /\ Owner[cur[s]] = s /\ alt[s] <= Len(Subs[cur[s]]) /\ alt[s] \in Nat
  BY DEF Busy, IInv, TypeOK, OwnInv, Own, OwnWork
<1>2. alt[s] \in 1..Len(Subs[cur[s]])
  BY <1>1, SagaAssumption
<1>. QED  BY <1>1, <1>2, BranchOf DEF Alternative

LEMMA BranchStep ==
  ASSUME CancelsNoBranch, IInv, CancelInv, BranchInv, NEW s \in Slips, Forward(s) \/ Backward(s)
  PROVE  BranchInv'
<1>. SUFFICES ASSUME NEW p \in Items, NEW b \in Branches(p), Kind[p] = "parallel", phase'[b] = "cancelled",
                     phase[b] # "cancelled"
              PROVE  FALSE
  BY DEF BranchInv
<1>1. b \in Slips \ {Root}
  BY BranchSlips
<1>2. b = s
  BY <1>1, Moves DEF Others, Started
<1>3. LeafCancelled(s) \/ FallbackCancelled(s)
  BY <1>2 DEF IInv, TypeOK, Drive, Forward, Backward, ProcessNext, Finish, LeafSucceeds, LeafFails, ParallelJoins,
     ParallelFails, ParallelAborted, NextAlternative, AlternativeSucceeds, FallbackFails, WorkDone, WorkFailed,
     UndoLast, Undo, Undone, LeafCompensated, LeafResumes, LeafCompensationRaises, ParallelCompensated,
     FallbackCompensated, UndoGoes
<1>4. CASE LeafCancelled(s)
  BY <1>2, <1>4 DEF LeafCancelled, CancelsNoBranch, Working, Busy, IInv, OwnInv, Own, OwnWork
<1>5. CASE FallbackCancelled(s)
  <2>1. phase[s] = "working" /\ Kind[cur[s]] = "fallback" /\ alt[s] > 0 /\ phase[Alternative(s)] = "cancelled"
    BY <1>5 DEF FallbackCancelled, Working
  <2>2. Owner[cur[s]] = Root /\ Owner[cur[s]] = s
    BY <2>1, AlternativeOf DEF CancelInv
  <2>. QED  BY <1>1, <1>2, <2>2
<1>. QED  BY <1>3, <1>4, <1>5

LEMMA JoinStep ==
  ASSUME IInv, IInv', PlaceInv', BranchInv, JoinInv, NEW s \in Slips, Forward(s) \/ Backward(s)
  PROVE  JoinInv'
<1>. SUFFICES ASSUME NEW x \in Slips, NEW k \in 1..Len(logs'[x]), NEW b \in Compensated(logs'[x][k])
              PROVE  phase'[b] = "succeeded"
  BY DEF JoinInv, Compensated
<1>. PICK l : l = logs'[x][k]
  OBVIOUS
<1>0. Others(s) /\ (Rest(s) \/ Take(s) \/ Keep(s) \/ Pop(s) \/ Adds(s))
  BY Moves
<1>1. l \in WorkLog /\ l.item \in Items /\ Owner[l.item] = x /\ Compensated(l) \subseteq Branches(l.item)
  <2>1. logs'[x] \in Seq(WorkLog) /\ OwnLog(x, l)
    BY DEF IInv, TypeOK, OwnInv, Own, OwnLogs, OwnLog
  <2>2. l \in WorkLog
    BY <2>1, SeqFacts
  <2>3. l.item \in Items
    BY <2>2 DEF WorkLog
  <2>. QED  BY <2>1, <2>2, <2>3, BranchOf DEF Compensated, OwnLog
<1>2. b \in Branches(l.item) /\ b \in Slips /\ b # x
  BY <1>1, BranchSlips, OneHolder
<1>3. InLogs(l.item)'
  BY <1>1 DEF InLogs
<1>4. ~At(l.item)'
  <2>1. \A i \in Items : InLogs(i)' => ~At(i)'
    BY DEF PlaceInv
  <2>. QED  BY <1>1, <1>3, <2>1
<1>5. CASE phase[b] = "succeeded"
  <2>1. b # s
    BY <1>5 DEF Forward, Backward, ProcessNext, Finish, LeafSucceeds, LeafFails, LeafCancelled, ParallelJoins, ParallelFails,
       ParallelAborted, NextAlternative, AlternativeSucceeds, FallbackFails, FallbackCancelled, UndoLast, Undone,
       LeafCompensated, LeafResumes, LeafCompensationRaises, ParallelCompensated, FallbackCompensated, Working, Undoing
  <2>2. ~Started(s, b)
    BY <1>1, <1>2, <1>4, OneHolder DEF Started, At
  <2>. QED  BY <1>0, <1>2, <1>5, <2>1, <2>2 DEF Others
<1>6. CASE \E n \in 1..Len(logs[x]) : logs[x][n] = l
  BY <1>5, <1>6 DEF JoinInv
<1>7. CASE ~ \E n \in 1..Len(logs[x]) : logs[x][n] = l
  <2>1. x = s
    BY <1>0, <1>7 DEF Others
  <2>2. logs[s] \in Seq(WorkLog)
    BY DEF IInv, TypeOK
  <2>3. Keep(s)
    <3>1. ~(Rest(s) \/ Take(s) \/ Adds(s))
      BY <1>7, <2>1 DEF Rest, Take, Adds
    <3>2. ~Pop(s)
      <4>. SUFFICES ASSUME Pop(s) PROVE FALSE
        OBVIOUS
      <4>1. /\ Len(logs'[s]) = Len(logs[s]) - 1 /\ Len(logs[s]) \in Nat
            /\ \A n \in 1..Len(logs[s]) - 1 : logs'[s][n] = logs[s][n]
        BY <2>2, SeqFacts DEF Pop
      <4>2. k \in 1..Len(logs[s]) - 1 /\ k \in 1..Len(logs[s])
        BY <2>1, <4>1
      <4>. QED  BY <1>7, <2>1, <4>1, <4>2
    <3>. QED  BY <1>0, <3>1, <3>2
  <2>4. l = [item |-> cur[s], alt |-> alt[s]] /\ phase[s] = "working"
    <3>. DEFINE e == [item |-> cur[s], alt |-> alt[s]]
    <3>1. e \in WorkLog
      BY <2>3 DEF Keep, Busy, IInv, OwnInv, Own, OwnWork, TypeOK, WorkLog
    <3>2. logs'[s] = Append(logs[s], e) /\ phase[s] = "working"
      BY <2>3 DEF Keep
    <3>. HIDE DEF e
    <3>3. /\ Len(logs'[s]) = Len(logs[s]) + 1 /\ logs'[s][Len(logs[s]) + 1] = e /\ Len(logs[s]) \in Nat
          /\ \A n \in 1..Len(logs[s]) : logs'[s][n] = logs[s][n]
      BY <2>2, <3>1, <3>2, SeqFacts
    <3>4. k = Len(logs[s]) + 1
      <4>1. k \notin 1..Len(logs[s])
        BY <1>7, <2>1, <3>3
      <4>. QED  BY <2>1, <3>3, <4>1
    <3>. QED  BY <2>1, <3>2, <3>3, <3>4 DEF e
  <2>5. LeafSucceeds(s) \/ ParallelJoins(s) \/ AlternativeSucceeds(s)
    <3>1. phase'[s] = "forward"
      BY <2>3 DEF Keep
    <3>. QED  BY <2>4, <3>1 DEF IInv, TypeOK, Drive, Forward, Backward, ProcessNext, Finish, LeafFails, LeafCancelled,
       ParallelFails, ParallelAborted, NextAlternative, FallbackFails, FallbackCancelled, WorkFailed,
       UndoLast, Undone, LeafCompensated, LeafResumes, LeafCompensationRaises, ParallelCompensated,
       FallbackCompensated, Undoing
  <2>6. CASE LeafSucceeds(s)
    BY <1>1, <1>2, <2>4, <2>6, LeafHasNoBranch DEF LeafSucceeds, Working
  <2>7. CASE ParallelJoins(s)
    BY <1>1, <1>2, <1>5, <2>4, <2>7 DEF ParallelJoins, Working, BranchInv
  <2>8. CASE AlternativeSucceeds(s)
    <3>1. b = Alternative(s)
      BY <2>4, <2>8 DEF AlternativeSucceeds, Working, Compensated, Alternative
    <3>. QED  BY <1>5, <2>8, <3>1 DEF AlternativeSucceeds
  <2>. QED  BY <2>5, <2>6, <2>7, <2>8
<1>. QED  BY <1>6, <1>7

\* A joined parallel activity stands for all the work of all its branches, and a fallback for
\* all the work of its alternative, where no cancellation reaches a branch: gather() with
\* return_exceptions takes a cancelled branch for one that succeeded.
THEOREM JoinsWorkDone == ASSUME OneUse, CancelsOut, CancelsNoBranch PROVE Spec => []JoinedWorkIsDone
<1>. DEFINE J == PlaceInv /\ IdleInv /\ DoneInv /\ CancelInv /\ BranchInv /\ JoinInv
<1>1. Init => J
  <2>. SUFFICES ASSUME Init PROVE J
    OBVIOUS
  <2>1. PlaceInv /\ IdleInv /\ DoneInv
    BY PlaceInit, IdleInit, DoneInit
  <2>2. CancelInv /\ BranchInv /\ JoinInv
    BY BranchSlips DEF Init, CancelInv, BranchInv, JoinInv
  <2>. QED  BY <2>1, <2>2
<1>2. IInv /\ IInv' /\ J /\ [Next]_vars => J'
  <2>. SUFFICES ASSUME IInv, IInv', J, [Next]_vars PROVE J'
    OBVIOUS
  <2>1. CASE UNCHANGED vars
    <3>1. PlaceInv'
      BY <2>1 DEF vars, PlaceInv, Present, InPending, InLogs, At
    <3>2. IdleInv'
      BY <2>1 DEF vars, IdleInv, Upcoming, Present, InPending, InLogs, At
    <3>3. DoneInv'
      BY <2>1 DEF vars, DoneInv, Present, InPending, InLogs, At
    <3>4. CancelInv' /\ BranchInv' /\ JoinInv'
      BY <2>1 DEF vars, CancelInv, BranchInv, JoinInv, Compensated
    <3>. QED  BY <3>1, <3>2, <3>3, <3>4
  <2>2. ASSUME NEW s \in Slips, Forward(s) \/ Backward(s) PROVE J'
    <3>1. PlaceInv'
      BY <2>2, PlaceStep
    <3>2. IdleInv' /\ DoneInv' /\ CancelInv' /\ BranchInv' /\ JoinInv'
      BY <2>2, <3>1, IdleStep, DoneStep, CancelStep, BranchStep, JoinStep
    <3>. QED  BY <3>1, <3>2
  <2>. QED  BY <2>1, <2>2 DEF Next
<1>3. IInv /\ J => JoinedWorkIsDone
  <2>. SUFFICES ASSUME IInv, J, NEW s \in Slips, NEW l \in Range(logs[s]), NEW b \in Compensated(l),
                       NEW i \in Range(Work[b])
                PROVE  i \in LoggedItems(b)
    BY DEF JoinedWorkIsDone
  <2>1. logs[s] \in Seq(WorkLog) /\ OwnLogs(s)
    BY DEF IInv, TypeOK, OwnInv, Own
  <2>2. PICK k \in 1..Len(logs[s]) : logs[s][k] = l
    BY <2>1, RangeOf
  <2>3. phase[b] = "succeeded"
    BY <2>2 DEF JoinInv
  <2>4. b \in Slips \ {Root}
    <3>1. l \in WorkLog /\ OwnLog(s, l)
      BY <2>1, <2>2, SeqFacts DEF OwnLogs
    <3>2. l.item \in Items
      BY <3>1 DEF WorkLog
    <3>. QED  BY <3>1, <3>2, BranchOf, BranchSlips DEF Compensated, OwnLog
  <2>5. Present(i) /\ pending[b] = <<>> /\ Owner[i] = b
    BY <2>3, <2>4, SagaAssumption DEF DoneInv, Tree
  <2>6. InLogs(i)
    BY <2>3, <2>5 DEF Present, InPending, At, Busy
  <2>7. PICK n \in 1..Len(logs[b]) : logs[b][n].item = i
    BY <2>5, <2>6 DEF InLogs
  <2>8. logs[b][n] \in Range(logs[b])
    BY <2>4, RangeOf DEF IInv, TypeOK
  <2>. QED  BY <2>7, <2>8 DEF LoggedItems
<1>. HIDE DEF J
<1>. QED  BY <1>1, <1>2, <1>3, InvInit, InvStep, Invariance, PTL DEF Spec

-----------------------------------------------------------------------------
(***************************************************************************)
(* What has work to undo is held by the item it belongs to.                 *)
(***************************************************************************)
LEMMA FailedStep ==
  ASSUME IInv, FailedInv, NEW s \in Slips, Forward(s) \/ Backward(s)
  PROVE  FailedInv'
<1>. SUFFICES ASSUME NEW b \in Slips, phase'[b] = "failed" PROVE logs'[b] = <<>>
  BY DEF FailedInv
<1>1. Others(s)
  BY Moves
<1>2. CASE b # s
  BY <1>1, <1>2 DEF Others, Started, FailedInv
<1>3. CASE b = s
  <2>1. Undone(s)
    BY <1>3 DEF IInv, TypeOK, Drive, Forward, Backward, ProcessNext, Finish, LeafSucceeds, LeafFails, LeafCancelled,
       ParallelJoins, ParallelFails, ParallelAborted, NextAlternative, AlternativeSucceeds, FallbackFails,
       FallbackCancelled, WorkDone, WorkFailed, UndoLast, Undo, LeafCompensated, LeafResumes,
       LeafCompensationRaises, ParallelCompensated, FallbackCompensated, UndoGoes
  <2>. QED  BY <1>3, <2>1 DEF Undone
<1>. QED  BY <1>2, <1>3

\* The slip that the undoing of a fallback waits for is its alternative.
LEMMA UndoingOf ==
  ASSUME IInv, NEW s \in Slips, phase[s] \in Busy
  PROVE  cur[s] \in Items /\ Owner[cur[s]] = s /\ At(cur[s])
BY DEF IInv, OwnInv, Own, OwnWork, At

LEMMA UndoneAlternative ==
  ASSUME IInv, BackInv, NEW s \in Slips, phase[s] = "undoing", Kind[cur[s]] = "fallback"
  PROVE  /\ Alternative(s) \in Branches(cur[s])
         /\ phase[Alternative(s)] \in {"backward", "undoing", "failed"}
<1>1. cur[s] \in Items /\ Owner[cur[s]] = s /\ At(cur[s])
  BY UndoingOf DEF Busy
<1>2. alt[s] \in 1..Len(Subs[cur[s]])
  BY <1>1 DEF BackInv
<1>. QED  BY <1>1, <1>2, BranchOf DEF BackInv, Alternative

\* How a nested slip moves that was sent backward.
LEMMA BackMoves ==
  ASSUME RaisesInRoot, IInv, BackInv, NEW s \in Slips \ {Root}, Forward(s) \/ Backward(s),
         phase[s] \in {"backward", "undoing"}
  PROVE  phase'[s] \in {"backward", "undoing", "failed"}
<1>1. \/ UndoLast(s) \/ Undone(s) \/ LeafCompensated(s) \/ LeafResumes(s) \/ LeafCompensationRaises(s)
      \/ ParallelCompensated(s) \/ FallbackCompensated(s)
  BY DEF Forward, Backward, ProcessNext, Finish, LeafSucceeds, LeafFails, LeafCancelled, ParallelJoins,
     ParallelFails, ParallelAborted, NextAlternative, AlternativeSucceeds, FallbackFails, FallbackCancelled, Working
<1>2. ~LeafCompensationRaises(s)
  BY UndoingOf DEF LeafCompensationRaises, Undoing, RaisesInRoot, Busy
<1>3. FallbackCompensated(s) => phase[Alternative(s)] # "raised"
  BY UndoneAlternative DEF FallbackCompensated, Undoing
<1>. QED  BY <1>1, <1>2, <1>3 DEF IInv, TypeOK, UndoLast, Undo, Drive, Undone, LeafCompensated, LeafResumes,
            ParallelCompensated, FallbackCompensated, UndoGoes

LEMMA RaisedStep ==
  ASSUME RaisesInRoot, IInv, BackInv, RaisedInv, NEW s \in Slips, Forward(s) \/ Backward(s)
  PROVE  RaisedInv'
<1>. SUFFICES ASSUME NEW b \in Slips \ {Root}, phase'[b] = "raised" PROVE FALSE
  BY DEF RaisedInv
<1>1. b = s
  BY Moves DEF Others, Started, RaisedInv
<1>2. LeafCompensationRaises(s) \/ FallbackCompensated(s)
  BY <1>1 DEF IInv, TypeOK, Drive, Forward, Backward, ProcessNext, Finish, LeafSucceeds, LeafFails, LeafCancelled,
     ParallelJoins, ParallelFails, ParallelAborted, NextAlternative, AlternativeSucceeds, FallbackFails,
     FallbackCancelled, WorkDone, WorkFailed, UndoLast, Undo, Undone, LeafCompensated, LeafResumes,
     ParallelCompensated, UndoGoes
<1>3. phase[s] = "undoing"
  BY <1>2 DEF LeafCompensationRaises, FallbackCompensated, Undoing
<1>. QED  BY <1>1, <1>3, BackMoves

LEMMA BackStep ==
  ASSUME RaisesInRoot, IInv, IInv', BackInv, NEW s \in Slips, Forward(s) \/ Backward(s)
  PROVE  BackInv'
<1>1. Others(s)
  BY Moves
<1>2. ASSUME NEW i \in Items, At(i)', phase'[Owner[i]] \in {"aborting", "undoing"}
      PROVE  /\ Kind[i] = "fallback" => alt'[Owner[i]] \in 1..Len(Subs[i])
             /\ \A b \in Branches(i) : Kind[i] = "parallel" \/ b = Alternative(Owner[i])' =>
                  phase'[b] \in {"backward", "undoing", "failed"}
  <2>0. Owner[i] \in Slips /\ cur'[Owner[i]] = i /\ \A b \in Branches(i) : b \in Slips \ {Root} /\ b # Owner[i]
    BY <1>2, OneHolder, BranchSlips DEF At
  <2>1. CASE Owner[i] # s
    <3>1. /\ At(i) /\ phase[Owner[i]] \in {"aborting", "undoing"}
          /\ alt'[Owner[i]] = alt[Owner[i]] /\ Alternative(Owner[i])' = Alternative(Owner[i])
      BY <1>1, <1>2, <2>0, <2>1 DEF Others, Started, At, Alternative
    <3>2. ASSUME NEW b \in Branches(i), phase[b] \in {"backward", "undoing", "failed"}
          PROVE  phase'[b] \in {"backward", "undoing", "failed"}
      <4>1. CASE b # s
        <5>1. ~Started(s, b)
          BY <2>1, OneHolder DEF Started
        <5>. QED  BY <1>1, <2>0, <3>2, <4>1, <5>1 DEF Others
      <4>2. CASE b = s
        <5>1. phase[s] # "failed"
          BY DEF Forward, Backward, ProcessNext, Finish, LeafSucceeds, LeafFails, LeafCancelled, ParallelJoins,
             ParallelFails, ParallelAborted, NextAlternative, AlternativeSucceeds, FallbackFails, FallbackCancelled,
             UndoLast, Undone, LeafCompensated, LeafResumes, LeafCompensationRaises, ParallelCompensated,
             FallbackCompensated, Working, Undoing
        <5>. QED  BY <2>0, <3>2, <4>2, <5>1, BackMoves
      <4>. QED  BY <4>1, <4>2
    <3>. QED  BY <3>1, <3>2 DEF BackInv
  <2>2. CASE Owner[i] = s
    <3>1. ParallelFails(s) \/ UndoLast(s)
      BY <1>2, <2>2 DEF IInv, TypeOK, Drive, Forward, Backward, ProcessNext, Finish, LeafSucceeds, LeafFails,
         LeafCancelled, ParallelJoins, ParallelAborted, NextAlternative, AlternativeSucceeds, FallbackFails,
         FallbackCancelled, WorkDone, WorkFailed, Undone, LeafCompensated, LeafResumes,
         LeafCompensationRaises, ParallelCompensated, FallbackCompensated, UndoGoes
    <3>2. CASE ParallelFails(s)
      <4>1. Kind[i] = "parallel" /\ cur[s] = i
        BY <2>0, <2>2, <3>2 DEF ParallelFails, Working
      <4>. QED  BY <2>0, <2>2, <3>2, <4>1 DEF ParallelFails, Drive
    <3>3. CASE UndoLast(s)
      <4>. DEFINE l == logs[s][Len(logs[s])]
      <4>1. /\ logs[s] # <<>> /\ logs[s] \in Seq(WorkLog) /\ cur'[s] = l.item /\ alt'[s] = l.alt
            /\ Drive(s, "undoing", Compensated(l), "backward")
        BY <3>3 DEF UndoLast, Undo, IInv, TypeOK
      <4>2. OwnLog(s, l)
        <5>1. Len(logs[s]) \in 1..Len(logs[s])
          BY <4>1
        <5>. QED  BY <5>1 DEF IInv, OwnInv, Own, OwnLogs
      <4>. HIDE DEF l
      <4>3. l.item = i
        BY <2>0, <2>2, <4>1
      <4>4. Kind[i] = "fallback" => l.alt \in 1..Len(Subs[i])
        BY <4>2, <4>3 DEF OwnLog
      <4>5. ASSUME NEW b \in Branches(i), Kind[i] = "parallel" \/ b = Alternative(Owner[i])'
            PROVE  phase'[b] = "backward"
        <5>1. Kind[i] # "leaf"
          BY <4>5, LeafHasNoBranch
        <5>2. b \in Compensated(l)
          BY <2>0, <2>2, <4>1, <4>3, <4>5, <5>1, SagaAssumption DEF Compensated, Alternative
        <5>. QED  BY <2>0, <2>2, <4>1, <5>2 DEF Drive
      <4>. QED  BY <2>2, <4>1, <4>4, <4>5
    <3>. QED  BY <3>1, <3>2, <3>3
  <2>. QED  BY <2>1, <2>2
<1>. QED  BY <1>2 DEF BackInv

\* What item i holds it goes on holding when its slip makes no step.
LEMMA HeldElsewhere ==
  ASSUME IInv, NEW s \in Slips, Others(s), NEW i \in Items, Owner[i] # s, NEW b, Held(i, b)
  PROVE  Held(i, b)'
<1>1. Owner[i] \in Slips
  BY OneHolder
<1>2. /\ logs'[Owner[i]] = logs[Owner[i]] /\ cur'[Owner[i]] = cur[Owner[i]] /\ alt'[Owner[i]] = alt[Owner[i]]
      /\ phase[Owner[i]] \in Busy => phase'[Owner[i]] \in Busy
  BY <1>1 DEF Others, Started, Busy, Quiet
<1>. QED  BY <1>2 DEF Held, At, Alternative, Compensated

\* What a step of s starts is held by the item that s is at.
LEMMA HeldStarted ==
  ASSUME IInv, IInv', NEW s \in Slips, Forward(s) \/ Backward(s), NEW i \in Items, NEW b \in Branches(i),
         b # s, phase'[b] # phase[b]
  PROVE  Held(i, b)'
<1>0. b \in Slips
  BY BranchSlips
<1>1. Started(s, b)
  BY <1>0, Moves DEF Others
<1>2. At(i)' /\ Owner[i] = s /\ cur'[s] = i
  BY <1>1, OneHolder DEF Started, At
<1>3. SUFFICES ASSUME Kind[i] = "fallback" PROVE alt'[s] > 0 /\ b = Subs[i][alt'[s]]
  BY <1>2 DEF Held, Alternative
<1>4. Try(s, b) \/ Undrive(s, b)
  <2>1. ~Branch(s, b)
    BY <1>2, <1>3 DEF Branch, ProcessNext, IInv, TypeOK
  <2>2. ~Abort(s, b)
    BY <1>2, <1>3 DEF Abort, ParallelFails, Working
  <2>. QED  BY <1>0, <2>1, <2>2, Starts
<1>5. CASE Try(s, b)
  BY <1>2, <1>5 DEF Try, NextAlternative, IInv, TypeOK
<1>6. CASE Undrive(s, b)
  <2>. DEFINE l == logs[s][Len(logs[s])]
  <2>1. /\ logs[s] # <<>> /\ logs[s] \in Seq(WorkLog) /\ cur'[s] = l.item /\ alt'[s] = l.alt /\ b \in Compensated(l)
    BY <1>6 DEF Undrive, UndoLast, Undo, IInv, TypeOK
  <2>2. OwnLog(s, l)
    <3>1. Len(logs[s]) \in 1..Len(logs[s])
      BY <2>1
    <3>. QED  BY <3>1 DEF IInv, OwnInv, Own, OwnLogs
  <2>. HIDE DEF l
  <2>3. l.item = i /\ l.alt \in 1..Len(Subs[i])
    BY <1>2, <1>3, <2>1, <2>2 DEF OwnLog
  <2>4. b = Subs[i][l.alt]
    BY <1>3, <2>1, <2>3 DEF Compensated
  <2>. QED  BY <2>1, <2>3, <2>4
<1>. QED  BY <1>4, <1>5, <1>6

\* What the item that s is at holds has nothing to undo when do_work or compensate fails or ends.
LEMMA HeldAt ==
  ASSUME CancelInv, FailedInv, RaisedInv, BackInv, IInv, IInv', NEW s \in Slips, Forward(s) \/ Backward(s),
         NEW i \in Items, Owner[i] = s, NEW b \in Branches(i), At(i),
         Kind[i] = "fallback" => alt[s] > 0 /\ b = Alternative(s),
         Dirty(b), phase'[Root] # "cancelled"
  PROVE  Held(i, b)'
<1>1. cur[s] = i /\ phase[s] \in Busy /\ b \in Slips \ {Root} /\ s \in Slips
  BY BranchSlips DEF At
<1>2. Kind[i] # "leaf" /\ phase[b] # "failed" /\ phase[b] # "raised"
  BY <1>1, LeafHasNoBranch DEF FailedInv, RaisedInv, Dirty, Quiet
<1>3. \/ ParallelJoins(s) \/ ParallelFails(s) \/ ParallelAborted(s) \/ NextAlternative(s) \/ AlternativeSucceeds(s)
      \/ FallbackFails(s) \/ FallbackCancelled(s) \/ ParallelCompensated(s) \/ FallbackCompensated(s)
  BY <1>1, <1>2 DEF Busy, Forward, Backward, ProcessNext, Finish, LeafSucceeds, LeafFails, LeafCancelled,
     UndoLast, Undone, LeafCompensated, LeafResumes, LeafCompensationRaises, Working, Undoing
<1>4. ~NextAlternative(s)
  BY <1>1, <1>2 DEF NextAlternative, Working
<1>5. ~FallbackFails(s)
  <2>. SUFFICES ASSUME FallbackFails(s) PROVE FALSE
    OBVIOUS
  <2>1. Kind[i] = "fallback" /\ phase[b] \in {"failed", "raised"}
    BY <1>1 DEF FallbackFails, Working
  <2>. QED  BY <1>2, <2>1
<1>6. ~FallbackCancelled(s)
  <2>. SUFFICES ASSUME FallbackCancelled(s) PROVE FALSE
    OBVIOUS
  <2>1. Kind[i] = "fallback" /\ phase[b] = "cancelled" /\ phase'[s] = "cancelled"
    BY <1>1 DEF FallbackCancelled, Working, IInv, TypeOK
  <2>. QED  BY <2>1 DEF CancelInv
<1>7. ~ParallelAborted(s) /\ ~ParallelCompensated(s)
  <2>. SUFFICES ASSUME ParallelAborted(s) \/ ParallelCompensated(s) PROVE FALSE
    OBVIOUS
  <2>1. phase[s] \in {"aborting", "undoing"} /\ phase[b] \in Final
    BY <1>1 DEF ParallelAborted, ParallelCompensated, Undoing
  <2>2. Kind[i] = "parallel" \/ b = Alternative(s)
    BY <1>2, SagaAssumption
  <2>3. phase[b] \in {"backward", "undoing", "failed"}
    BY <2>1, <2>2 DEF BackInv
  <2>. QED  BY <1>2, <2>1, <2>3 DEF Final
<1>8. ~FallbackCompensated(s)
  <2>. SUFFICES ASSUME FallbackCompensated(s) PROVE FALSE
    OBVIOUS
  <2>1. phase[s] = "undoing" /\ phase[b] \in Final /\ b = Alternative(s)
    BY <1>1 DEF FallbackCompensated, Undoing
  <2>2. phase[b] \in {"backward", "undoing", "failed"}
    BY <2>1 DEF BackInv
  <2>. QED  BY <1>2, <2>1, <2>2 DEF Final
<1>9. CASE ParallelFails(s)
  <2>1. Kind[i] = "parallel" /\ phase'[s] = "aborting" /\ cur'[s] = i
    BY <1>1, <1>9 DEF ParallelFails, Working, Drive
  <2>. QED  BY <2>1 DEF Held, At, Busy
<1>10. CASE ParallelJoins(s) \/ AlternativeSucceeds(s)
  <2>. DEFINE e == [item |-> cur[s], alt |-> alt[s]]
  <2>1. e \in WorkLog /\ logs[s] \in Seq(WorkLog) /\ e.item = i
    BY <1>1 DEF IInv, TypeOK, WorkLog
  <2>2. logs'[s] = Append(logs[s], e) /\ phase[s] = "working"
    BY <1>10 DEF ParallelJoins, AlternativeSucceeds, WorkDone, Working, IInv, TypeOK
  <2>3. b \in Compensated(e)
    BY <1>1, <1>2, SagaAssumption DEF Compensated, Alternative
  <2>. HIDE DEF e
  <2>4. Len(logs[s]) + 1 \in 1..Len(logs'[s]) /\ logs'[s][Len(logs[s]) + 1] = e
    BY <2>1, <2>2, SeqFacts
  <2>. QED  BY <2>1, <2>3, <2>4 DEF Held, Compensated
<1>. QED  BY <1>3, <1>4, <1>5, <1>6, <1>7, <1>8, <1>9, <1>10

\* A work log goes on holding its slips, or the item that it is compensated by does.
LEMMA HeldLogged ==
  ASSUME IInv, IInv', NEW s \in Slips, Forward(s) \/ Backward(s),
         NEW i \in Items, Owner[i] = s, NEW b \in Branches(i), NEW k \in 1..Len(logs[s]),
         logs[s][k].item = i, b \in Compensated(logs[s][k])
  PROVE  Held(i, b)'
<1>1. Rest(s) \/ Take(s) \/ Keep(s) \/ Pop(s) \/ Adds(s)
  BY Moves
<1>2. logs[s] \in Seq(WorkLog) /\ Len(logs[s]) \in Nat /\ Owner[i] \in Slips
  BY OneHolder DEF IInv, TypeOK
<1>3. ASSUME k \in 1..Len(logs'[s]), logs'[s][k] = logs[s][k] PROVE Held(i, b)'
  <2>1. Compensated(logs'[s][k]) = Compensated(logs[s][k])
    BY <1>3 DEF Compensated
  <2>2. \E m \in 1..Len(logs'[Owner[i]]) :
          logs'[Owner[i]][m].item = i /\ b \in Compensated(logs'[Owner[i]][m])
    BY <1>3, <2>1
  <2>. QED  BY <2>2 DEF Held, Compensated
<1>4. CASE Rest(s) \/ Take(s) \/ Adds(s)
  BY <1>3, <1>4 DEF Rest, Take, Adds
<1>5. CASE Keep(s)
  <2>. DEFINE e == [item |-> cur[s], alt |-> alt[s]]
  <2>1. e \in WorkLog /\ logs'[s] = Append(logs[s], e)
    BY <1>5 DEF Keep, Busy, IInv, OwnInv, Own, OwnWork, TypeOK, WorkLog
  <2>. HIDE DEF e
  <2>2. Len(logs'[s]) = Len(logs[s]) + 1 /\ logs'[s][k] = logs[s][k]
    BY <1>2, <2>1, SeqFacts
  <2>. QED  BY <1>2, <1>3, <2>2
<1>6. CASE Pop(s)
  <2>1. CASE k < Len(logs[s])
    <3>1. Len(logs'[s]) = Len(logs[s]) - 1 /\ logs'[s][k] = logs[s][k]
      BY <1>2, <1>6, <2>1, SeqFacts DEF Pop
    <3>. QED  BY <1>2, <1>3, <2>1, <3>1
  <2>2. CASE k = Len(logs[s])
    <3>1. cur'[s] = i /\ phase'[s] = "undoing" /\ alt'[s] = logs[s][k].alt
      BY <1>6, <2>2 DEF Pop
    <3>2. OwnLog(s, logs[s][k])
      BY DEF IInv, OwnInv, Own, OwnLogs
    <3>3. Kind[i] = "fallback" => logs[s][k].alt > 0 /\ b = Subs[i][logs[s][k].alt]
      BY <3>2 DEF OwnLog, Compensated
    <3>. QED  BY <3>1, <3>3 DEF Held, At, Busy, Alternative
  <2>. QED  BY <1>2, <2>1, <2>2
<1>. QED  BY <1>1, <1>4, <1>5, <1>6

LEMMA HeldStep ==
  ASSUME CancelInv, FailedInv, RaisedInv, BackInv, HeldInv, IInv, IInv', NEW s \in Slips, Forward(s) \/ Backward(s)
  PROVE  HeldInv'
<1>. SUFFICES ASSUME ~Broken', NEW i \in Items, NEW b \in Branches(i), Dirty(b)' PROVE Held(i, b)'
  BY DEF HeldInv
<1>1. Others(s)
  BY Moves
<1>2. phase[s] \notin Quiet
  BY DEF Quiet, Forward, Backward, ProcessNext, Finish, LeafSucceeds, LeafFails, LeafCancelled, ParallelJoins,
     ParallelFails, ParallelAborted, NextAlternative, AlternativeSucceeds, FallbackFails, FallbackCancelled,
     UndoLast, Undone, LeafCompensated, LeafResumes, LeafCompensationRaises, ParallelCompensated,
     FallbackCompensated, Working, Undoing
<1>3. b \in Slips /\ Owner[i] # b /\ Owner[i] \in Slips
  BY BranchSlips, OneHolder
<1>4. ~Broken /\ phase'[Root] # "cancelled"
  <2>1. Root \in Slips /\ \A j \in Items : Root \notin Branches(j)
    BY BranchSlips, SagaAssumption
  <2>2. Root = s \/ phase'[Root] = phase[Root]
    BY <1>1, <2>1 DEF Others, Started
  <2>. QED  BY <1>2, <2>2 DEF Broken, Quiet
<1>5. CASE b # s /\ phase'[b] # phase[b]
  BY <1>5, HeldStarted
<1>6. CASE b = s \/ phase'[b] = phase[b]
  <2>1. Dirty(b)
    <3>1. CASE b = s
      BY <1>2, <3>1 DEF Dirty
    <3>2. CASE b # s
      BY <1>1, <1>3, <1>6, <3>2 DEF Dirty, Others
    <3>. QED  BY <3>1, <3>2
  <2>2. Held(i, b)
    BY <1>4, <2>1 DEF HeldInv
  <2>3. CASE Owner[i] # s
    BY <1>1, <2>2, <2>3, HeldElsewhere
  <2>4. CASE Owner[i] = s /\ At(i) /\ (Kind[i] = "fallback" => alt[Owner[i]] > 0 /\ b = Alternative(Owner[i]))
    BY <1>4, <2>1, <2>4, HeldAt
  <2>5. CASE Owner[i] = s /\ \E k \in 1..Len(logs[Owner[i]]) :
                               logs[Owner[i]][k].item = i /\ b \in Compensated(logs[Owner[i]][k])
    BY <2>5, HeldLogged
  <2>. QED  BY <2>2, <2>3, <2>4, <2>5 DEF Held
<1>. QED  BY <1>5, <1>6

-----------------------------------------------------------------------------
(***************************************************************************)
(* What is in place has its work log, fragile or not, unless the root was    *)
(* left where a compensation raised.                                        *)
(***************************************************************************)
LEMMA LoggedKept ==
  ASSUME IInv, IInv', NEW s \in Slips, Forward(s) \/ Backward(s), NEW i \in Logged, i \notin Logged'
  PROVE  phase[s] = "undoing" /\ cur[s] = i /\ Kind[i] = "leaf"
<1>. DEFINE X == IF phase[s] = "undoing" THEN {cur[s]} ELSE {}
<1>1. Others(s) /\ (Rest(s) \/ Take(s) \/ Keep(s) \/ Pop(s) \/ Adds(s))
  BY Moves
<1>2. ASSUME NEW x \in Slips, NEW k \in 1..Len(logs[x])
      PROVE  \/ \E m \in 1..Len(logs'[x]) : logs'[x][m].item = logs[x][k].item
             \/ phase'[x] = "undoing" /\ cur'[x] = logs[x][k].item
  <2>0. logs[x] \in Seq(WorkLog) /\ Len(logs[x]) \in Nat
    BY DEF IInv, TypeOK
  <2>1. CASE x # s \/ Rest(s) \/ Take(s) \/ Adds(s)
    BY <1>1, <2>1 DEF Others, Rest, Take, Keep, Pop, Adds
  <2>2. CASE x = s /\ Keep(s)
    <3>. DEFINE e == [item |-> cur[s], alt |-> alt[s]]
    <3>1. e \in WorkLog /\ logs'[s] = Append(logs[s], e)
      BY <2>2 DEF Keep, Busy, IInv, OwnInv, Own, OwnWork, TypeOK, WorkLog
    <3>. HIDE DEF e
    <3>2. Len(logs'[s]) = Len(logs[s]) + 1 /\ logs'[s][k] = logs[s][k] /\ k \in 1..Len(logs[s]) + 1
      BY <2>0, <2>2, <3>1, SeqFacts
    <3>. QED  BY <2>2, <3>2
  <2>3. CASE x = s /\ Pop(s)
    <3>1. CASE k < Len(logs[s])
      <4>1. Len(logs'[s]) = Len(logs[s]) - 1 /\ logs'[s][k] = logs[s][k]
        BY <2>0, <2>3, <3>1, SeqFacts DEF Pop
      <4>2. k \in 1..Len(logs'[s])
        BY <2>0, <2>3, <3>1, <4>1
      <4>. QED  BY <2>3, <4>1, <4>2
    <3>2. CASE k = Len(logs[s])
      BY <2>3, <3>2 DEF Pop
    <3>. QED  BY <2>0, <2>3, <3>1, <3>2
  <2>. QED  BY <1>1, <2>1, <2>2, <2>3
<1>3. ASSUME NEW x \in Slips, phase[x] = "undoing"
      PROVE  \/ phase'[x] = "undoing" /\ cur'[x] = cur[x]
             \/ cur[x] \notin Leaves \/ cur[x] \in X
  <2>1. CASE x = s
    BY <1>3, <2>1
  <2>2. CASE x # s
    BY <1>1, <1>3, <2>2 DEF Others, Started, Quiet
  <2>. QED  BY <2>1, <2>2
<1>. HIDE DEF X
<1>4. Logged \ X \subseteq Logged'
  BY <1>2, <1>3, LoggedStays DEF IInv
<1>. QED  BY <1>4 DEF X, Logged, Leaves

LEMMA AppliedStep ==
  ASSUME RaisesInRoot, IInv, IInv', AppliedInv, NEW s \in Slips, Forward(s) \/ Backward(s)
  PROVE  AppliedInv'
<1>. SUFFICES ASSUME phase'[Root] # "raised", NEW i \in applied', i \notin Logged' PROVE FALSE
  BY DEF AppliedInv
<1>1. CASE i \in applied
  <2>1. phase[Root] # "raised"
    <3>1. Root \in Slips /\ \A j \in Items : Root \notin Branches(j)
      BY BranchSlips, SagaAssumption
    <3>2. Root = s \/ phase'[Root] = phase[Root]
      BY <3>1, Moves DEF Others, Started
    <3>3. phase[s] # "raised"
      BY DEF Forward, Backward, ProcessNext, Finish, LeafSucceeds, LeafFails, LeafCancelled, ParallelJoins,
         ParallelFails, ParallelAborted, NextAlternative, AlternativeSucceeds, FallbackFails, FallbackCancelled,
         UndoLast, Undone, LeafCompensated, LeafResumes, LeafCompensationRaises, ParallelCompensated,
         FallbackCompensated, Working, Undoing
    <3>. QED  BY <3>2, <3>3
  <2>2. i \in Logged
    BY <1>1, <2>1 DEF AppliedInv
  <2>3. phase[s] = "undoing" /\ cur[s] = i /\ Kind[i] = "leaf"
    BY <2>2, LoggedKept
  <2>4. LeafCompensated(s) \/ LeafResumes(s) \/ LeafCompensationRaises(s)
    BY <2>3 DEF Forward, Backward, ProcessNext, Finish, LeafSucceeds, LeafFails, LeafCancelled, ParallelJoins,
       ParallelFails, ParallelAborted, NextAlternative, AlternativeSucceeds, FallbackFails, FallbackCancelled,
       UndoLast, Undone, ParallelCompensated, FallbackCompensated, Working, Undoing
  <2>5. LeafCompensationRaises(s)
    BY <2>3, <2>4 DEF LeafCompensated, LeafResumes
  <2>6. s = Root /\ phase'[s] = "raised"
    <3>1. cur[s] \in Fragile /\ Owner[cur[s]] = s
      BY <2>5, UndoingOf DEF LeafCompensationRaises, Undoing, Busy
    <3>. QED  BY <2>5, <3>1 DEF LeafCompensationRaises, UndoGoes, RaisesInRoot, IInv, TypeOK
  <2>. QED  BY <2>6
<1>2. CASE i \notin applied
  <2>1. LeafSucceeds(s) /\ i = cur[s]
    BY <1>2 DEF Forward, Backward, ProcessNext, Finish, LeafSucceeds, LeafFails, LeafCancelled, ParallelJoins,
       ParallelFails, ParallelAborted, NextAlternative, AlternativeSucceeds, FallbackFails, FallbackCancelled,
       UndoLast, Undo, Undone, LeafCompensated, LeafResumes, LeafCompensationRaises, ParallelCompensated,
       FallbackCompensated
  <2>. DEFINE e == [item |-> cur[s], alt |-> alt[s]]
  <2>2. phase[s] = "working" /\ Kind[i] = "leaf" /\ i \in Items
    BY <2>1, UndoingOf DEF LeafSucceeds, Working, Busy
  <2>3. e \in WorkLog /\ logs[s] \in Seq(WorkLog) /\ logs'[s] = Append(logs[s], e) /\ e.item = i
    BY <2>1, <2>2 DEF LeafSucceeds, WorkDone, IInv, TypeOK, WorkLog
  <2>. HIDE DEF e
  <2>4. Len(logs[s]) + 1 \in 1..Len(logs'[s]) /\ logs'[s][Len(logs[s]) + 1] = e /\ logs'[s] \in Seq(WorkLog)
    BY <2>3, SeqFacts
  <2>5. e \in Range(logs'[s])
    BY <2>4, RangeOf
  <2>6. i \in LoggedItems(s)'
    BY <2>3, <2>5 DEF LoggedItems
  <2>. QED  BY <2>2, <2>6 DEF Logged, Leaves
<1>. QED  BY <1>1, <1>2

\* What holds on both paths, where compensations raise in the root only and no cancellation
\* gets past a nested fallback.
PathInv == CancelInv /\ FailedInv /\ RaisedInv /\ BackInv /\ HeldInv /\ AppliedInv

LEMMA PathInvariance == ASSUME RaisesInRoot, CancelsOut PROVE Spec => []PathInv
<1>. USE DEF PathInv
<1>1. Init => PathInv
  <2>. SUFFICES ASSUME Init PROVE PathInv
    OBVIOUS
  <2>1. CancelInv /\ FailedInv /\ RaisedInv /\ AppliedInv
    BY BranchSlips DEF Init, CancelInv, FailedInv, RaisedInv, AppliedInv
  <2>2. BackInv
    BY OneHolder DEF Init, BackInv, At, Busy
  <2>3. HeldInv
    BY BranchSlips DEF Init, HeldInv, Dirty, Quiet
  <2>. QED  BY <2>1, <2>2, <2>3
<1>2. IInv /\ IInv' /\ PathInv /\ [Next]_vars => PathInv'
  <2>. SUFFICES ASSUME IInv, IInv', PathInv, [Next]_vars PROVE PathInv'
    OBVIOUS
  <2>1. CASE UNCHANGED vars
    <3>1. CancelInv' /\ FailedInv' /\ RaisedInv' /\ AppliedInv'
      BY <2>1 DEF vars, CancelInv, FailedInv, RaisedInv, AppliedInv, Logged, LoggedItems
    <3>2. BackInv' /\ HeldInv'
      BY <2>1 DEF vars, BackInv, HeldInv, Broken, Dirty, Held, Compensated, At, Alternative
    <3>. QED  BY <3>1, <3>2
  <2>2. ASSUME NEW s \in Slips, Forward(s) \/ Backward(s) PROVE PathInv'
    <3>1. CancelInv' /\ FailedInv' /\ RaisedInv' /\ BackInv'
      BY <2>2, CancelStep, FailedStep, RaisedStep, BackStep
    <3>2. HeldInv' /\ AppliedInv'
      BY <2>2, HeldStep, AppliedStep
    <3>. QED  BY <3>1, <3>2
  <2>. QED  BY <2>1, <2>2 DEF Next
<1>. HIDE DEF PathInv
<1>. QED  BY <1>1, <1>2, Invariance, PTL DEF Spec

\* What has nothing to undo holds nothing that has.
Clean == {b \in Slips : ~Dirty(b)}

LEMMA CleanUnder ==
  ASSUME HeldInv, ~Broken PROVE \A i \in Items : Owner[i] \in Clean => Branches(i) \subseteq Clean
<1>. SUFFICES ASSUME NEW i \in Items, Owner[i] \in Clean, NEW b \in Branches(i) PROVE b \in Clean
  OBVIOUS
<1>1. b \in Slips /\ logs[Owner[i]] = <<>> /\ phase[Owner[i]] \in Quiet
  BY BranchSlips DEF Clean, Dirty
<1>2. ~Held(i, b)
  BY <1>1 DEF Held, At, Busy, Quiet
<1>. QED  BY <1>1, <1>2 DEF HeldInv, Clean

\* A saga whose backward path ended has no effects left, however deep its activities nest, where
\* compensations raise in the root only, which leaves it at "raised", and no cancellation gets
\* past a nested fallback.  A raise in a branch is swallowed by gather(), and refutes this.
THEOREM BackwardPathUndoesAll ==
  ASSUME AllHang, RaisesInRoot, CancelsOut PROVE Spec => []CompensatedMeansUndone
<1>. USE DEF PathInv
<1>1. IInv /\ PathInv => CompensatedMeansUndone
  <2>. SUFFICES ASSUME IInv, PathInv, phase[Root] = "failed" PROVE applied = {}
    BY DEF CompensatedMeansUndone
  <2>1. Root \in Clean /\ Clean \in SUBSET Slips
    BY SagaAssumption DEF FailedInv, Clean, Dirty, Quiet
  <2>2. \A i \in Items : Owner[i] \in Clean => Branches(i) \subseteq Clean
    BY CleanUnder DEF Broken
  <2>3. Clean = Slips
    BY <2>1, <2>2 DEF AllHang
  <2>4. \A s \in Slips : logs[s] = <<>> /\ phase[s] # "undoing"
    BY <2>3 DEF Clean, Dirty, Quiet
  <2>5. Logged = {}
    BY <2>4 DEF Logged, LoggedItems, Range
  <2>. QED  BY <2>5 DEF AppliedInv
<1>. HIDE DEF PathInv
<1>. QED  BY <1>1, Invariance, PathInvariance, PTL

-----------------------------------------------------------------------------
(***************************************************************************)
(* The leaves under an item.  LeavesUnder is recursive over the depth: that it*)
(* has a solution, and that what passes down from slip to slip reaches its   *)
(* leaves, is an induction over a set of depths.                             *)
(***************************************************************************)
\* Induction over the natural numbers, for a set.
LEMMA NatSet ==
  ASSUME NEW A, 0 \in A, \A n \in Nat : n \in A => n + 1 \in A
  PROVE  Nat \subseteq A
<1>. DEFINE R == OpToRel(<, Nat)
            B == Nat \ A
<1>. SUFFICES ASSUME B # {} PROVE FALSE
  OBVIOUS
<1>1. \A x, y \in Nat : x < y => <<x, y>> \in R
  BY DEF OpToRel
<1>2. IsWellFoundedOn(R, Nat) /\ B \subseteq Nat
  BY NatLessThanWellFounded
<1>. HIDE DEF R, B
<1>3. PICK x \in B : \A y \in B : ~(<<y, x>> \in R)
  BY <1>2, WFMin
<1>4. x \in Nat /\ x \notin A /\ x # 0
  BY <1>3 DEF B
<1>5. x - 1 \in Nat /\ x - 1 < x /\ (x - 1) + 1 = x
  BY <1>4
<1>6. x - 1 \notin A
  BY <1>4, <1>5
<1>7. x - 1 \in B /\ <<x - 1, x>> \in R
  BY <1>1, <1>4, <1>5, <1>6 DEF B
<1>. QED  BY <1>3, <1>7

\* The items of the slips in item i, and the ways down from item to item.
Kids(i) == UNION {Range(Work[b]) : b \in Branches(i)}

Way(p, k, i, j) == p[0] = i /\ p[k] = j /\ \A m \in Nat : m < k => p[m + 1] \in Kids(p[m])

LEMMA KidsAre ==
  ASSUME NEW i \in Items
  PROVE  Kids(i) \subseteq Items /\ (Kind[i] = "leaf" => Kids(i) = {})
<1>1. ASSUME NEW b \in Branches(i) PROVE Range(Work[b]) \subseteq Items
  <2>1. b \in Slips /\ Work[b] \in Seq(Items)
    BY BranchSlips, SagaAssumption
  <2>. QED  BY <2>1, RangeOf, SeqFacts
<1>. QED  BY <1>1, LeafHasNoBranch DEF Kids

\* The way down starts with the way to one of the items below.
LEMMA WayDown ==
  ASSUME NEW i \in Items, Kind[i] # "leaf", NEW j \in Leaves, NEW d \in Nat
  PROVE  (\E p \in [Nat -> Items], k \in Nat : k <= d /\ Way(p, k, i, j)) <=>
           (d # 0 /\ \E x \in Kids(i) : \E p \in [Nat -> Items], k \in Nat : k <= d - 1 /\ Way(p, k, x, j))
<1>1. ASSUME NEW p \in [Nat -> Items], NEW k \in Nat, k <= d, Way(p, k, i, j)
      PROVE  d # 0 /\ \E x \in Kids(i) : \E q \in [Nat -> Items], n \in Nat : n <= d - 1 /\ Way(q, n, x, j)
  <2>. DEFINE q == [m \in Nat |-> p[m + 1]]
  <2>1. k # 0
    BY <1>1 DEF Way, Leaves
  <2>2. q \in [Nat -> Items] /\ k - 1 \in Nat /\ k - 1 <= d - 1
    BY <1>1, <2>1
  <2>3. p[1] \in Kids(i)
    <3>1. 0 < k /\ 0 + 1 = 1
      BY <2>1
    <3>. QED  BY <1>1, <3>1 DEF Way
  <2>4. q[0] = p[1] /\ q[k - 1] = j
    BY <1>1, <2>1, <2>2 DEF Way
  <2>5. ASSUME NEW m \in Nat, m < k - 1 PROVE q[m + 1] \in Kids(q[m])
    <3>1. q[m + 1] = p[(m + 1) + 1] /\ q[m] = p[m + 1] /\ m + 1 \in Nat /\ m + 1 < k
      BY <2>1, <2>5
    <3>. QED  BY <1>1, <3>1 DEF Way
  <2>. HIDE DEF q
  <2>. QED  BY <1>1, <2>1, <2>2, <2>3, <2>4, <2>5 DEF Way
<1>2. ASSUME d # 0, NEW x \in Kids(i), NEW p \in [Nat -> Items], NEW k \in Nat, k <= d - 1, Way(p, k, x, j)
      PROVE  \E q \in [Nat -> Items], n \in Nat : n <= d /\ Way(q, n, i, j)
  <2>. DEFINE q == [m \in Nat |-> IF m = 0 THEN i ELSE p[m - 1]]
  <2>1. q \in [Nat -> Items] /\ k + 1 \in Nat /\ k + 1 <= d
    BY <1>2
  <2>2. q[0] = i /\ q[k + 1] = j
    BY <1>2 DEF Way
  <2>3. ASSUME NEW m \in Nat, m < k + 1 PROVE q[m + 1] \in Kids(q[m])
    <3>1. q[m + 1] = p[m]
      OBVIOUS
    <3>2. CASE m = 0
      BY <1>2, <3>1, <3>2 DEF Way
    <3>3. CASE m # 0
      <4>1. q[m] = p[m - 1] /\ m - 1 \in Nat /\ m - 1 < k /\ (m - 1) + 1 = m
        BY <2>3, <3>3
      <4>. QED  BY <1>2, <3>1, <4>1 DEF Way
    <3>. QED  BY <3>2, <3>3
  <2>. HIDE DEF q
  <2>. QED  BY <2>1, <2>2, <2>3 DEF Way
<1>. QED  BY <1>1, <1>2

\* The recursive definition has a solution: the leaves at the end of a way down.
LEMMA LeavesUnderDef ==
  LeavesUnder = [d \in Nat |-> [i \in Items |->
     IF Kind[i] = "leaf" THEN {i}
     ELSE IF d = 0 THEN {}
     ELSE UNION {LeavesUnder[d - 1][j] : j \in UNION {Range(Work[b]) : b \in Branches(i)}}]]
<1>. DEFINE Below1(f, d, i) == IF Kind[i] = "leaf" THEN {i}
                               ELSE IF d = 0 THEN {}
                               ELSE UNION {f[d - 1][j] : j \in UNION {Range(Work[b]) : b \in Branches(i)}}
            End(d, i) == {j \in Leaves : \E p \in [Nat -> Items], k \in Nat : k <= d /\ Way(p, k, i, j)}
            g == [d \in Nat |-> [i \in Items |-> End(d, i)]]
<1>1. ASSUME NEW d \in Nat, NEW i \in Items PROVE End(d, i) = Below1(g, d, i)
  <2>1. CASE Kind[i] = "leaf"
    <3>1. i \in End(d, i)
      <4>. DEFINE q == [m \in Nat |-> i]
      <4>1. q \in [Nat -> Items] /\ Way(q, 0, i, i) /\ 0 <= d
        BY DEF Way
      <4>. HIDE DEF q
      <4>. QED  BY <2>1, <4>1 DEF Leaves
    <3>2. ASSUME NEW p \in [Nat -> Items], NEW k \in Nat, NEW j \in Leaves, Way(p, k, i, j) PROVE j = i
      <4>1. k = 0
        <5>. SUFFICES ASSUME k # 0 PROVE FALSE
          OBVIOUS
        <5>1. 0 < k /\ p[0 + 1] \in Kids(i)
          BY <3>2 DEF Way
        <5>. QED  BY <2>1, <5>1, KidsAre
      <4>. QED  BY <3>2, <4>1 DEF Way
    <3>. QED  BY <2>1, <3>1, <3>2
  <2>2. CASE Kind[i] # "leaf" /\ d = 0
    <3>1. End(d, i) = {}
      BY <2>2, WayDown
    <3>. QED  BY <2>2, <3>1
  <2>3. CASE Kind[i] # "leaf" /\ d # 0
    <3>1. d - 1 \in Nat /\ \A x \in Kids(i) : g[d - 1][x] = End(d - 1, x)
      <4>. HIDE DEF End
      <4>1. \A n \in Nat, x \in Items : g[n][x] = End(n, x)
        OBVIOUS
      <4>2. d - 1 \in Nat
        BY <2>3
      <4>. QED  BY <4>1, <4>2, KidsAre
    <3>2. \A j \in Leaves : j \in End(d, i) <=> \E x \in Kids(i) : j \in End(d - 1, x)
      BY <2>3, WayDown
    <3>3. End(d, i) \subseteq Leaves /\ \A x \in Kids(i) : End(d - 1, x) \subseteq Leaves
      OBVIOUS
    <3>4. Below1(g, d, i) = UNION {g[d - 1][x] : x \in Kids(i)}
      BY <2>3 DEF Kids
    <3>. HIDE DEF End, g, Below1
    <3>. QED  BY <3>1, <3>2, <3>3, <3>4
  <2>. QED  BY <2>1, <2>2, <2>3
<1>2. g = [d \in Nat |-> [i \in Items |-> Below1(g, d, i)]]
  <2>. HIDE DEF End
  <2>1. \A d \in Nat : [i \in Items |-> End(d, i)] = [i \in Items |-> Below1(g, d, i)]
    <3>. HIDE DEF Below1, g
    <3>. QED  BY <1>1
  <2>. HIDE DEF Below1
  <2>2. g = [d \in Nat |-> [i \in Items |-> End(d, i)]]
    OBVIOUS
  <2>. HIDE DEF g
  <2>. QED  BY <2>1, <2>2
<1>. HIDE DEF g
<1>3. \E f : f = [d \in Nat |-> [i \in Items |->
     IF Kind[i] = "leaf" THEN {i}
     ELSE IF d = 0 THEN {}
     ELSE UNION {f[d - 1][j] : j \in UNION {Range(Work[b]) : b \in Branches(i)}}]]
  BY <1>2
<1>. QED  BY <1>3 DEF LeavesUnder

\* What holds of a slip whenever it holds of the slip it is nested in holds of the leaves
\* below, at any depth.
LEMMA LeavesIn ==
  ASSUME NEW T \in SUBSET Slips, \A i \in Items : Owner[i] \in T => Branches(i) \subseteq T,
         NEW d \in Nat, NEW i \in Items, NEW j \in LeavesUnder[d][i], Branches(i) \subseteq T
  PROVE  j \in Leaves /\ (j = i \/ Owner[j] \in T)
<1>. DEFINE A == {n \in Nat : \A x \in Items : Branches(x) \subseteq T =>
                    LeavesUnder[n][x] \subseteq {l \in Leaves : l = x \/ Owner[l] \in T}}
<1>1. ASSUME NEW x \in Items
      PROVE  /\ \A n \in Nat : Kind[x] = "leaf" => LeavesUnder[n][x] = {x}
             /\ Kind[x] # "leaf" => LeavesUnder[0][x] = {}
             /\ \A n \in Nat : Kind[x] # "leaf" => LeavesUnder[n + 1][x] = UNION {LeavesUnder[n][l] : l \in Kids(x)}
  <2>1. \A n \in Nat : LeavesUnder[n][x] =
          IF Kind[x] = "leaf" THEN {x}
          ELSE IF n = 0 THEN {}
          ELSE UNION {LeavesUnder[n - 1][l] : l \in Kids(x)}
    <3>. DEFINE R(n, l) == IF Kind[l] = "leaf" THEN {l}
                           ELSE IF n = 0 THEN {}
                           ELSE UNION {LeavesUnder[n - 1][m] : m \in UNION {Range(Work[b]) : b \in Branches(l)}}
    <3>1. LeavesUnder = [n \in Nat |-> [l \in Items |-> R(n, l)]]
      BY LeavesUnderDef
    <3>2. \A n \in Nat : R(n, x) = IF Kind[x] = "leaf" THEN {x}
                                   ELSE IF n = 0 THEN {}
                                   ELSE UNION {LeavesUnder[n - 1][l] : l \in Kids(x)}
      BY DEF Kids
    <3>. HIDE DEF R
    <3>3. \A n \in Nat : LeavesUnder[n][x] = R(n, x)
      BY <3>1
    <3>. QED  BY <3>2, <3>3
  <2>2. \A n \in Nat : n + 1 \in Nat /\ n + 1 # 0 /\ (n + 1) - 1 = n
    OBVIOUS
  <2>3. \A n \in Nat : Kind[x] # "leaf" => LeavesUnder[n + 1][x] = UNION {LeavesUnder[n][l] : l \in Kids(x)}
    <3>. TAKE n \in Nat
    <3>1. n + 1 \in Nat /\ n + 1 # 0 /\ (n + 1) - 1 = n
      BY <2>2
    <3>2. LeavesUnder[n + 1][x] =
          IF Kind[x] = "leaf" THEN {x}
          ELSE IF n + 1 = 0 THEN {}
          ELSE UNION {LeavesUnder[(n + 1) - 1][l] : l \in Kids(x)}
      BY <2>1, <3>1
    <3>. QED  BY <3>1, <3>2
  <2>. QED  BY <2>1, <2>3
<1>2. 0 \in A
  BY <1>1 DEF Leaves
<1>3. ASSUME NEW n \in Nat, n \in A PROVE n + 1 \in A
  <2>. SUFFICES ASSUME NEW x \in Items, Branches(x) \subseteq T, NEW l \in LeavesUnder[n + 1][x]
       PROVE  l \in Leaves /\ (l = x \/ Owner[l] \in T)
    OBVIOUS
  <2>1. CASE Kind[x] = "leaf"
    BY <1>1, <2>1 DEF Leaves
  <2>2. CASE Kind[x] # "leaf"
    <3>1. PICK y \in Kids(x) : l \in LeavesUnder[n][y]
      BY <1>1, <2>2
    <3>2. y \in Items /\ Owner[y] \in T
      <4>1. PICK b \in Branches(x) : y \in Range(Work[b])
        BY <3>1 DEF Kids
      <4>. QED  BY <3>1, <4>1, KidsAre, BranchSlips, SagaAssumption DEF Tree
    <3>3. l \in Leaves /\ (l = y \/ Owner[l] \in T)
      BY <1>3, <3>1, <3>2
    <3>. QED  BY <3>2, <3>3
  <2>. QED  BY <2>1, <2>2
<1>. HIDE DEF A
<1>4. d \in A
  BY <1>2, <1>3, NatSet
<1>. QED  BY <1>4 DEF A
-----------------------------------------------------------------------------
(***************************************************************************)
(* The order of the work of a slip.                                          *)
(***************************************************************************)
\* Slip s comes to its item a before b, and back to b before a.
Ordered(s, a, b) ==
  /\ InLogs(b) \/ At(b) => ~InPending(a)
  /\ At(a) => ~InLogs(b)
  /\ \A k, l \in 1..Len(pending[s]) : pending[s][k] = a /\ pending[s][l] = b => k < l
  /\ \A k, l \in 1..Len(logs[s]) : logs[s][k].item = a /\ logs[s][l].item = b => k < l

\* A slip goes through the work it was built with from first to last, and back.
OrderInv == \A s \in Slips : \A m, n \in 1..Len(Work[s]) : m < n => Ordered(s, Work[s][m], Work[s][n])

LEMMA BuiltIn ==
  ASSUME OneUse, NEW s \in Slips, NEW m \in 1..Len(Work[s])
  PROVE  /\ Work[s][m] \in Items /\ Owner[Work[s][m]] = s
         /\ \A n \in 1..Len(Work[s]) : n # m => Work[s][n] # Work[s][m]
         /\ \A i \in Items : \A k \in 1..Len(Extra[i]) : Extra[i][k] # Work[s][m]
<1>1. Work[s] \in Seq(Items) /\ Work[s][m] \in Items /\ Work[s][m] \in Range(Work[s])
  BY SagaAssumption, SeqFacts, RangeOf
<1>2. ASSUME NEW i \in Items, NEW k \in 1..Len(Extra[i]) PROVE Extra[i][k] # Work[s][m]
  <2>1. Extra[i][k] \in Range(Extra[i])
    BY SagaAssumption, RangeOf
  <2>. QED  BY <1>1, <2>1 DEF OneUse
<1>3. \A n \in 1..Len(Work[s]) : n # m => Work[s][n] # Work[s][m]
  BY DEF OneUse
<1>4. Owner[Work[s][m]] = s
  BY <1>1, SagaAssumption DEF Tree
<1>. QED  BY <1>1, <1>2, <1>3, <1>4

LEMMA OrderInit == ASSUME OneUse, Init PROVE OrderInv
<1>. SUFFICES ASSUME NEW s \in Slips, NEW m \in 1..Len(Work[s]), NEW n \in 1..Len(Work[s]), m < n
     PROVE  Ordered(s, Work[s][m], Work[s][n])
  BY DEF OrderInv
<1>1. logs[s] = <<>> /\ pending[s] = Work[s] /\ phase[s] \notin Busy
  BY DEF Init, Busy
<1>2. Owner[Work[s][m]] = s /\ Owner[Work[s][n]] = s
  BY BuiltIn
<1>3. ~InLogs(Work[s][n]) /\ ~At(Work[s][n]) /\ ~At(Work[s][m])
  BY <1>1, <1>2 DEF InLogs, At
<1>4. \A k, l \in 1..Len(pending[s]) : pending[s][k] = Work[s][m] /\ pending[s][l] = Work[s][n] => k < l
  BY <1>1 DEF OneUse
<1>. QED  BY <1>1, <1>3, <1>4 DEF Ordered

LEMMA OrderedStep ==
  ASSUME IInv, IInv', PlaceInv, NEW s \in Slips, Forward(s) \/ Backward(s),
         NEW x \in Slips, NEW a \in Items, NEW b \in Items, Owner[a] = x, Owner[b] = x, a # b,
         \A i \in Items : \A k \in 1..Len(Extra[i]) : Extra[i][k] # a /\ Extra[i][k] # b,
         Ordered(x, a, b)
  PROVE  Ordered(x, a, b)'
<1>0. Others(s) /\ (Rest(s) \/ Take(s) \/ Keep(s) \/ Pop(s) \/ Adds(s))
  BY Moves
<1>1. SUFFICES /\ InLogs(b)' \/ At(b)' => ~InPending(a)'
               /\ At(a)' => ~InLogs(b)'
               /\ \A k, l \in 1..Len(pending'[x]) : pending'[x][k] = a /\ pending'[x][l] = b => k < l
               /\ \A k, l \in 1..Len(logs'[x]) : logs'[x][k].item = a /\ logs'[x][l].item = b => k < l
  BY DEF Ordered
<1>2. /\ InLogs(b) \/ At(b) => ~InPending(a)
      /\ At(a) => ~InLogs(b)
      /\ \A k, l \in 1..Len(pending[x]) : pending[x][k] = a /\ pending[x][l] = b => k < l
      /\ \A k, l \in 1..Len(logs[x]) : logs[x][k].item = a /\ logs[x][l].item = b => k < l
  BY DEF Ordered
<1>. pending[x] \in Seq(Items) /\ logs[x] \in Seq(WorkLog)
  BY DEF IInv, TypeOK
<1>3. CASE x # s
  <2>1. pending'[x] = pending[x] /\ logs'[x] = logs[x]
    BY <1>0, <1>3 DEF Others
  <2>. QED  BY <1>0, <1>1, <1>2, <1>3, <2>1, PlacesElsewhere
<1>4. CASE x = s /\ Rest(s)
  <2>1. pending'[x] = pending[x] /\ logs'[x] = logs[x]
    BY <1>4 DEF Rest
  <2>2. \A i \in {a, b} : InPending(i)' = InPending(i) /\ InLogs(i)' = InLogs(i) /\ (At(i)' => At(i))
    BY <1>4, PlacesHere
  <2>. QED  BY <1>2, <2>1, <2>2
<1>5. CASE x = s /\ Take(s)
  <2>1. pending[s] # <<>> /\ pending'[s] = Tail(pending[s]) /\ logs'[s] = logs[s]
    BY <1>5 DEF Take
  <2>2. /\ Len(pending[s]) \in Nat /\ Len(pending[s]) >= 1 /\ Head(pending[s]) = pending[s][1]
        /\ Len(pending'[s]) = Len(pending[s]) - 1
        /\ \A k \in 1..Len(pending[s]) - 1 : pending'[s][k] = pending[s][k + 1]
    BY <1>5, <2>1, SeqFacts
  <2>3. \A i \in {a, b} : /\ InLogs(i)' = InLogs(i) /\ (At(i)' <=> i = Head(pending[s]))
                          /\ InPending(i) <=> InPending(i)' \/ At(i)'
    BY <1>1, <1>5, PlacesHere
  <2>4. \A k, l \in 1..Len(pending'[s]) : pending'[s][k] = a /\ pending'[s][l] = b => k < l
    <3>. TAKE k, l \in 1..Len(pending'[s])
    <3>1. /\ k + 1 \in 1..Len(pending[s]) /\ l + 1 \in 1..Len(pending[s])
          /\ pending'[s][k] = pending[s][k + 1] /\ pending'[s][l] = pending[s][l + 1]
      BY <2>2
    <3>2. pending'[s][k] = a /\ pending'[s][l] = b => k + 1 < l + 1
      BY <1>2, <1>5, <3>1
    <3>. QED  BY <3>2
  <2>5. ASSUME At(b)', InPending(a)' PROVE FALSE
    <3>1. PICK k \in 1..Len(pending'[s]) : pending'[s][k] = a
      BY <1>1, <1>5, <2>5 DEF InPending
    <3>2. k + 1 \in 1..Len(pending[s]) /\ 1 \in 1..Len(pending[s])
      BY <2>2
    <3>3. pending[s][k + 1] = a
      BY <2>2, <3>1
    <3>4. pending[s][1] = b
      BY <2>2, <2>3, <2>5
    <3>5. k + 1 < 1
      BY <1>2, <1>5, <3>2, <3>3, <3>4
    <3>. QED  BY <3>5
  <2>. QED  BY <1>2, <1>5, <2>1, <2>3, <2>4, <2>5
<1>6. CASE x = s /\ Keep(s)
  <2>. DEFINE e == [item |-> cur[s], alt |-> alt[s]]
  <2>1. e \in WorkLog /\ e.item = cur[s] /\ logs'[s] = Append(logs[s], e) /\ pending'[s] = pending[s]
    BY <1>6 DEF Keep, Busy, IInv, OwnInv, Own, OwnWork, TypeOK, WorkLog
  <2>. HIDE DEF e
  <2>2. /\ Len(logs[s]) \in Nat /\ Len(logs'[s]) = Len(logs[s]) + 1 /\ logs'[s][Len(logs[s]) + 1] = e
        /\ \A k \in 1..Len(logs[s]) : logs'[s][k] = logs[s][k]
    BY <1>6, <2>1, SeqFacts
  <2>3. \A i \in {a, b} : /\ InPending(i)' = InPending(i) /\ ~At(i)' /\ (At(i) <=> i = cur[s])
                          /\ InLogs(i)' <=> InLogs(i) \/ At(i)
    BY <1>1, <1>6, PlacesHere
  <2>4. ASSUME NEW k \in 1..Len(logs'[s]), NEW l \in 1..Len(logs'[s]), logs'[s][k].item = a, logs'[s][l].item = b
        PROVE  k < l
    <3>1. CASE k = Len(logs[s]) + 1
      <4>1. At(a) /\ l \in 1..Len(logs[s])
        BY <1>1, <2>1, <2>2, <2>3, <2>4, <3>1
      <4>2. InLogs(b)
        BY <1>1, <1>6, <2>2, <2>4, <4>1 DEF InLogs
      <4>. QED  BY <1>2, <4>1, <4>2
    <3>2. CASE k \in 1..Len(logs[s]) /\ l \in 1..Len(logs[s])
      BY <1>2, <1>6, <2>2, <2>4, <3>2
    <3>3. CASE k \in 1..Len(logs[s]) /\ l = Len(logs[s]) + 1
      BY <2>2, <3>3
    <3>. QED  BY <2>2, <3>1, <3>2, <3>3
  <2>. QED  BY <1>2, <1>6, <2>1, <2>3, <2>4
<1>7. CASE x = s /\ Pop(s)
  <2>1. logs[s] # <<>> /\ logs'[s] = SubSeq(logs[s], 1, Len(logs[s]) - 1) /\ pending'[s] = pending[s]
    BY <1>7 DEF Pop
  <2>2. /\ Len(logs[s]) \in Nat /\ Len(logs[s]) >= 1 /\ Len(logs'[s]) = Len(logs[s]) - 1
        /\ \A k \in 1..Len(logs[s]) - 1 : logs'[s][k] = logs[s][k]
    BY <1>7, <2>1, SeqFacts
  <2>3. \A i \in {a, b} : /\ InPending(i)' = InPending(i) /\ (At(i)' <=> i = logs[s][Len(logs[s])].item)
                          /\ InLogs(i) <=> InLogs(i)' \/ At(i)'
    BY <1>1, <1>7, PlacesHere
  <2>4. \A k, l \in 1..Len(logs'[s]) : logs'[s][k].item = a /\ logs'[s][l].item = b => k < l
    <3>. TAKE k, l \in 1..Len(logs'[s])
    <3>1. /\ k \in 1..Len(logs[s]) /\ l \in 1..Len(logs[s])
          /\ k \in 1..Len(logs[s]) - 1 /\ l \in 1..Len(logs[s]) - 1
      BY <2>2
    <3>2. logs'[s][k] = logs[s][k] /\ logs'[s][l] = logs[s][l]
      BY <2>2, <3>1
    <3>. QED  BY <1>2, <1>7, <3>1, <3>2
  <2>5. ASSUME At(a)', InLogs(b)' PROVE FALSE
    <3>1. PICK l \in 1..Len(logs'[s]) : logs'[s][l].item = b
      BY <1>1, <1>7, <2>5 DEF InLogs
    <3>2. l \in 1..Len(logs[s]) /\ logs[s][l].item = b /\ l < Len(logs[s])
      BY <2>2, <3>1
    <3>3. Len(logs[s]) \in 1..Len(logs[s]) /\ logs[s][Len(logs[s])].item = a
      BY <2>2, <2>3, <2>5
    <3>4. Len(logs[s]) < l
      BY <1>2, <1>7, <3>2, <3>3
    <3>. QED  BY <2>2, <3>2, <3>4
  <2>6. InLogs(b)' \/ At(b)' => ~InPending(a)'
    BY <1>2, <2>3
  <2>7. \A k, l \in 1..Len(pending'[x]) : pending'[x][k] = a /\ pending'[x][l] = b => k < l
    BY <1>2, <1>7, <2>1
  <2>. QED  BY <1>7, <2>4, <2>5, <2>6, <2>7
<1>8. CASE x = s /\ Adds(s)
  <2>. DEFINE i == cur[s]
              p == Extra[i]
  <2>1. i \in Items /\ pending'[s] = p \o pending[s] /\ logs'[s] = logs[s] /\ p \in Seq(Items)
    BY <1>8, UndoingOf, SagaAssumption DEF Adds, Busy
  <2>2. \A k \in 1..Len(p) : p[k] # a /\ p[k] # b
    BY <2>1
  <2>. HIDE DEF i, p
  <2>3. /\ Len(p \o pending[s]) = Len(p) + Len(pending[s]) /\ Len(p) \in Nat /\ Len(pending[s]) \in Nat
        /\ \A k \in 1..Len(p) : (p \o pending[s])[k] = p[k]
        /\ \A k \in 1..Len(p \o pending[s]) :
             k \notin 1..Len(p) => k - Len(p) \in 1..Len(pending[s]) /\ (p \o pending[s])[k] = pending[s][k - Len(p)]
    BY <1>8, <2>1, ConcatIndex
  <2>4. \A c \in {a, b} : \A k \in 1..Len(pending'[s]) : pending'[s][k] = c =>
          k - Len(p) \in 1..Len(pending[s]) /\ pending[s][k - Len(p)] = c
    BY <2>1, <2>2, <2>3
  <2>5. \A k, l \in 1..Len(pending'[s]) : pending'[s][k] = a /\ pending'[s][l] = b => k < l
    <3>. TAKE k, l \in 1..Len(pending'[s])
    <3>1. pending'[s][k] = a /\ pending'[s][l] = b => k - Len(p) < l - Len(p)
      BY <1>2, <1>8, <2>4
    <3>. QED  BY <2>3, <3>1
  <2>6. InPending(a)' => InPending(a)
    BY <1>1, <1>8, <2>4 DEF InPending
  <2>7. \A c \in {a, b} : InLogs(c)' = InLogs(c) /\ ~At(c)'
    BY <1>1, <1>8, PlacesHere
  <2>. QED  BY <1>2, <1>8, <2>1, <2>5, <2>6, <2>7
<1>. QED  BY <1>0, <1>3, <1>4, <1>5, <1>6, <1>7, <1>8
LEMMA OrderInvariance == ASSUME OneUse PROVE Spec => []OrderInv
<1>1. IInv /\ IInv' /\ PlaceInv /\ OrderInv /\ [Next]_vars => OrderInv'
  <2>. SUFFICES ASSUME IInv, IInv', PlaceInv, OrderInv, [Next]_vars,
                       NEW x \in Slips, NEW m \in 1..Len(Work[x]), NEW n \in 1..Len(Work[x]), m < n
       PROVE  Ordered(x, Work[x][m], Work[x][n])'
    BY DEF OrderInv
  <2>1. Work[x][m] # Work[x][n]
    BY BuiltIn
  <2>2. Ordered(x, Work[x][m], Work[x][n])
    BY DEF OrderInv
  <2>3. CASE UNCHANGED vars
    BY <2>2, <2>3 DEF vars, Ordered, InPending, InLogs, At
  <2>4. ASSUME NEW s \in Slips, Forward(s) \/ Backward(s)
        PROVE  Ordered(x, Work[x][m], Work[x][n])'
    BY <2>1, <2>2, <2>4, BuiltIn, OrderedStep
  <2>. QED  BY <2>3, <2>4 DEF Next
<1>. QED  BY <1>1, OrderInit, PlaceInvariance, PTL DEF Spec
-----------------------------------------------------------------------------
(***************************************************************************)
(* Whose effects are in place.                                               *)
(***************************************************************************)
\* The slips that an item which is not at work holds, and those below, do not run.
Resting == {b \in Slips : phase[b] \in Quiet}

LEMMA RestingUnder ==
  ASSUME IInv
  PROVE  /\ \A i \in Items : Owner[i] \in Resting => Branches(i) \subseteq Resting
         /\ \A i \in Items : ~At(i) => Branches(i) \subseteq Resting
BY BranchSlips DEF IInv, QuietInv, Resting, At, Busy, Quiet

\* Nothing goes on where the root has stopped.
LEMMA StoppedAll ==
  ASSUME AllHang, IInv, NEW s \in Slips, Forward(s) \/ Backward(s) PROVE ~Broken /\ phase[s] \notin Quiet
<1>1. phase[s] \notin Quiet
  BY DEF Quiet, Forward, Backward, ProcessNext, Finish, LeafSucceeds, LeafFails, LeafCancelled, ParallelJoins,
     ParallelFails, ParallelAborted, NextAlternative, AlternativeSucceeds, FallbackFails, FallbackCancelled,
     UndoLast, Undone, LeafCompensated, LeafResumes, LeafCompensationRaises, ParallelCompensated,
     FallbackCompensated, Working, Undoing
<1>2. Resting # Slips /\ Resting \in SUBSET Slips
  BY <1>1 DEF Resting
<1>3. Root \notin Resting
  BY <1>2, RestingUnder DEF AllHang
<1>. QED  BY <1>1, <1>3, SagaAssumption DEF Resting, Broken, Quiet

\* An effect in or under an item is there because the item is at work or has its log.
LEMMA EffectsHeld ==
  ASSUME IInv, PathInv, ~Broken, NEW i \in Items, NEW j \in applied \cap LeavesUnder[Depth][i]
  PROVE  InLogs(i) \/ At(i)
<1>0. HeldInv /\ Depth \in Nat /\ Clean \in SUBSET Slips
  BY SagaAssumption DEF PathInv, Clean
<1>1. CASE Branches(i) \subseteq Clean
  <2>1. j \in Leaves /\ (j = i \/ Owner[j] \in Clean)
    BY <1>0, <1>1, CleanUnder, LeavesIn
  <2>2. j \in Logged
    BY DEF PathInv, AppliedInv, Broken
  <2>3. InLogs(j) \/ Back(j)
    BY <2>1, <2>2, LoggedPlace
  <2>4. Owner[j] \notin Clean
    BY <2>3 DEF InLogs, Back, Clean, Dirty, Quiet
  <2>. QED  BY <2>1, <2>3, <2>4 DEF Back, At, Busy
<1>2. CASE \E b \in Branches(i) : b \notin Clean
  <2>1. PICK b \in Branches(i) : Dirty(b)
    BY <1>2, BranchSlips DEF Clean
  <2>2. Held(i, b)
    BY <1>0, <2>1 DEF HeldInv
  <2>. QED  BY <2>2 DEF Held, InLogs
<1>. QED  BY <1>1, <1>2

\* An item holds one slip only, if it is a fallback.
LEMMA OneHeld ==
  ASSUME IInv, PlaceInv, NEW i \in Items, Kind[i] = "fallback", NEW b, NEW c, Held(i, b), Held(i, c)
  PROVE  b = c
<1>1. InLogs(i) => ~At(i)
  BY DEF PlaceInv
<1>2. CASE At(i)
  BY <1>1, <1>2 DEF Held, InLogs
<1>3. CASE ~At(i)
  <2>1. PICK k \in 1..Len(logs[Owner[i]]) : logs[Owner[i]][k].item = i /\ b \in Compensated(logs[Owner[i]][k])
    BY <1>3 DEF Held
  <2>2. PICK l \in 1..Len(logs[Owner[i]]) : logs[Owner[i]][l].item = i /\ c \in Compensated(logs[Owner[i]][l])
    BY <1>3 DEF Held
  <2>3. k = l
    BY <2>1, <2>2, OneHolder DEF PlaceInv
  <2>. QED  BY <2>1, <2>2, <2>3 DEF Compensated
<1>. QED  BY <1>2, <1>3

LEMMA EffectsOfOne ==
  ASSUME IInv, PlaceInv, PathInv, ~Broken PROVE OneAlternative
<1>1. ASSUME NEW b \in Slips, SlipEffects(b) # {} PROVE Dirty(b)
  <2>1. PICK x \in Range(Work[b]) : applied \cap LeavesUnder[Depth][x] # {}
    BY <1>1 DEF SlipEffects
  <2>2. x \in Items /\ Owner[x] = b
    <3>1. Work[b] \in Seq(Items)
      BY SagaAssumption
    <3>2. x \in Items
      BY <3>1, RangeOf, SeqFacts
    <3>. QED  BY <3>2, SagaAssumption DEF Tree
  <2>3. InLogs(x) \/ At(x)
    BY <2>1, <2>2, EffectsHeld
  <2>. QED  BY <2>2, <2>3 DEF InLogs, At, Dirty, Busy, Quiet
<1>2. ASSUME NEW i \in Items, Kind[i] = "fallback", NEW m \in 1..Len(Subs[i]), NEW n \in 1..Len(Subs[i]),
             SlipEffects(Subs[i][m]) # {}, SlipEffects(Subs[i][n]) # {}
      PROVE  m = n
  <2>1. /\ Subs[i][m] \in Branches(i) /\ Subs[i][n] \in Branches(i)
        /\ Subs[i][m] \in Slips /\ Subs[i][n] \in Slips
    BY BranchOf, BranchSlips
  <2>2. Held(i, Subs[i][m]) /\ Held(i, Subs[i][n])
    BY <1>1, <1>2, <2>1 DEF PathInv, HeldInv
  <2>3. Subs[i][m] = Subs[i][n]
    BY <1>2, <2>2, OneHeld
  <2>. QED  BY <2>3, SagaAssumption DEF Tree
<1>. QED  BY <1>2 DEF OneAlternative

\* No two alternatives of a fallback have effects in place, however deep they nest: one has
\* compensated itself before the next is tried.
THEOREM OneAlternativeAtATime ==
  ASSUME OneUse, AllHang, RaisesInRoot, CancelsOut PROVE Spec => []OneAlternative
<1>1. IInv /\ PlaceInv /\ PathInv /\ ~Broken => OneAlternative
  BY EffectsOfOne
<1>2. Init => ~Broken
  BY SagaAssumption DEF Init, Broken
<1>3. IInv /\ OneAlternative /\ [Next]_vars /\ Broken' => OneAlternative'
  <2>. SUFFICES ASSUME IInv, OneAlternative, [Next]_vars, Broken' PROVE applied' = applied
    BY DEF OneAlternative, SlipEffects
  <2>1. ASSUME NEW s \in Slips, Forward(s) \/ Backward(s) PROVE applied' = applied
    <3>1. ~Broken /\ Others(s)
      BY <2>1, StoppedAll, Moves
    <3>2. Root \in Slips /\ \A j \in Items : Root \notin Branches(j)
      BY BranchSlips, SagaAssumption
    <3>3. s = Root
      BY <3>1, <3>2 DEF Others, Started, Broken
    <3>4. phase'[s] \in {"cancelled", "raised"}
      BY <3>3 DEF Broken
    <3>5. ~LeafSucceeds(s) /\ ~LeafCompensated(s) /\ ~LeafResumes(s)
      BY <3>4 DEF LeafSucceeds, WorkDone, LeafCompensated, LeafResumes, UndoGoes, IInv, TypeOK
    <3>. QED  BY <2>1, <3>5 DEF Forward, Backward, ProcessNext, Finish, LeafFails, LeafCancelled, ParallelJoins,
       ParallelFails, ParallelAborted, NextAlternative, AlternativeSucceeds, FallbackFails, FallbackCancelled,
       UndoLast, Undo, Undone, LeafCompensationRaises, ParallelCompensated, FallbackCompensated
  <2>. QED  BY <2>1 DEF Next, vars
<1>. QED  BY <1>1, <1>2, <1>3, PlaceInvariance, PathInvariance, PTL DEF Spec

\* The effects of an item go only after those of every later item of its slip, however deep
\* either is nested.
THEOREM UndoesInReverse ==
  ASSUME OneUse, AllHang, RaisesInRoot, CancelsOut PROVE Spec => ReverseOrder
<1>1. IInv /\ PlaceInv /\ PathInv /\ OrderInv /\ [Next]_vars =>
        [\A s \in Slips : \A m, n \in 1..Len(Work[s]) : m < n =>
           LET Of(k) == LeavesUnder[Depth][Work[s][k]]
           IN  (Of(m) \cap applied) \ applied' # {} => Of(n) \cap applied = {}]_vars
  <2>. SUFFICES ASSUME IInv, PlaceInv, PathInv, OrderInv, NEW x \in Slips, Forward(x) \/ Backward(x),
                       NEW s \in Slips, NEW m \in 1..Len(Work[s]), NEW n \in 1..Len(Work[s]), m < n,
                       NEW j \in LeavesUnder[Depth][Work[s][m]], j \in applied, j \notin applied',
                       NEW l \in LeavesUnder[Depth][Work[s][n]], l \in applied
       PROVE  FALSE
    BY DEF Next
  <2>. DEFINE a == Work[s][m]
              b == Work[s][n]
  <2>1. a \in Items /\ b \in Items /\ Owner[a] = s /\ Owner[b] = s /\ a # b
    BY BuiltIn
  <2>2. Undoing(x, "leaf") /\ cur[x] = j
    BY DEF Forward, Backward, ProcessNext, Finish, LeafSucceeds, LeafFails, LeafCancelled, ParallelJoins,
       ParallelFails, ParallelAborted, NextAlternative, AlternativeSucceeds, FallbackFails, FallbackCancelled,
       UndoLast, Undo, Undone, LeafCompensated, LeafResumes, LeafCompensationRaises, ParallelCompensated,
       FallbackCompensated
  <2>3. At(j) /\ Owner[j] = x /\ x \notin Resting
    BY <2>2, UndoingOf DEF Undoing, Busy, Resting, Quiet
  <2>4. Ordered(s, a, b)
    BY DEF OrderInv
  <2>. HIDE DEF a, b
  <2>5. At(a)
    <3>. SUFFICES ASSUME ~At(a) PROVE FALSE
      OBVIOUS
    <3>1. Resting \in SUBSET Slips /\ Branches(a) \subseteq Resting /\ Depth \in Nat
      BY <2>1, RestingUnder, SagaAssumption DEF Resting
    <3>2. j = a \/ Owner[j] \in Resting
      BY <2>1, <3>1, RestingUnder, LeavesIn DEF a
    <3>. QED  BY <2>3, <3>2
  <2>6. InLogs(b) \/ At(b)
    <3>1. l \in applied \cap LeavesUnder[Depth][b] /\ ~Broken
      BY StoppedAll DEF b
    <3>. QED  BY <2>1, <3>1, EffectsHeld
  <2>7. ~At(b)
    BY <2>1, <2>5 DEF At
  <2>. QED  BY <2>4, <2>5, <2>6, <2>7 DEF Ordered
<1>. QED  BY <1>1, Invariance, PlaceInvariance, PathInvariance, OrderInvariance, PTL DEF Spec, ReverseOrder
=============================================================================
