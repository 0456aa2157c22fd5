----------------------------- MODULE SagaProofs -----------------------------
(***************************************************************************)
(* Proofs about Saga, for any tree of slips, any failing, cancelled or       *)
(* raising activities and any work that compensations add: every variable    *)
(* keeps its type, and no effect is forgotten.                               *)
(***************************************************************************)
EXTENDS Saga, TLAPS

Busy  == {"working", "aborting", "undoing"}
Quiet == {"idle", "succeeded", "failed", "raised", "cancelled"}

\* The items a slip knows of are its own.
OwnPending(s) == \A k \in 1..Len(pending[s]) : Owner[pending[s][k]] = s
OwnLog(s, l)  == /\ Owner[l.item] = s
                 /\ Kind[l.item] = "fallback" => l.alt \in 1..Len(Subs[l.item])
OwnLogs(s)    == \A k \in 1..Len(logs[s]) : OwnLog(s, logs[s][k])
OwnWork(s)    == /\ phase[s] \in Busy => cur[s] \in Items /\ Owner[cur[s]] = s
                 /\ phase[s] = "working" /\ Kind[cur[s]] = "fallback" => alt[s] <= Len(Subs[cur[s]])

Own(s) == OwnPending(s) /\ OwnLogs(s) /\ OwnWork(s)
OwnInv == \A s \in Slips : Own(s)

\* Item i is the one its slip is at work on.
At(i) == phase[Owner[i]] \in Busy /\ cur[Owner[i]] = i

\* A nested slip is driven only while the item that holds it is at work: no two
\* activities drive one slip, and a fallback drives one alternative.
QuietInv ==
  \A i \in Items : \A b \in Branches(i) :
    \/ phase[b] \in Quiet
    \/ At(i) /\ (Kind[i] = "fallback" => alt[Owner[i]] > 0 /\ b = Alternative(Owner[i]))

IInv == TypeOK /\ OwnInv /\ QuietInv /\ EffectsAreLogged

-----------------------------------------------------------------------------
LEMMA SeqFacts ==
  ASSUME NEW S, NEW q \in Seq(S)
  PROVE  /\ \A x \in S : /\ Append(q, x) \in Seq(S) /\ Len(Append(q, x)) = Len(q) + 1
                         /\ Append(q, x)[Len(q) + 1] = x
                         /\ \A k \in 1..Len(q) : Append(q, x)[k] = q[k]
         /\ q # <<>> => /\ Head(q) = q[1] /\ q[1] \in S /\ Len(q) >= 1
                        /\ Tail(q) \in Seq(S) /\ Len(Tail(q)) = Len(q) - 1
                        /\ \A k \in 1..Len(q) - 1 : Tail(q)[k] = q[k + 1]
                        /\ q[Len(q)] \in S
                        /\ SubSeq(q, 1, Len(q) - 1) \in Seq(S)
                        /\ Len(SubSeq(q, 1, Len(q) - 1)) = Len(q) - 1
                        /\ \A k \in 1..Len(q) - 1 : SubSeq(q, 1, Len(q) - 1)[k] = q[k]
         /\ \A k \in 1..Len(q) : q[k] \in S
<1>1. \A x \in S : /\ Append(q, x) \in Seq(S) /\ Len(Append(q, x)) = Len(q) + 1
                   /\ Append(q, x)[Len(q) + 1] = x
                   /\ \A k \in 1..Len(q) : Append(q, x)[k] = q[k]
  OBVIOUS
<1>2. ASSUME q # <<>>
      PROVE  /\ Head(q) = q[1] /\ q[1] \in S /\ Len(q) >= 1
             /\ Tail(q) \in Seq(S) /\ Len(Tail(q)) = Len(q) - 1
             /\ \A k \in 1..Len(q) - 1 : Tail(q)[k] = q[k + 1]
             /\ q[Len(q)] \in S
  BY <1>2
<1>3. ASSUME q # <<>>
      PROVE  /\ SubSeq(q, 1, Len(q) - 1) \in Seq(S)
             /\ Len(SubSeq(q, 1, Len(q) - 1)) = Len(q) - 1
             /\ \A k \in 1..Len(q) - 1 : SubSeq(q, 1, Len(q) - 1)[k] = q[k]
  BY <1>3
<1>4. \A k \in 1..Len(q) : q[k] \in S
  OBVIOUS
<1>. QED  BY <1>1, <1>2, <1>3, <1>4

LEMMA ConcatFacts ==
  ASSUME NEW S, NEW p \in Seq(S), NEW q \in Seq(S)
  PROVE  /\ p \o q \in Seq(S)
         /\ \A k \in 1..Len(p \o q) : \/ \E m \in 1..Len(p) : (p \o q)[k] = p[m]
                                     \/ \E m \in 1..Len(q) : (p \o q)[k] = q[m]
<1>1. p \o q \in Seq(S) /\ Len(p \o q) = Len(p) + Len(q) /\ Len(p) \in Nat /\ Len(q) \in Nat
  OBVIOUS
<1>2. ASSUME NEW k \in 1..Len(p \o q), k <= Len(p) PROVE (p \o q)[k] = p[k]
  BY <1>2
<1>3. ASSUME NEW k \in 1..Len(p \o q), k > Len(p)
      PROVE  k - Len(p) \in 1..Len(q) /\ (p \o q)[k] = q[k - Len(p)]
  BY <1>1, <1>3
<1>. QED  BY <1>1, <1>2, <1>3

LEMMA BranchSlips == \A i \in Items : Branches(i) \subseteq Slips \ {Root}
<1>. SUFFICES ASSUME NEW i \in Items, NEW k \in 1..Len(Subs[i]) PROVE Subs[i][k] \in Slips \ {Root}
  BY SagaAssumption DEF Branches, Range
<1>. QED  BY SagaAssumption, SeqFacts

LEMMA BranchOf ==
  ASSUME NEW i \in Items, NEW k \in 1..Len(Subs[i]) PROVE Subs[i][k] \in Branches(i)
BY SagaAssumption DEF Branches, Range

LEMMA LeafHasNoBranch == \A i \in Items : Kind[i] = "leaf" => Branches(i) = {}
BY SagaAssumption DEF Branches, Range, Tree

\* What a step does to the rest of the slips leaves them their own.
LEMMA OtherOwn ==
  ASSUME IInv, NEW s \in Slips, Own(s)',
         \A x \in Slips : x # s =>
           /\ pending'[x] = pending[x] /\ logs'[x] = logs[x] /\ cur'[x] = cur[x] /\ alt'[x] = alt[x]
           /\ phase'[x] = phase[x] \/ phase'[x] \notin Busy
  PROVE  OwnInv'
<1>. SUFFICES ASSUME NEW x \in Slips, x # s PROVE Own(x)'
  BY DEF OwnInv
<1>1. Own(x)
  BY DEF IInv, OwnInv
<1>2. OwnPending(x)' /\ OwnLogs(x)'
  BY <1>1 DEF Own, OwnPending, OwnLogs, OwnLog
<1>3. OwnWork(x)'
  <2>1. CASE phase'[x] \notin Busy
    BY <2>1 DEF OwnWork, Busy
  <2>2. CASE phase'[x] = phase[x]
    BY <1>1, <2>2 DEF Own, OwnWork
  <2>. QED  BY <2>1, <2>2
<1>. QED  BY <1>2, <1>3 DEF Own

-----------------------------------------------------------------------------
\* Slip s goes on alone, and leaves nothing running under it.
LEMMA AloneQuiet ==
  ASSUME IInv, NEW s \in Slips, phase[s] \notin Quiet, NEW to \in Phases,
         phase' = [phase EXCEPT ![s] = to], UNCHANGED <<cur, alt>>,
         phase[s] \in Busy => \A b \in Branches(cur[s]) : phase[b] \in Quiet
  PROVE  QuietInv'
<1>. SUFFICES ASSUME NEW j \in Items, NEW b \in Branches(j), phase'[b] \notin Quiet
     PROVE  At(j)' /\ (Kind[j] = "fallback" => alt'[Owner[j]] > 0 /\ b = Alternative(Owner[j])')
  BY DEF QuietInv
<1>1. b \in Slips /\ Owner[j] \in Slips /\ Owner[j] # b
  BY BranchSlips, SagaAssumption DEF Tree
<1>2. phase[b] \notin Quiet
  BY <1>1 DEF IInv, TypeOK
<1>3. At(j) /\ (Kind[j] = "fallback" => alt[Owner[j]] > 0 /\ b = Alternative(Owner[j]))
  BY <1>2 DEF IInv, QuietInv
<1>4. Owner[j] # s
  BY <1>2, <1>3 DEF At
<1>. QED  BY <1>1, <1>3, <1>4 DEF At, Alternative, IInv, TypeOK

\* Slip s is at work on item i and starts some of i's slips, none of which runs.
LEMMA DriveQuiet ==
  ASSUME IInv, NEW s \in Slips, NEW i \in Items, Owner[i] = s, phase[s] \notin Quiet,
         \A b \in Branches(i) : phase[b] \in Quiet,
         phase[s] \in Busy => cur[s] = i,
         NEW started, started \subseteq Branches(i), NEW to \in Busy, NEW start,
         Drive(s, to, started, start), TypeOK',
         cur'[s] = i,
         \A x \in Slips : x # s => cur'[x] = cur[x] /\ alt'[x] = alt[x],
         Kind[i] = "fallback" => started = {} \/ (alt'[s] > 0 /\ started = {Subs[i][alt'[s]]})
  PROVE  QuietInv'
<1>. SUFFICES ASSUME NEW j \in Items, NEW b \in Branches(j), phase'[b] \notin Quiet
     PROVE  At(j)' /\ (Kind[j] = "fallback" => alt'[Owner[j]] > 0 /\ b = Alternative(Owner[j])')
  BY DEF QuietInv
<1>0. \A x \in Slips : phase'[x] = IF x = s THEN to ELSE IF x \in started THEN start ELSE phase[x]
  BY DEF Drive
<1>1. b \in Slips /\ Owner[j] \in Slips /\ Owner[j] # b
  BY BranchSlips, SagaAssumption DEF Tree
<1>2. CASE j = i
  <2>1. b \in started
    BY <1>0, <1>1, <1>2
  <2>. QED  BY <1>0, <1>2, <2>1 DEF At, Alternative
<1>3. CASE j # i
  <2>1. b \notin started
    BY <1>3, SagaAssumption DEF Tree
  <2>2. phase[b] \notin Quiet
    BY <1>0, <1>1, <2>1
  <2>3. At(j) /\ (Kind[j] = "fallback" => alt[Owner[j]] > 0 /\ b = Alternative(Owner[j]))
    BY <2>2 DEF IInv, QuietInv
  <2>4. Owner[j] # s
    BY <1>3, <2>3 DEF At
  <2>5. Owner[j] \notin started
    BY <2>3 DEF At, Busy, Quiet
  <2>6. phase'[Owner[j]] = phase[Owner[j]]
    BY <1>0, <1>1, <2>4, <2>5
  <2>. QED  BY <1>1, <2>3, <2>4, <2>6 DEF At, Alternative
<1>. QED  BY <1>2, <1>3

\* Nothing leaves the work logs but what is being compensated, or is in X.
LEMMA LoggedStays ==
  ASSUME NEW X,
         \A s \in Slips : \A k \in 1..Len(logs[s]) :
           \/ \E m \in 1..Len(logs'[s]) : logs'[s][m].item = logs[s][k].item
           \/ phase'[s] = "undoing" /\ cur'[s] = logs[s][k].item,
         \A s \in Slips : phase[s] = "undoing" =>
           \/ phase'[s] = "undoing" /\ cur'[s] = cur[s]
           \/ cur[s] \notin Leaves \/ cur[s] \in X,
         TypeOK, TypeOK'
  PROVE  Logged \ X \subseteq Logged'
<1>. SUFFICES ASSUME NEW i \in Logged, i \notin X PROVE i \in Logged'
  OBVIOUS
<1>1. i \in Leaves
  BY DEF Logged
<1>2. PICK s \in Slips : i \in LoggedItems(s) \/ (phase[s] = "undoing" /\ cur[s] = i)
  BY DEF Logged
<1>3. CASE i \in LoggedItems(s)
  <2>1. PICK k \in 1..Len(logs[s]) : i = logs[s][k].item
    BY <1>3 DEF LoggedItems, Range, TypeOK
  <2>2. CASE \E m \in 1..Len(logs'[s]) : logs'[s][m].item = i
    <3>1. i \in LoggedItems(s)'
      BY <2>2 DEF LoggedItems, Range, TypeOK
    <3>. QED  BY <1>1, <3>1 DEF Logged
  <2>3. CASE phase'[s] = "undoing" /\ cur'[s] = i
    BY <1>1, <2>3 DEF Logged
  <2>. QED  BY <2>1, <2>2, <2>3
<1>4. CASE phase[s] = "undoing" /\ cur[s] = i
  BY <1>1, <1>4 DEF Logged
<1>. QED  BY <1>2, <1>3, <1>4

\* When do_work or compensate of s returns, nothing runs under it any more.
LEMMA NothingUnder ==
  ASSUME IInv, NEW s \in Slips, phase[s] \in Busy,
         \/ Kind[cur[s]] = "leaf"
         \/ \A b \in Branches(cur[s]) : phase[b] \in Final
         \/ Kind[cur[s]] = "fallback" /\ (alt[s] > 0 => phase[Alternative(s)] \in Final)
  PROVE  cur[s] \in Items /\ Owner[cur[s]] = s /\ \A b \in Branches(cur[s]) : phase[b] \in Quiet
<1>1. cur[s] \in Items /\ Owner[cur[s]] = s
  BY DEF IInv, OwnInv, Own, OwnWork
<1>2. \A b \in Branches(cur[s]) : \/ phase[b] \in Quiet
                                  \/ Kind[cur[s]] = "fallback" => alt[s] > 0 /\ b = Alternative(s)
  BY <1>1 DEF IInv, QuietInv
<1>3. Final \subseteq Quiet
  BY DEF Final, Quiet
<1>. QED  BY <1>1, <1>2, <1>3, LeafHasNoBranch

LEMMA TypeInit == Init => TypeOK
<1>1. \A s \in Slips : <<>> \in Seq(WorkLog) /\ Work[s] \in Seq(Items)
  BY SagaAssumption
<1>. QED  BY <1>1, SagaAssumption DEF Init, TypeOK, Phases

LEMMA InvInit == Init => IInv
<1>. SUFFICES ASSUME Init PROVE IInv
  OBVIOUS
<1>1. TypeOK
  BY TypeInit
<1>2. OwnInv
  <2>1. \A s \in Slips : \A k \in 1..Len(Work[s]) : Owner[Work[s][k]] = s
    BY SagaAssumption DEF Tree, Range
  <2>. QED  BY <2>1 DEF Init, OwnInv, Own, OwnPending, OwnLogs, OwnWork, Busy
<1>3. QuietInv
  BY BranchSlips DEF Init, QuietInv, Quiet
<1>. QED  BY <1>1, <1>2, <1>3 DEF Init, IInv, EffectsAreLogged

-----------------------------------------------------------------------------
\* Steps that only end what slip s was doing.
LEMMA AlonePhase ==
  ASSUME IInv, NEW s \in Slips, phase[s] \notin Quiet, NEW to \in Phases \ Busy,
         phase' = [phase EXCEPT ![s] = to], UNCHANGED <<pending, logs, cur, alt, applied>>,
         phase[s] \in Busy => \A b \in Branches(cur[s]) : phase[b] \in Quiet,
         phase[s] = "undoing" => cur[s] \notin Leaves \/ cur[s] \in Fragile
  PROVE  IInv'
<1>1. TypeOK'
  BY DEF IInv, TypeOK
<1>2. OwnInv'
  <2>1. phase'[s] = to /\ \A x \in Slips : x # s => phase'[x] = phase[x]
    BY DEF IInv, TypeOK
  <2>2. Own(s)'
    BY <2>1 DEF IInv, OwnInv, Own, OwnPending, OwnLogs, OwnLog, OwnWork, Busy
  <2>. QED  BY <2>1, <2>2, OtherOwn
<1>3. QuietInv'
  BY AloneQuiet
<1>4. EffectsAreLogged'
  <2>1. Logged \ Fragile \subseteq Logged'
    BY <1>1, LoggedStays DEF IInv, TypeOK
  <2>. QED  BY <2>1 DEF IInv, EffectsAreLogged
<1>. QED  BY <1>1, <1>2, <1>3, <1>4 DEF IInv

LEMMA EndInv ==
  ASSUME IInv, NEW s \in Slips,
         \/ Finish(s) \/ LeafFails(s) \/ LeafCancelled(s) \/ ParallelAborted(s)
         \/ FallbackFails(s) \/ FallbackCancelled(s) \/ Undone(s)
         \/ LeafCompensationRaises(s) \/ ParallelCompensated(s) \/ FallbackCompensated(s)
  PROVE  IInv'
<1>. USE DEF Phases, Busy, Quiet, Final
<1>1. CASE Finish(s) \/ Undone(s)
  BY <1>1, AlonePhase DEF Finish, Undone
<1>2. CASE LeafFails(s)
  BY <1>2, AlonePhase, NothingUnder DEF LeafFails, Working, WorkFailed
<1>3. CASE LeafCancelled(s)
  BY <1>3, AlonePhase, NothingUnder DEF LeafCancelled, Working
<1>4. CASE ParallelAborted(s)
  BY <1>4, AlonePhase, NothingUnder DEF ParallelAborted, WorkFailed
<1>5. CASE FallbackFails(s)
  BY <1>5, AlonePhase, NothingUnder DEF FallbackFails, Working, WorkFailed
<1>6. CASE FallbackCancelled(s)
  BY <1>6, AlonePhase, NothingUnder DEF FallbackCancelled, Working
<1>7. CASE LeafCompensationRaises(s)
  BY <1>7, AlonePhase, NothingUnder DEF LeafCompensationRaises, Undoing, UndoGoes
<1>8. CASE ParallelCompensated(s)
  <2>1. cur[s] \notin Leaves
    BY <1>8 DEF ParallelCompensated, Undoing, Leaves
  <2>. QED  BY <1>8, <2>1, AlonePhase, NothingUnder DEF ParallelCompensated, Undoing, UndoGoes
<1>9. CASE FallbackCompensated(s)
  <2>1. cur[s] \notin Leaves
    BY <1>9 DEF FallbackCompensated, Undoing, Leaves
  <2>. DEFINE to == IF phase[Alternative(s)] = "raised" THEN "raised" ELSE "backward"
  <2>2. to \in Phases \ Busy
    OBVIOUS
  <2>3. phase[s] = "undoing" /\ \A b \in Branches(cur[s]) : phase[b] \in Quiet
    BY <1>9, NothingUnder DEF FallbackCompensated, Undoing
  <2>4. phase' = [phase EXCEPT ![s] = to] /\ UNCHANGED <<pending, logs, cur, alt, applied>>
    BY <1>9 DEF FallbackCompensated, UndoGoes
  <2>. HIDE DEF to
  <2>. QED  BY <2>1, <2>2, <2>3, <2>4, AlonePhase
<1>. QED  BY <1>1, <1>2, <1>3, <1>4, <1>5, <1>6, <1>7, <1>8, <1>9

-----------------------------------------------------------------------------
LEMMA ProcessNextInv ==
  ASSUME IInv, NEW s \in Slips, ProcessNext(s)
  PROVE  IInv'
<1>. DEFINE i == Head(pending[s])
            started == IF Kind[i] = "parallel" THEN Branches(i) ELSE {}
<1>1. /\ phase[s] = "forward" /\ pending[s] # <<>> /\ pending[s] \in Seq(Items)
      /\ cur' = [cur EXCEPT ![s] = i] /\ alt' = [alt EXCEPT ![s] = 0]
      /\ Drive(s, "working", started, "forward")
      /\ pending' = [pending EXCEPT ![s] = Tail(@)]
      /\ UNCHANGED <<logs, applied>>
  BY DEF ProcessNext, IInv, TypeOK
<1>2. /\ i = pending[s][1] /\ i \in Items /\ Len(pending[s]) >= 1 /\ Tail(pending[s]) \in Seq(Items)
      /\ Len(Tail(pending[s])) = Len(pending[s]) - 1
      /\ \A k \in 1..Len(pending[s]) - 1 : Tail(pending[s])[k] = pending[s][k + 1]
  BY <1>1, SeqFacts
<1>3. Owner[i] = s
  BY <1>2 DEF IInv, OwnInv, Own, OwnPending
<1>4. \A b \in Branches(i) : phase[b] \in Quiet
  BY <1>1, <1>2, <1>3 DEF IInv, QuietInv, At, Busy
<1>. HIDE DEF i
<1>5. TypeOK'
  BY <1>1, <1>2 DEF IInv, TypeOK, Drive, Phases
<1>6. \A x \in Slips : phase'[x] = IF x = s THEN "working" ELSE IF x \in started THEN "forward" ELSE phase[x]
  BY <1>1 DEF Drive
<1>7. OwnInv'
  <2>1. \A x \in Slips : x # s =>
          /\ pending'[x] = pending[x] /\ logs'[x] = logs[x] /\ cur'[x] = cur[x] /\ alt'[x] = alt[x]
          /\ phase'[x] = phase[x] \/ phase'[x] \notin Busy
    <3>. HIDE DEF started
    <3>. QED  BY <1>1, <1>6 DEF IInv, TypeOK, Busy
  <2>2. /\ pending'[s] = Tail(pending[s]) /\ logs'[s] = logs[s] /\ cur'[s] = i /\ alt'[s] = 0
    BY <1>1 DEF IInv, TypeOK
  <2>3. OwnPending(s)'
    BY <1>2, <2>2 DEF IInv, OwnInv, Own, OwnPending
  <2>4. OwnLogs(s)'
    BY <1>1 DEF IInv, OwnInv, Own, OwnLogs, OwnLog
  <2>5. OwnWork(s)'
    BY <1>2, <1>3, <2>2, SagaAssumption DEF OwnWork
  <2>. QED  BY <2>1, <2>3, <2>4, <2>5, OtherOwn DEF Own
<1>8. QuietInv'
  <2>1. /\ phase[s] \notin Quiet /\ phase[s] \notin Busy /\ "working" \in Busy
        /\ started \subseteq Branches(i) /\ (Kind[i] = "fallback" => started = {})
        /\ cur'[s] = i /\ \A x \in Slips : x # s => cur'[x] = cur[x] /\ alt'[x] = alt[x]
    <3>1. started \subseteq Branches(i) /\ (Kind[i] = "fallback" => started = {})
      OBVIOUS
    <3>. HIDE DEF started
    <3>. QED  BY <1>1, <3>1 DEF Quiet, Busy, IInv, TypeOK
  <2>. HIDE DEF started
  <2>. QED  BY <1>1, <1>2, <1>3, <1>4, <1>5, <2>1, DriveQuiet
<1>9. EffectsAreLogged'
  <2>1. \A x \in Slips : phase[x] = "undoing" => phase'[x] = "undoing" /\ cur'[x] = cur[x]
    BY <1>1, <1>4, <1>6 DEF IInv, TypeOK, Quiet
  <2>2. Logged \ {} \subseteq Logged'
    BY <1>1, <1>5, <2>1, LoggedStays DEF IInv, TypeOK
  <2>. QED  BY <1>1, <2>2 DEF IInv, EffectsAreLogged
<1>. QED  BY <1>5, <1>7, <1>8, <1>9 DEF IInv

\* do_work returned a work log for the item it was called for.
LEMMA WorkDoneInv ==
  ASSUME IInv, NEW s \in Slips, LeafSucceeds(s) \/ ParallelJoins(s) \/ AlternativeSucceeds(s)
  PROVE  IInv'
<1>. DEFINE l == [item |-> cur[s], alt |-> alt[s]]
<1>1. /\ phase[s] = "working" /\ logs' = [logs EXCEPT ![s] = Append(@, l)]
      /\ phase' = [phase EXCEPT ![s] = "forward"] /\ UNCHANGED <<pending, cur, alt>>
  BY DEF LeafSucceeds, ParallelJoins, AlternativeSucceeds, WorkDone, Working
<1>2. cur[s] \in Items /\ Owner[cur[s]] = s /\ \A b \in Branches(cur[s]) : phase[b] \in Quiet
  BY <1>1, NothingUnder DEF LeafSucceeds, ParallelJoins, AlternativeSucceeds, Working, Busy, Final
<1>3. applied' = applied \/ (cur[s] \in Leaves /\ applied' = applied \cup {cur[s]})
  BY <1>2 DEF LeafSucceeds, ParallelJoins, AlternativeSucceeds, Working, Leaves
<1>4. Kind[cur[s]] = "fallback" => alt[s] \in 1..Len(Subs[cur[s]])
  <2>1. Kind[cur[s]] = "fallback" => alt[s] > 0
    BY DEF LeafSucceeds, ParallelJoins, AlternativeSucceeds, Working
  <2>2. Kind[cur[s]] = "fallback" => alt[s] <= Len(Subs[cur[s]])
    BY <1>1 DEF IInv, OwnInv, Own, OwnWork
  <2>3. alt[s] \in Nat /\ Len(Subs[cur[s]]) \in Nat
    BY <1>2, SagaAssumption DEF IInv, TypeOK
  <2>. QED  BY <2>1, <2>2, <2>3
<1>5. l \in WorkLog /\ logs[s] \in Seq(WorkLog)
  BY <1>2 DEF WorkLog, IInv, TypeOK
<1>6. /\ Append(logs[s], l) \in Seq(WorkLog) /\ Len(Append(logs[s], l)) = Len(logs[s]) + 1
      /\ Append(logs[s], l)[Len(logs[s]) + 1] = l
      /\ \A k \in 1..Len(logs[s]) : Append(logs[s], l)[k] = logs[s][k]
  BY <1>5, SeqFacts
<1>7. l.item = cur[s] /\ l.alt = alt[s] /\ Len(logs[s]) \in Nat
  BY <1>5
<1>. HIDE DEF l
<1>8. TypeOK'
  BY <1>1, <1>3, <1>6 DEF IInv, TypeOK, Phases
<1>9. OwnInv'
  <2>1. /\ logs'[s] = Append(logs[s], l) /\ phase'[s] = "forward" /\ pending'[s] = pending[s]
        /\ \A x \in Slips : x # s => logs'[x] = logs[x] /\ phase'[x] = phase[x]
    BY <1>1 DEF IInv, TypeOK
  <2>2. OwnLogs(s)'
    <3>. SUFFICES ASSUME NEW k \in 1..Len(logs'[s]) PROVE OwnLog(s, logs'[s][k])
      BY DEF OwnLogs, OwnLog
    <3>1. CASE k = Len(logs[s]) + 1
      BY <1>2, <1>4, <1>6, <1>7, <2>1, <3>1 DEF OwnLog
    <3>2. CASE k # Len(logs[s]) + 1
      <4>1. k \in 1..Len(logs[s]) /\ logs'[s][k] = logs[s][k]
        BY <1>6, <1>7, <2>1, <3>2
      <4>. QED  BY <4>1 DEF IInv, OwnInv, Own, OwnLogs
    <3>. QED  BY <3>1, <3>2
  <2>3. OwnPending(s)' /\ OwnWork(s)'
    BY <2>1 DEF IInv, OwnInv, Own, OwnPending, OwnWork, Busy
  <2>. QED  BY <1>1, <2>1, <2>2, <2>3, OtherOwn DEF Own
<1>10. QuietInv'
  BY <1>1, <1>2, AloneQuiet DEF Quiet, Phases
<1>11. EffectsAreLogged'
  <2>1. logs'[s] = Append(logs[s], l) /\ \A x \in Slips : x # s => logs'[x] = logs[x] /\ phase'[x] = phase[x]
    BY <1>1 DEF IInv, TypeOK
  <2>2. \A x \in Slips : \A k \in 1..Len(logs[x]) :
          \E m \in 1..Len(logs'[x]) : logs'[x][m].item = logs[x][k].item
    <3>. SUFFICES ASSUME NEW x \in Slips, NEW k \in 1..Len(logs[x])
                  PROVE  k \in 1..Len(logs'[x]) /\ logs'[x][k] = logs[x][k]
      OBVIOUS
    <3>1. CASE x # s
      BY <2>1, <3>1
    <3>2. CASE x = s
      <4>1. logs'[s] = Append(logs[s], l) /\ k \in 1..Len(logs[s]) + 1
        BY <1>7, <2>1, <3>2
      <4>2. logs'[s][k] = logs[s][k]
        BY <1>6, <3>2, <4>1
      <4>. QED  BY <1>6, <3>2, <4>1, <4>2
    <3>. QED  BY <3>1, <3>2
  <2>3. Logged \ {} \subseteq Logged'
    BY <1>1, <1>8, <2>1, <2>2, LoggedStays DEF IInv
  <2>4. cur[s] \in Leaves => cur[s] \in Logged'
    <3>1. cur[s] \in LoggedItems(s)'
      <4>1. Len(logs[s]) + 1 \in DOMAIN logs'[s] /\ logs'[s][Len(logs[s]) + 1].item = cur[s]
        BY <1>5, <1>6, <1>7, <2>1
      <4>. QED  BY <4>1 DEF LoggedItems, Range
    <3>. QED  BY <3>1 DEF Logged
  <2>. QED  BY <1>3, <2>3, <2>4 DEF IInv, EffectsAreLogged
<1>. QED  BY <1>8, <1>9, <1>10, <1>11 DEF IInv

\* One of the branches failed: all are driven backward.
LEMMA ParallelFailsInv ==
  ASSUME IInv, NEW s \in Slips, ParallelFails(s)
  PROVE  IInv'
<1>1. /\ phase[s] = "working" /\ Kind[cur[s]] = "parallel"
      /\ Drive(s, "aborting", Branches(cur[s]), "backward")
      /\ UNCHANGED <<pending, logs, cur, alt, applied>>
  BY DEF ParallelFails, Working
<1>2. cur[s] \in Items /\ Owner[cur[s]] = s /\ \A b \in Branches(cur[s]) : phase[b] \in Quiet
  BY <1>1, NothingUnder DEF ParallelFails, Busy
<1>3. TypeOK'
  BY <1>1 DEF IInv, TypeOK, Drive, Phases
<1>4. \A x \in Slips : phase'[x] = IF x = s THEN "aborting"
                                   ELSE IF x \in Branches(cur[s]) THEN "backward" ELSE phase[x]
  BY <1>1 DEF Drive
<1>5. OwnInv'
  <2>1. \A x \in Slips : x # s => phase'[x] = phase[x] \/ phase'[x] \notin Busy
    BY <1>4 DEF Busy
  <2>2. Own(s)'
    BY <1>1, <1>2, <1>4 DEF IInv, OwnInv, Own, OwnPending, OwnLogs, OwnLog, OwnWork
  <2>. QED  BY <1>1, <2>1, <2>2, OtherOwn
<1>6. QuietInv'
  <2>1. "aborting" \in Busy /\ phase[s] \notin Quiet /\ Kind[cur[s]] # "fallback" /\ cur'[s] = cur[s]
    BY <1>1 DEF Busy, Quiet
  <2>. QED  BY <1>1, <1>2, <1>3, <2>1, DriveQuiet
<1>7. EffectsAreLogged'
  <2>1. \A x \in Slips : phase[x] = "undoing" => phase'[x] = "undoing" /\ cur'[x] = cur[x]
    BY <1>1, <1>2, <1>4 DEF Quiet
  <2>2. Logged \ {} \subseteq Logged'
    BY <1>1, <1>3, <2>1, LoggedStays DEF IInv
  <2>. QED  BY <1>1, <2>2 DEF IInv, EffectsAreLogged
<1>. QED  BY <1>3, <1>5, <1>6, <1>7 DEF IInv

LEMMA NextAlternativeInv ==
  ASSUME IInv, NEW s \in Slips, NextAlternative(s)
  PROVE  IInv'
<1>. DEFINE a == Subs[cur[s]][alt[s] + 1]
<1>1. /\ phase[s] = "working" /\ Kind[cur[s]] = "fallback" /\ alt[s] < Len(Subs[cur[s]])
      /\ alt[s] > 0 => phase[Alternative(s)] = "failed"
      /\ alt' = [alt EXCEPT ![s] = @ + 1]
      /\ Drive(s, "working", {a}, "forward")
      /\ UNCHANGED <<pending, logs, cur, applied>>
  BY DEF NextAlternative, Working
<1>2. cur[s] \in Items /\ Owner[cur[s]] = s /\ \A b \in Branches(cur[s]) : phase[b] \in Quiet
  BY <1>1, NothingUnder DEF Busy, Final
<1>3. a \in Branches(cur[s])
  <2>1. alt[s] + 1 \in 1..Len(Subs[cur[s]])
    <3>1. alt[s] \in Nat /\ Len(Subs[cur[s]]) \in Nat
      BY <1>2, SagaAssumption DEF IInv, TypeOK
    <3>. QED  BY <1>1, <3>1
  <2>. QED  BY <1>2, <2>1, BranchOf
<1>. HIDE DEF a
<1>4. TypeOK'
  BY <1>1 DEF IInv, TypeOK, Drive, Phases
<1>5. \A x \in Slips : phase'[x] = IF x = s THEN "working" ELSE IF x = a THEN "forward" ELSE phase[x]
  BY <1>1 DEF Drive
<1>6. OwnInv'
  <2>1. alt'[s] = alt[s] + 1 /\ alt[s] \in Nat /\ Len(Subs[cur[s]]) \in Nat
        /\ \A x \in Slips : x # s => alt'[x] = alt[x]
    BY <1>1, <1>2, SagaAssumption DEF IInv, TypeOK
  <2>2. alt'[s] <= Len(Subs[cur[s]])
    BY <1>1, <2>1
  <2>3. \A x \in Slips : x # s => phase'[x] = phase[x] \/ phase'[x] \notin Busy
    BY <1>5 DEF Busy
  <2>4. Own(s)'
    BY <1>1, <1>2, <1>5, <2>2 DEF IInv, OwnInv, Own, OwnPending, OwnLogs, OwnLog, OwnWork
  <2>. QED  BY <1>1, <2>1, <2>3, <2>4, OtherOwn
<1>7. QuietInv'
  <2>1. alt'[s] = alt[s] + 1 /\ alt'[s] > 0 /\ \A x \in Slips : x # s => alt'[x] = alt[x]
    BY <1>1 DEF IInv, TypeOK
  <2>2. {a} = {Subs[cur[s]][alt'[s]]}
    BY <2>1 DEF a
  <2>3. "working" \in Busy /\ phase[s] \notin Quiet /\ {a} \subseteq Branches(cur[s])
    BY <1>1, <1>3 DEF Busy, Quiet
  <2>. QED  BY <1>1, <1>2, <1>4, <2>1, <2>2, <2>3, DriveQuiet
<1>8. EffectsAreLogged'
  <2>1. \A x \in Slips : phase[x] = "undoing" => phase'[x] = "undoing" /\ cur'[x] = cur[x]
    BY <1>1, <1>2, <1>3, <1>5 DEF Quiet
  <2>2. Logged \ {} \subseteq Logged'
    BY <1>1, <1>4, <2>1, LoggedStays DEF IInv
  <2>. QED  BY <1>1, <2>2 DEF IInv, EffectsAreLogged
<1>. QED  BY <1>4, <1>6, <1>7, <1>8 DEF IInv

-----------------------------------------------------------------------------
\* The log popped is the one that is being compensated.
LEMMA UndoLastInv ==
  ASSUME IInv, NEW s \in Slips, UndoLast(s)
  PROVE  IInv'
<1>. DEFINE l == logs[s][Len(logs[s])]
            q == SubSeq(logs[s], 1, Len(logs[s]) - 1)
<1>1. /\ phase[s] = "backward" /\ logs[s] # <<>> /\ logs[s] \in Seq(WorkLog)
      /\ cur' = [cur EXCEPT ![s] = l.item] /\ alt' = [alt EXCEPT ![s] = l.alt]
      /\ Drive(s, "undoing", Compensated(l), "backward")
      /\ logs' = [logs EXCEPT ![s] = q]
      /\ UNCHANGED <<pending, applied>>
  BY DEF UndoLast, Undo, IInv, TypeOK
<1>2. /\ l \in WorkLog /\ Len(logs[s]) >= 1 /\ Len(logs[s]) \in Nat
      /\ q \in Seq(WorkLog) /\ Len(q) = Len(logs[s]) - 1
      /\ \A k \in 1..Len(logs[s]) - 1 : q[k] = logs[s][k]
  <2>1. Len(logs[s]) >= 1 /\ Len(logs[s]) \in Nat
    BY <1>1
  <2>. QED  BY <1>1, <2>1, SeqFacts
<1>3. /\ l.item \in Items /\ l.alt \in Nat /\ Owner[l.item] = s
      /\ Kind[l.item] = "fallback" => l.alt \in 1..Len(Subs[l.item])
  <2>1. OwnLog(s, l)
    BY <1>2 DEF IInv, OwnInv, Own, OwnLogs
  <2>. QED  BY <1>2, <2>1 DEF OwnLog, WorkLog
<1>4. \A b \in Branches(l.item) : phase[b] \in Quiet
  BY <1>1, <1>3 DEF IInv, QuietInv, At, Busy
<1>5. /\ Compensated(l) \subseteq Branches(l.item)
      /\ Kind[l.item] = "fallback" => Compensated(l) = {Subs[l.item][l.alt]}
  BY <1>3, BranchOf DEF Compensated
<1>. HIDE DEF l, q
<1>6. TypeOK'
  BY <1>1, <1>2, <1>3 DEF IInv, TypeOK, Drive, Phases
<1>7. \A x \in Slips : phase'[x] = IF x = s THEN "undoing"
                                   ELSE IF x \in Compensated(l) THEN "backward" ELSE phase[x]
  BY <1>1 DEF Drive
<1>8. \A x \in Slips : x # s => cur'[x] = cur[x] /\ alt'[x] = alt[x] /\ logs'[x] = logs[x]
  BY <1>1 DEF IInv, TypeOK
<1>9. cur'[s] = l.item /\ alt'[s] = l.alt /\ logs'[s] = q /\ phase'[s] = "undoing"
  BY <1>1, <1>7 DEF IInv, TypeOK
<1>10. OwnInv'
  <2>1. OwnLogs(s)'
    <3>. SUFFICES ASSUME NEW k \in 1..Len(q) PROVE OwnLog(s, q[k])
      BY <1>9 DEF OwnLogs, OwnLog
    <3>1. k \in 1..Len(logs[s]) /\ q[k] = logs[s][k]
      BY <1>2
    <3>. QED  BY <3>1 DEF IInv, OwnInv, Own, OwnLogs
  <2>2. \A x \in Slips : x # s => phase'[x] = phase[x] \/ phase'[x] \notin Busy
    BY <1>7 DEF Busy
  <2>3. OwnPending(s)' /\ OwnWork(s)'
    BY <1>1, <1>3, <1>9 DEF IInv, OwnInv, Own, OwnPending, OwnWork
  <2>. QED  BY <1>1, <1>8, <2>1, <2>2, <2>3, OtherOwn DEF Own
<1>11. QuietInv'
  <2>1. "undoing" \in Busy /\ phase[s] \notin Quiet /\ phase[s] \notin Busy
        /\ (Kind[l.item] = "fallback" => l.alt > 0)
    BY <1>1, <1>3 DEF Busy, Quiet
  <2>. QED  BY <1>1, <1>3, <1>4, <1>5, <1>6, <1>8, <1>9, <2>1, DriveQuiet
<1>12. EffectsAreLogged'
  <2>1. \A x \in Slips : phase[x] = "undoing" => phase'[x] = "undoing" /\ cur'[x] = cur[x]
    BY <1>1, <1>4, <1>5, <1>7, <1>8 DEF Quiet
  <2>2. \A x \in Slips : \A k \in 1..Len(logs[x]) :
          \/ \E m \in 1..Len(logs'[x]) : logs'[x][m].item = logs[x][k].item
          \/ phase'[x] = "undoing" /\ cur'[x] = logs[x][k].item
    <3>. SUFFICES ASSUME NEW k \in 1..Len(logs[s])
         PROVE  \/ \E m \in 1..Len(q) : q[m].item = logs[s][k].item
                \/ cur'[s] = logs[s][k].item
      BY <1>8, <1>9
    <3>1. k = Len(logs[s]) \/ (k \in 1..Len(q) /\ q[k] = logs[s][k])
      BY <1>2
    <3>2. k = Len(logs[s]) => cur'[s] = logs[s][k].item
      BY <1>9 DEF l
    <3>. QED  BY <3>1, <3>2
  <2>3. Logged \ {} \subseteq Logged'
    BY <1>6, <2>1, <2>2, LoggedStays DEF IInv
  <2>. QED  BY <1>1, <2>3 DEF IInv, EffectsAreLogged
<1>. QED  BY <1>6, <1>10, <1>11, <1>12 DEF IInv

\* The compensation of a leaf takes its effect back.
LEMMA CompensatedInv ==
  ASSUME IInv, NEW s \in Slips, LeafCompensated(s) \/ LeafResumes(s)
  PROVE  IInv'
<1>1. /\ phase[s] = "undoing" /\ Kind[cur[s]] = "leaf" /\ applied' = applied \ {cur[s]}
      /\ UNCHANGED <<logs, cur, alt>>
  BY DEF LeafCompensated, LeafResumes, Undoing, UndoGoes
<1>2. cur[s] \in Items /\ Owner[cur[s]] = s /\ \A b \in Branches(cur[s]) : phase[b] \in Quiet
  BY <1>1, NothingUnder DEF Busy
<1>3. \E t \in {"forward", "backward"} : phase' = [phase EXCEPT ![s] = t]
  BY DEF LeafCompensated, LeafResumes, UndoGoes
<1>4. pending' = pending \/ pending' = [pending EXCEPT ![s] = Extra[cur[s]] \o @]
  BY DEF LeafCompensated, LeafResumes
<1>5. pending[s] \in Seq(Items) /\ Extra[cur[s]] \in Seq(Items)
  BY <1>2, SagaAssumption DEF IInv, TypeOK
<1>6. Extra[cur[s]] \o pending[s] \in Seq(Items)
      /\ \A k \in 1..Len(Extra[cur[s]] \o pending[s]) :
           Owner[(Extra[cur[s]] \o pending[s])[k]] = s
  <2>. DEFINE p == Extra[cur[s]]
              q == pending[s]
  <2>1. \A m \in 1..Len(p) : Owner[p[m]] = s
    BY <1>2, <1>5, SagaAssumption DEF Tree, Range
  <2>2. \A m \in 1..Len(q) : Owner[q[m]] = s
    BY DEF IInv, OwnInv, Own, OwnPending
  <2>3. p \in Seq(Items) /\ q \in Seq(Items)
    BY <1>5
  <2>. HIDE DEF p, q
  <2>4. /\ p \o q \in Seq(Items)
        /\ \A k \in 1..Len(p \o q) : \/ \E m \in 1..Len(p) : (p \o q)[k] = p[m]
                                     \/ \E m \in 1..Len(q) : (p \o q)[k] = q[m]
    BY <2>3, ConcatFacts
  <2>5. p \o q \in Seq(Items) /\ \A k \in 1..Len(p \o q) : Owner[(p \o q)[k]] = s
    BY <2>1, <2>2, <2>4
  <2>. QED  BY <2>5 DEF p, q
<1>7. TypeOK'
  BY <1>1, <1>3, <1>4, <1>6 DEF IInv, TypeOK, Phases
<1>8. OwnInv'
  <2>1. pending'[s] = pending[s] \/ pending'[s] = Extra[cur[s]] \o pending[s]
    BY <1>4 DEF IInv, TypeOK
  <2>2. OwnPending(s)'
    BY <1>6, <2>1 DEF IInv, OwnInv, Own, OwnPending
  <2>3. \A x \in Slips : x # s => pending'[x] = pending[x] /\ phase'[x] = phase[x]
    BY <1>3, <1>4 DEF IInv, TypeOK
  <2>4. phase'[s] \in {"forward", "backward"}
    BY <1>3 DEF IInv, TypeOK
  <2>5. OwnLogs(s)' /\ OwnWork(s)'
    BY <1>1, <2>4 DEF IInv, OwnInv, Own, OwnLogs, OwnLog, OwnWork, Busy
  <2>. QED  BY <1>1, <2>2, <2>3, <2>5, OtherOwn DEF Own
<1>9. QuietInv'
  BY <1>1, <1>2, <1>3, AloneQuiet DEF Quiet, Phases
<1>10. EffectsAreLogged'
  <2>1. \A x \in Slips : x # s => phase'[x] = phase[x]
    BY <1>3 DEF IInv, TypeOK
  <2>2. Logged \ {cur[s]} \subseteq Logged'
    BY <1>1, <1>7, <2>1, LoggedStays DEF IInv
  <2>. QED  BY <1>1, <2>2 DEF IInv, EffectsAreLogged
<1>. QED  BY <1>7, <1>8, <1>9, <1>10 DEF IInv

LEMMA InvStep == IInv /\ [Next]_vars => IInv'
<1>. SUFFICES ASSUME IInv, [Next]_vars PROVE IInv'
  OBVIOUS
<1>1. ASSUME NEW s \in Slips, Forward(s) PROVE IInv'
  BY <1>1, ProcessNextInv, EndInv, WorkDoneInv, ParallelFailsInv, NextAlternativeInv DEF Forward
<1>2. ASSUME NEW s \in Slips, Backward(s) PROVE IInv'
  BY <1>2, UndoLastInv, EndInv, CompensatedInv DEF Backward
<1>3. CASE UNCHANGED vars
  BY <1>3 DEF vars, IInv, TypeOK, OwnInv, Own, OwnPending, OwnLogs, OwnLog, OwnWork, QuietInv, At, Alternative, EffectsAreLogged, Logged, LoggedItems
<1>. QED  BY <1>1, <1>2, <1>3 DEF Next

LEMMA Invariance == Spec => []IInv
BY InvInit, InvStep, PTL DEF Spec

-----------------------------------------------------------------------------
\* Every variable keeps its type; OwnInv is needed, for the item at work is read
\* from cur.
THEOREM TypeCorrect == Spec => []TypeOK
<1>1. IInv => TypeOK
  BY DEF IInv
<1>. QED  BY <1>1, Invariance, PTL

\* An effect in place has its work log until its compensation has run or raised.
THEOREM NoEffectForgotten == Spec => []EffectsAreLogged
<1>1. IInv => EffectsAreLogged
  BY DEF IInv
<1>. QED  BY <1>1, Invariance, PTL
=============================================================================
