-------------------------------- MODULE Saga --------------------------------
(***************************************************************************)
(* Routing slips and the activities that nest them (ascetic_ddd/saga).  A    *)
(* slip is a queue of work items and a stack of work logs; its driver works  *)
(* forward until an item fails, then compensates the logs from the top.  The *)
(* driver of the Root slip is the chain of activity hosts, the driver of any *)
(* other slip is the ParallelActivity or FallbackActivity whose work item    *)
(* holds it.  Drivers interleave wherever they await an activity.            *)
(***************************************************************************)
EXTENDS Naturals, Sequences, Functions

CONSTANTS
  Slips,        \* the routing slips
  Root,         \* the slip the hosts send to each other
  Items,        \* the work items
  Owner,        \* Owner[i]: the slip item i belongs to
  Work,         \* Work[s]: the items slip s is built with
  Kind,         \* Kind[i]: "leaf", "parallel" or "fallback"
  Subs,         \* Subs[i]: the branches or alternatives of i, in order
  Extra,        \* Extra[i]: work the compensation of leaf i adds, returning False
  Fragile,      \* the leaves whose compensation may raise
  Cancellable,  \* the leaves whose do_work may end in asyncio.CancelledError
  NoItem,       \* not an item
  Depth         \* how deep slips nest

Leaves == {i \in Items : Kind[i] = "leaf"}

\* The slips in the arguments of item i.
Branches(i) == Range(Subs[i])

\* Every item is in one slip and every slip but the root in one item, once.
Tree ==
  /\ Owner \in [Items -> Slips]
  /\ \A s \in Slips : \A i \in Range(Work[s]) : Owner[i] = s
  /\ \A i \in Items : \A j \in Range(Extra[i]) : Owner[j] = Owner[i]
  /\ \A i, j \in Items : i # j => Branches(i) \cap Branches(j) = {}
  /\ \A i \in Items : \A m, n \in 1..Len(Subs[i]) : m # n => Subs[i][m] # Subs[i][n]
  /\ \A i \in Items : Owner[i] \notin Branches(i) /\ (Kind[i] = "leaf" => Subs[i] = <<>>)

ASSUME SagaAssumption ==
  /\ Root \in Slips /\ NoItem \notin Items
  /\ Work \in [Slips -> Seq(Items)]
  /\ Kind \in [Items -> {"leaf", "parallel", "fallback"}]
  /\ Subs \in [Items -> Seq(Slips \ {Root})]
  /\ Extra \in [Items -> Seq(Items)]
  /\ Tree
  /\ Fragile \subseteq Leaves /\ Cancellable \subseteq Leaves
  /\ Depth \in Nat

VARIABLES
  phase,    \* phase[s]: what the driver of s is doing
  pending,  \* pending[s]: _next_work_items
  logs,     \* logs[s]: _completed_work_logs
  cur,      \* cur[s]: the item do_work or compensate is running for
  alt,      \* alt[s]: the alternative tried last, where cur[s] is a fallback
  applied   \* the leaves whose effects are in place

vars == <<phase, pending, logs, cur, alt, applied>>

\* A work log: the item, and the alternative that succeeded.
WorkLog == [item: Items, alt: Nat]

Final == {"succeeded", "failed", "raised", "cancelled"}

Phases == {"idle", "forward", "working", "aborting", "backward", "undoing"} \cup Final

TypeOK ==
  /\ phase \in [Slips -> Phases]
  /\ pending \in [Slips -> Seq(Items)]
  /\ logs \in [Slips -> Seq(WorkLog)]
  /\ cur \in [Slips -> Items \cup {NoItem}]
  /\ alt \in [Slips -> Nat]
  /\ applied \subseteq Leaves

Init ==
  /\ phase = [s \in Slips |-> IF s = Root THEN "forward" ELSE "idle"]
  /\ pending = Work
  /\ logs = [s \in Slips |-> <<>>]
  /\ cur = [s \in Slips |-> NoItem]
  /\ alt = [s \in Slips |-> 0]
  /\ applied = {}

\* The driver of s goes to `to`; the slips in started begin their own drive.
Drive(s, to, started, start) ==
  phase' = [x \in Slips |-> IF x = s THEN to ELSE IF x \in started THEN start ELSE phase[x]]

-----------------------------------------------------------------------------
(***************************************************************************)
(* The forward path: process_next().                                        *)
(***************************************************************************)

ProcessNext(s) ==
  /\ phase[s] = "forward" /\ pending[s] # <<>>
  /\ LET i == Head(pending[s])
     IN /\ cur' = [cur EXCEPT ![s] = i]
        /\ alt' = [alt EXCEPT ![s] = 0]
        /\ Drive(s, "working", IF Kind[i] = "parallel" THEN Branches(i) ELSE {}, "forward")
  /\ pending' = [pending EXCEPT ![s] = Tail(@)]
  /\ UNCHANGED <<logs, applied>>

\* is_completed.
Finish(s) ==
  /\ phase[s] = "forward" /\ pending[s] = <<>>
  /\ phase' = [phase EXCEPT ![s] = "succeeded"]
  /\ UNCHANGED <<pending, logs, cur, alt, applied>>

\* Bug: the log of the last item is not kept, for the slip is completed.
WorkDoneUnlogged(s) ==
  /\ logs' = [logs EXCEPT ![s] = IF pending[s] = <<>> THEN @ ELSE Append(@, [item |-> cur[s], alt |-> alt[s]])]
  /\ phase' = [phase EXCEPT ![s] = "forward"]
  /\ UNCHANGED <<pending, cur, alt>>

\* do_work returned a work log, or returned None or raised an Exception.
WorkDone(s) ==
  /\ logs' = [logs EXCEPT ![s] = Append(@, [item |-> cur[s], alt |-> alt[s]])]
  /\ phase' = [phase EXCEPT ![s] = "forward"]
  /\ UNCHANGED <<pending, cur, alt>>

WorkFailed(s) ==
  /\ phase' = [phase EXCEPT ![s] = "backward"]
  /\ UNCHANGED <<pending, logs, cur, alt>>

Working(s, kind) == phase[s] = "working" /\ Kind[cur[s]] = kind

\* Bug: a None result is logged as completed work.
LeafFailsLogged(s) ==
  /\ Working(s, "leaf")
  /\ logs' = [logs EXCEPT ![s] = Append(@, [item |-> cur[s], alt |-> alt[s]])]
  /\ phase' = [phase EXCEPT ![s] = "backward"]
  /\ UNCHANGED <<pending, cur, alt, applied>>

LeafSucceeds(s) == Working(s, "leaf") /\ WorkDone(s) /\ applied' = applied \cup {cur[s]}
LeafFails(s)    == Working(s, "leaf") /\ WorkFailed(s) /\ UNCHANGED applied

\* CancelledError is no Exception: process_next does not catch it.
LeafCancelled(s) ==
  /\ Working(s, "leaf") /\ cur[s] \in Cancellable
  /\ phase' = [phase EXCEPT ![s] = "cancelled"]
  /\ UNCHANGED <<pending, logs, cur, alt, applied>>

\* Bug: the first branch that succeeds ends the wait for the others.
ParallelJoinsFirst(s) ==
  /\ Working(s, "parallel")
  /\ \E b \in Branches(cur[s]) : phase[b] = "succeeded"
  /\ WorkDone(s)
  /\ UNCHANGED applied

\* gather(return_exceptions=True) over the branches, none of them False or an
\* Exception.
ParallelJoins(s) ==
  /\ Working(s, "parallel")
  /\ \A b \in Branches(cur[s]) : phase[b] \in {"succeeded", "cancelled"}
  /\ WorkDone(s)
  /\ UNCHANGED applied

\* Bug: branches that completed are left alone when another fails.
ParallelFailsAlone(s) ==
  /\ Working(s, "parallel")
  /\ \A b \in Branches(cur[s]) : phase[b] \in Final
  /\ \E b \in Branches(cur[s]) : phase[b] \in {"failed", "raised"}
  /\ WorkFailed(s)
  /\ UNCHANGED applied

\* One branch failed: all of them are compensated ...
ParallelFails(s) ==
  /\ Working(s, "parallel")
  /\ \A b \in Branches(cur[s]) : phase[b] \in Final
  /\ \E b \in Branches(cur[s]) : phase[b] \in {"failed", "raised"}
  /\ Drive(s, "aborting", Branches(cur[s]), "backward")
  /\ UNCHANGED <<pending, logs, cur, alt, applied>>

\* ... whatever their compensations raise, and do_work returns None.
ParallelAborted(s) ==
  /\ phase[s] = "aborting"
  /\ \A b \in Branches(cur[s]) : phase[b] \in Final
  /\ WorkFailed(s)
  /\ UNCHANGED applied

\* The alternative tried last; meaningful once there is one.
Alternative(s) == Subs[cur[s]][alt[s]]

\* Bug: the next alternative starts while the last one compensates itself.
NextAlternativeAtOnce(s) ==
  /\ Working(s, "fallback")
  /\ alt[s] < Len(Subs[cur[s]])
  /\ alt[s] > 0 => phase[Alternative(s)] \in {"backward", "failed"}
  /\ alt' = [alt EXCEPT ![s] = @ + 1]
  /\ Drive(s, "working", {Subs[cur[s]][alt[s] + 1]}, "forward")
  /\ UNCHANGED <<pending, logs, cur, applied>>

NextAlternative(s) ==
  /\ Working(s, "fallback")
  /\ alt[s] < Len(Subs[cur[s]])
  /\ alt[s] > 0 => phase[Alternative(s)] = "failed"
  /\ alt' = [alt EXCEPT ![s] = @ + 1]
  /\ Drive(s, "working", {Subs[cur[s]][alt[s] + 1]}, "forward")
  /\ UNCHANGED <<pending, logs, cur, applied>>

AlternativeSucceeds(s) ==
  /\ Working(s, "fallback")
  /\ alt[s] > 0 /\ phase[Alternative(s)] = "succeeded"
  /\ WorkDone(s)
  /\ UNCHANGED applied

\* All alternatives failed, or the compensation of one raised out of do_work.
FallbackFails(s) ==
  /\ Working(s, "fallback")
  /\ \/ alt[s] = Len(Subs[cur[s]]) /\ (alt[s] > 0 => phase[Alternative(s)] = "failed")
     \/ alt[s] > 0 /\ phase[Alternative(s)] = "raised"
  /\ WorkFailed(s)
  /\ UNCHANGED applied

FallbackCancelled(s) ==
  /\ Working(s, "fallback")
  /\ alt[s] > 0 /\ phase[Alternative(s)] = "cancelled"
  /\ phase' = [phase EXCEPT ![s] = "cancelled"]
  /\ UNCHANGED <<pending, logs, cur, alt, applied>>

-----------------------------------------------------------------------------
(***************************************************************************)
(* The backward path: undo_last().                                          *)
(***************************************************************************)

\* The slips that the compensation of work log l drives backward.
Compensated(l) ==
  CASE Kind[l.item] = "parallel" -> Branches(l.item)
    [] Kind[l.item] = "fallback" -> {Subs[l.item][l.alt]}
    [] OTHER -> {}

Undo(s, l) ==
  /\ cur' = [cur EXCEPT ![s] = l.item]
  /\ alt' = [alt EXCEPT ![s] = l.alt]
  /\ Drive(s, "undoing", Compensated(l), "backward")
  /\ UNCHANGED <<pending, applied>>

\* Bug: the oldest log first.
UndoFirst(s) ==
  /\ phase[s] = "backward" /\ logs[s] # <<>>
  /\ Undo(s, Head(logs[s]))
  /\ logs' = [logs EXCEPT ![s] = Tail(@)]

\* Bug: the log is read and stays on the stack.
UndoPeek(s) ==
  /\ phase[s] = "backward" /\ logs[s] # <<>>
  /\ Undo(s, logs[s][Len(logs[s])])
  /\ UNCHANGED logs

\* The log is popped before its compensation runs.
UndoLast(s) ==
  /\ phase[s] = "backward" /\ logs[s] # <<>>
  /\ Undo(s, logs[s][Len(logs[s])])
  /\ logs' = [logs EXCEPT ![s] = SubSeq(@, 1, Len(@) - 1)]

\* Not is_in_progress.
Undone(s) ==
  /\ phase[s] = "backward" /\ logs[s] = <<>>
  /\ phase' = [phase EXCEPT ![s] = "failed"]
  /\ UNCHANGED <<pending, logs, cur, alt, applied>>

Undoing(s, kind) == phase[s] = "undoing" /\ Kind[cur[s]] = kind

UndoGoes(s, to) ==
  /\ phase' = [phase EXCEPT ![s] = to]
  /\ UNCHANGED <<logs, cur, alt>>

LeafCompensated(s) ==
  /\ Undoing(s, "leaf") /\ Extra[cur[s]] = <<>>
  /\ applied' = applied \ {cur[s]}
  /\ UndoGoes(s, "backward")
  /\ UNCHANGED pending

\* Bug: the result of compensate is ignored everywhere.
LeafResumesBackward(s) ==
  /\ Undoing(s, "leaf") /\ Extra[cur[s]] # <<>>
  /\ applied' = applied \ {cur[s]}
  /\ pending' = [pending EXCEPT ![s] = Extra[cur[s]] \o @]
  /\ UndoGoes(s, "backward")

\* compensate added work and returned False.  The hosts resume the forward path;
\* the loops of the composite activities do not look at the result.
LeafResumes(s) ==
  /\ Undoing(s, "leaf") /\ Extra[cur[s]] # <<>>
  /\ applied' = applied \ {cur[s]}
  /\ pending' = [pending EXCEPT ![s] = Extra[cur[s]] \o @]
  /\ UndoGoes(s, IF s = Root THEN "forward" ELSE "backward")

LeafCompensationRaises(s) ==
  /\ Undoing(s, "leaf") /\ cur[s] \in Fragile
  /\ UndoGoes(s, "raised")
  /\ UNCHANGED <<pending, applied>>

\* gather(return_exceptions=True) over the compensations; compensate returns True.
ParallelCompensated(s) ==
  /\ Undoing(s, "parallel")
  /\ \A b \in Branches(cur[s]) : phase[b] \in Final
  /\ UndoGoes(s, "backward")
  /\ UNCHANGED <<pending, applied>>

FallbackCompensated(s) ==
  /\ Undoing(s, "fallback")
  /\ phase[Alternative(s)] \in Final
  /\ UndoGoes(s, IF phase[Alternative(s)] = "raised" THEN "raised" ELSE "backward")
  /\ UNCHANGED <<pending, applied>>

Forward(s) ==
  \/ ProcessNext(s) \/ Finish(s)
  \/ LeafSucceeds(s) \/ LeafFails(s) \/ LeafCancelled(s)
  \/ ParallelJoins(s) \/ ParallelFails(s) \/ ParallelAborted(s)
  \/ NextAlternative(s) \/ AlternativeSucceeds(s) \/ FallbackFails(s) \/ FallbackCancelled(s)

Backward(s) ==
  \/ UndoLast(s) \/ Undone(s)
  \/ LeafCompensated(s) \/ LeafResumes(s) \/ LeafCompensationRaises(s)
  \/ ParallelCompensated(s) \/ FallbackCompensated(s)

Next == \E s \in Slips : Forward(s) \/ Backward(s)

Spec == Init /\ [][Next]_vars

\* Every do_work and every compensate returns or raises, and the loop goes on.
FairSpec == Spec /\ \A s \in Slips : WF_vars(Forward(s) \/ Backward(s))

-----------------------------------------------------------------------------
(***************************************************************************)
(* Properties.                                                              *)
(***************************************************************************)

\* The leaves some work log remembers.
LoggedItems(s) == {l.item : l \in Range(logs[s])}

Logged == {i \in Leaves : \E s \in Slips : \/ i \in LoggedItems(s)
                                           \/ phase[s] = "undoing" /\ cur[s] = i}

\* No effect is forgotten: whatever fails, is tried again or is compensated, an
\* effect in place has its work log, unless its own compensation raised.
EffectsAreLogged == applied \ Fragile \subseteq Logged

\* No compensation runs for work that is not in place.
LoggedIsApplied == Logged \subseteq applied

\* The leaves in or under item i, d levels deep.
LeavesUnder[d \in Nat] ==
  [i \in Items |->
     IF Kind[i] = "leaf" THEN {i}
     ELSE IF d = 0 THEN {}
     ELSE UNION {LeavesUnder[d - 1][j] : j \in UNION {Range(Work[b]) : b \in Branches(i)}}]

\* "Reverse order within each": the effects of an item go only after those of
\* every later item of its slip, however deep either is nested.
ReverseOrder ==
  [][\A s \in Slips : \A m, n \in 1..Len(Work[s]) : m < n =>
       LET Of(k) == LeavesUnder[Depth][Work[s][k]]
       IN  (Of(m) \cap applied) \ applied' # {} => Of(n) \cap applied = {}]_vars

\* "If alternative fails, it compensates itself before trying next": no two
\* alternatives of a fallback have effects in place.
SlipEffects(b) == applied \cap UNION {LeavesUnder[Depth][j] : j \in Range(Work[b])}

OneAlternative ==
  \A i \in Items : Kind[i] = "fallback" =>
    \A m, n \in 1..Len(Subs[i]) : m # n =>
      SlipEffects(Subs[i][m]) = {} \/ SlipEffects(Subs[i][n]) = {}

\* A saga whose backward path ended has no effects left.
CompensatedMeansUndone == phase[Root] = "failed" => applied = {}

\* A logged parallel item stands for all the work of all its branches, a logged
\* fallback for all the work of its alternative.
JoinedWorkIsDone ==
  \A s \in Slips : \A l \in Range(logs[s]) : \A b \in Compensated(l) :
    Range(Work[b]) \subseteq LoggedItems(b)

\* Work that a compensation added is taken up: what it put first in the queue is
\* not there any more when the backward path ends.
AddedWorkIsDone ==
  \A s \in Slips : phase[s] = "failed" =>
    \A i \in Items : Extra[i] # <<>> => Extra[i][1] \notin Range(pending[s])

\* Every saga ends.
Terminates == <>(phase[Root] \in Final)
=============================================================================
