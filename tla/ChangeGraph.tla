----------------------------- MODULE ChangeGraph ----------------------------
(***************************************************************************)
(* The change managers (dag_change/dag_change_manager.py and the one with    *)
(* subscriptions by type, dag_change_typed/dag_change_manager.py): edges from *)
(* subjects to observers, kept in both directions, and the notification of    *)
(* all that a change reaches.                                              *)
(*                                                                         *)
(* A call that changes edges is one step; notify() is a step for each turn of *)
(* its loops, in which nothing else happens.  The order is fixed before the   *)
(* first update(): what update() calls then are further calls of the API.     *)
(***************************************************************************)
EXTENDS Integers, Sequences, SequencesExt, FiniteSetsExt

CONSTANTS
  Subjects, Observers,  \* a node in both passes changes on
  TypeOf,               \* the subjects of the typed manager -> their subject_type
  MaxEdges,             \* how many edges there are (a bound of the model)
  MaxBindings,          \* how many subscriptions by type (a bound of the model)
  MaxKnown              \* how often subjects of a type announce themselves (a bound of the model)

ASSUME ChangeGraphAssumption == DOMAIN TypeOf \subseteq Subjects

VARIABLES
  deps,         \* subject -> the list of its observers
  reverseDeps,  \* observer -> the list of its subjects
  bindings,     \* the list of <<subject type, observer>>
  known,        \* type -> the list of the subjects that announced themselves
  autoEdges,    \* the edges made for a binding
  phase,        \* what notify() is doing; "updating" once the order is fixed
  changed,      \* the subject that it is about, in a set
  calls,        \* the calls of _collect_affected(), one inside the other
  affected,     \* the observers found, in the order in which the dict is filled
  degree,       \* the in-degrees of those
  queue,        \* the observers whose in-degree is 0
  ahead,        \* the observers that the loop at hand has still to go through
  sorted        \* the order of the updates

graphVars  == <<deps, reverseDeps, bindings, known, autoEdges>>
notifyVars == <<phase, changed, calls, affected, degree, queue, ahead, sorted>>
changeVars == <<graphVars, notifyVars>>

Types == {TypeOf[s] : s \in DOMAIN TypeOf}
HasEdge(d, s, o) == Contains(d[s], o)

\* Both directions of the edges.
Links == [deps |-> deps, reverse |-> reverseDeps]
Relink(links) == deps' = links.deps /\ reverseDeps' = links.reverse

\* Bug: a second edge is noticed on the side of the subject only.
LinkOnce(links, s, o) ==
  [deps    |-> [links.deps EXCEPT ![s] = IF Contains(@, o) THEN @ ELSE Append(@, o)],
   reverse |-> [links.reverse EXCEPT ![o] = Append(@, s)]]

Link(links, s, o) ==
  [deps    |-> [links.deps EXCEPT ![s] = Append(@, o)],
   reverse |-> [links.reverse EXCEPT ![o] = Append(@, s)]]

\* The first of equal entries goes; an empty list and no list are the same.
FirstPlace(seq, x)   == CHOOSE i \in DOMAIN seq : seq[i] = x /\ \A j \in 1..(i - 1) : seq[j] # x
WithoutFirst(seq, x) == IF Contains(seq, x) THEN RemoveAt(seq, FirstPlace(seq, x)) ELSE seq

Unlink(links, s, o) ==
  [deps    |-> [links.deps EXCEPT ![s] = WithoutFirst(@, o)],
   reverse |-> [links.reverse EXCEPT ![o] = WithoutFirst(@, s)]]

NumEdges(links) == ReduceSet(LAMBDA s, n : n + Len(links.deps[s]), Subjects, 0)

Begin(doing, subjects, first) ==
  /\ phase' = doing /\ changed' = subjects /\ calls' = first /\ affected' = <<>>
  /\ degree' = [o \in Observers |-> 0] /\ queue' = <<>> /\ ahead' = <<>> /\ sorted' = <<>>

\* A call of the API, from outside or from an update().
Calling == phase \in {"idle", "updating"}
Call    == Calling /\ Begin("idle", {}, <<>>)

-----------------------------------------------------------------------------
Register(s, o) ==
  /\ Call
  /\ NumEdges(Links) < MaxEdges
  /\ Relink(Link(Links, s, o))
  /\ UNCHANGED <<bindings, known, autoEdges>>

Unregister(s, o) ==
  /\ Call
  /\ Relink(Unlink(Links, s, o))
  /\ UNCHANGED <<bindings, known, autoEdges>>

\* unregister_all(), and remove_subject() for the subject's edges.
WithoutSubject(s) ==
  LET reverse[k \in 0..Len(deps[s])] ==
        IF k = 0 THEN reverseDeps ELSE [reverse[k - 1] EXCEPT ![deps[s][k]] = WithoutFirst(@, s)]
  IN  [deps |-> [deps EXCEPT ![s] = <<>>], reverse |-> reverse[Len(deps[s])]]

UnregisterAll(s) ==
  /\ Call
  /\ Relink(WithoutSubject(s))
  /\ UNCHANGED <<bindings, known, autoEdges>>

\* The edges made at once, for the wanted pairs that have none.
AutoLink(made, s, o) ==
  IF HasEdge(made.links.deps, s, o) THEN made
  ELSE [links |-> Link(made.links, s, o), auto |-> made.auto \cup {<<s, o>>}]

AutoLinked(pairs, wanted) ==
  LET made[k \in 0..Len(pairs)] ==
        IF k = 0 THEN [links |-> Links, auto |-> autoEdges]
        ELSE IF k \in wanted THEN AutoLink(made[k - 1], pairs[k][1], pairs[k][2]) ELSE made[k - 1]
  IN  made[Len(pairs)]

MakeAutoEdges(pairs, wanted) ==
  LET made == AutoLinked(pairs, wanted) IN
  /\ NumEdges(made.links) <= MaxEdges
  /\ Relink(made.links)
  /\ autoEdges' = made.auto

\* A subject of the type that is the observer itself gets an edge to itself here.
RegisterByType(type, o) ==
  /\ Call
  /\ Len(bindings) < MaxBindings
  /\ bindings' = Append(bindings, <<type, o>>)
  /\ MakeAutoEdges([i \in DOMAIN known[type] |-> <<known[type][i], o>>], DOMAIN known[type])
  /\ UNCHANGED known

AutoUnlink(made, s, o) ==
  IF <<s, o>> \in made.auto
  THEN [links |-> Unlink(made.links, s, o), auto |-> made.auto \ {<<s, o>>}] ELSE made

AutoUnlinked(subjects, o) ==
  LET made[k \in 0..Len(subjects)] ==
        IF k = 0 THEN [links |-> Links, auto |-> autoEdges] ELSE AutoUnlink(made[k - 1], subjects[k], o)
  IN  made[Len(subjects)]

UnregisterByType(type, o) ==
  /\ Call
  /\ bindings' = WithoutFirst(bindings, <<type, o>>)
  /\ LET made == AutoUnlinked(known[type], o) IN Relink(made.links) /\ autoEdges' = made.auto
  /\ UNCHANGED known

AddSubject(s) ==
  LET bound == {i \in DOMAIN bindings : bindings[i][1] = TypeOf[s] /\ bindings[i][2] # s} IN
  /\ Call
  /\ Len(known[TypeOf[s]]) < MaxKnown
  /\ known' = [known EXCEPT ![TypeOf[s]] = Append(@, s)]
  /\ MakeAutoEdges([i \in DOMAIN bindings |-> <<s, bindings[i][2]>>], bound)
  /\ UNCHANGED bindings

RemoveSubject(s) ==
  /\ Call
  /\ known' = [known EXCEPT ![TypeOf[s]] = WithoutFirst(@, s)]
  /\ Relink(WithoutSubject(s))
  /\ autoEdges' = {e \in autoEdges : e[1] # s}
  /\ UNCHANGED bindings

-----------------------------------------------------------------------------
(* notify(): all that the change reaches, sorted by Kahn's algorithm.           *)

Notify(s) ==
  /\ Calling
  /\ Begin("collecting", {s}, <<[subject |-> s, at |-> 1]>>)
  /\ UNCHANGED graphVars

\* The observer that the innermost call has come to, if any is left.
Observed == deps[Last(calls).subject]
NextCall == Append(Front(calls), [Last(calls) EXCEPT !.at = @ + 1])

\* Bug: what an affected subject changes in its turn is left out.
VisitShallow ==
  /\ phase = "collecting" /\ calls # <<>> /\ Last(calls).at <= Len(Observed)
  /\ LET o == Observed[Last(calls).at] IN
     affected' = IF Contains(affected, o) THEN affected ELSE Append(affected, o)
  /\ calls' = NextCall
  /\ UNCHANGED <<graphVars, phase, changed, degree, queue, ahead, sorted>>

\* Bug: the loop does not pass over what it has seen.
VisitAgain ==
  /\ phase = "collecting" /\ calls # <<>> /\ Last(calls).at <= Len(Observed)
  /\ LET o == Observed[Last(calls).at] IN
     IF Contains(affected, o) THEN UNCHANGED <<affected, calls>>
     ELSE /\ affected' = Append(affected, o)
          /\ calls' = IF o \in Subjects THEN Append(NextCall, [subject |-> o, at |-> 1]) ELSE NextCall
  /\ UNCHANGED <<graphVars, phase, changed, degree, queue, ahead, sorted>>

Visit ==
  /\ phase = "collecting" /\ calls # <<>> /\ Last(calls).at <= Len(Observed)
  /\ LET o == Observed[Last(calls).at] IN
     IF Contains(affected, o) THEN affected' = affected /\ calls' = NextCall
     ELSE /\ affected' = Append(affected, o)
          /\ calls' = IF o \in Subjects THEN Append(NextCall, [subject |-> o, at |-> 1]) ELSE NextCall
  /\ UNCHANGED <<graphVars, phase, changed, degree, queue, ahead, sorted>>

Return ==
  /\ phase = "collecting" /\ calls # <<>> /\ Last(calls).at > Len(Observed)
  /\ calls' = Front(calls)
  /\ UNCHANGED <<graphVars, phase, changed, affected, degree, queue, ahead, sorted>>

\* Bug: a subject that is not affected counts as well.
InDegreeOfAll(o) == Len(reverseDeps[o])

\* How many entries of its subjects are affected themselves.
InDegree(o) ==
  Cardinality({i \in DOMAIN reverseDeps[o] :
                 reverseDeps[o][i] \in Observers /\ Contains(affected, reverseDeps[o][i])})

TopoSort ==
  /\ phase = "collecting" /\ calls = <<>>
  /\ phase' = IF affected = <<>> THEN "idle" ELSE "queueing"
  /\ degree' = [o \in Observers |-> IF Contains(affected, o) THEN InDegree(o) ELSE 0]
  /\ ahead' = affected
  /\ UNCHANGED <<graphVars, changed, calls, affected, queue, sorted>>

Enqueue ==
  /\ phase = "queueing" /\ ahead # <<>>
  /\ ahead' = Tail(ahead)
  /\ phase' = IF Tail(ahead) = <<>> THEN "sorting" ELSE "queueing"
  /\ queue' = IF degree[Head(ahead)] = 0 THEN Append(queue, Head(ahead)) ELSE queue
  /\ UNCHANGED <<graphVars, changed, calls, affected, degree, sorted>>

TakeNode ==
  /\ phase = "sorting" /\ ahead = <<>> /\ queue # <<>>
  /\ queue' = Tail(queue) /\ sorted' = Append(sorted, Head(queue))
  /\ ahead' = IF Head(queue) \in Subjects THEN deps[Head(queue)] ELSE <<>>
  /\ UNCHANGED <<graphVars, phase, changed, calls, affected, degree>>

\* Bug: an observer is queued with the first of its subjects.
RelaxAtOnce ==
  /\ phase = "sorting" /\ ahead # <<>>
  /\ ahead' = Tail(ahead)
  /\ LET o == Head(ahead) IN
     IF Contains(affected, o)
     THEN degree' = [degree EXCEPT ![o] = @ - 1] /\ queue' = Append(queue, o)
     ELSE UNCHANGED <<degree, queue>>
  /\ UNCHANGED <<graphVars, phase, changed, calls, affected, sorted>>

Relax ==
  /\ phase = "sorting" /\ ahead # <<>>
  /\ ahead' = Tail(ahead)
  /\ LET o == Head(ahead) IN
     IF Contains(affected, o)
     THEN /\ degree' = [degree EXCEPT ![o] = @ - 1]
          /\ queue' = IF degree[o] = 1 THEN Append(queue, o) ELSE queue
     ELSE UNCHANGED <<degree, queue>>
  /\ UNCHANGED <<graphVars, phase, changed, calls, affected, sorted>>

\* The queue has run empty: what is sorted is updated, and the rest is not.
Sorted ==
  /\ phase = "sorting" /\ ahead = <<>> /\ queue = <<>>
  /\ phase' = "updating"
  /\ UNCHANGED <<graphVars, changed, calls, affected, degree, queue, ahead, sorted>>

Turn == Visit \/ Return \/ TopoSort \/ Enqueue \/ TakeNode \/ Relax \/ Sorted

Init ==
  /\ deps = [s \in Subjects |-> <<>>] /\ reverseDeps = [o \in Observers |-> <<>>]
  /\ bindings = <<>> /\ known = [t \in Types |-> <<>>] /\ autoEdges = {}
  /\ phase = "idle" /\ changed = {} /\ calls = <<>> /\ affected = <<>>
  /\ degree = [o \in Observers |-> 0] /\ queue = <<>> /\ ahead = <<>> /\ sorted = <<>>

Next ==
  \/ \E s \in Subjects, o \in Observers : Register(s, o) \/ Unregister(s, o)
  \/ \E s \in Subjects : UnregisterAll(s) \/ Notify(s)
  \/ \E s \in DOMAIN TypeOf : AddSubject(s) \/ RemoveSubject(s)
  \/ \E t \in Types, o \in Observers : RegisterByType(t, o) \/ UnregisterByType(t, o)
  \/ Turn

\* notify() is synchronous: once called, its loops go on.
Spec == Init /\ [][Next]_changeVars /\ WF_changeVars(Turn)

-----------------------------------------------------------------------------
(* The types; an in-degree never falls below 0, which would put its observer into no   *)
(* queue.                                                                          *)
TypeOK ==
  /\ deps \in [Subjects -> Seq(Observers)] /\ reverseDeps \in [Observers -> Seq(Subjects)]
  /\ bindings \in Seq(Types \X Observers) /\ known \in [Types -> Seq(Subjects)]
  /\ autoEdges \subseteq Subjects \X Observers
  /\ phase \in {"idle", "collecting", "queueing", "sorting", "updating"} /\ changed \in SUBSET Subjects
  /\ calls \in Seq([subject : Subjects, at : Nat \ {0}])
  /\ affected \in Seq(Observers) /\ queue \in Seq(Observers)
  /\ ahead \in Seq(Observers) /\ sorted \in Seq(Observers)
  /\ degree \in [Observers -> Nat]

Count(seq, x) == Cardinality({i \in DOMAIN seq : seq[i] = x})

(* The two directions tell the same edges, as often: register() may be called twice    *)
(* for one pair, and every way to take an edge back takes it from both lists.          *)
BothDirections ==
  \A s \in Subjects, o \in Observers : Count(deps[s], o) = Count(reverseDeps[o], s)

\* What is affected once the observers of the changed subject are, and those of any of its subjects.
ClosedUnderChange(S) == \A s \in changed \cup (S \cap Subjects) : ToSet(deps[s]) \subseteq S

(* _collect_affected() finds the observers that the change reaches, each once, in a      *)
(* diamond or a cycle too, and no others.                                          *)
ReachesAll ==
  phase \in {"queueing", "sorting", "updating"} =>
    LET reached == ToSet(affected) IN
    /\ IsInjective(affected)
    /\ ClosedUnderChange(reached)
    /\ \A S \in SUBSET Observers : ClosedUnderChange(S) => reached \subseteq S

\* What must be updated before n: the affected observers that are subjects of it.
Before(n) == {m \in ToSet(affected) \cap Subjects : HasEdge(deps, m, n)}

(* An affected observer is updated once, after all that it observes itself among the      *)
(* affected; it is left out when one of these is, which only a cycle above it begins.    *)
UpdatesInOrder ==
  phase = "updating" =>
    /\ IsInjective(sorted) /\ ToSet(sorted) \subseteq ToSet(affected)
    /\ \A n \in ToSet(affected) : n \in ToSet(sorted) <=> Before(n) \subseteq ToSet(sorted)
    /\ \A i, j \in DOMAIN sorted : sorted[i] \in Before(sorted[j]) => i < j

(* Whatever the graph, a notification comes to an end: in a cycle each observer is       *)
(* visited once, and the queue runs empty.                                         *)
NotificationEnds == phase \in {"collecting", "queueing", "sorting"} ~> Calling
=============================================================================
