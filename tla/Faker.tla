--------------------------------- MODULE Faker --------------------------------
(***************************************************************************)
(* A network of faker providers over repositories (faker/domain/providers/): *)
(* aggregates of values, composite values and references to other            *)
(* aggregates.  A round is reset(), some require()s and populate() of the     *)
(* root; rows, the pools of the distributors and the dependent children stay. *)
(***************************************************************************)
EXTENDS QueryBackends

CONSTANTS
  Root,      \* the aggregate that rounds are about
  Attrs,     \* Attrs[n]: the names of n's nested providers, in their order
  Generated, \* Generated[n]: what the generator of value n yields; {} is no generator
  Nullable,  \* references whose distributor may yield no value
  Dependent, \* Dependent[a]: the clone for a child that depends on a, or NoNode
  ParentField, \* ParentField[c]: the field of child c that takes the id of what it depends on
  Queries,   \* bound: what is required of the root
  ChildQueries, \* bound: what is required of the root's child
  Probes,    \* queries of the repositories, for SqlAgrees
  Lazy,      \* references that were given a factory of their aggregate's provider
  MaxAsks,   \* bound: require()s of a round
  MaxRows    \* bound: MaxRows[a], rows of the repository of a

VARIABLES
  criteria,  \* criteria[n]: merged so far, or Nothing
  input,     \* input[n], output[n]: a value, or Nothing
  output,
  transient, \* transient[n]: the value is left to the database
  pool,      \* pool[r]: ids that the distributor of reference r knows
  attached,  \* attached[r]: whether r observes the ids of its aggregate
  wanted,    \* wanted[a]: what the DependentProvider of a requires of the child
  count,     \* count[a]: how many children it makes; several before that is known
  defined,   \* defined[a]: its _outputs_defined
  db,        \* db[a]: ids -> rows
  failed,    \* an exception ended the round
  required,  \* what was required in this round
  requiredChild \* what was required of the root's child in this round, or Nothing

vars == <<criteria, input, output, transient, pool, attached, wanted, count, defined, db,
          failed, required, requiredChild>>

Nothing    == <<"nothing">>
Aggregates == {n \in Node : Kind[n] = "aggregate"}
References == {n \in Node : Kind[n] = "reference"}
IdNode(a)  == Child[a][IdAttr[a]]

\* The providers as one record, which the calls below pass on.
Now == [criteria |-> criteria, input |-> input, output |-> output, transient |-> transient,
        pool |-> pool, attached |-> attached, wanted |-> wanted, count |-> count,
        defined |-> defined, db |-> db, failed |-> failed]

-----------------------------------------------------------------------------
(***************************************************************************)
(* require().                                                               *)
(***************************************************************************)
RECURSIVE IsTransient(_, _), StateOf(_, _), RequireOn(_, _, _), AsQuery(_)

IsTransient(S, n) ==
  IF Kind[n] \in {"value", "reference"} THEN S.transient[n]
  ELSE \E f \in DOMAIN Child[n] : IsTransient(S, Child[n][f])

\* state(): a composite one is made of the nested providers that are complete.
StateOf(S, n) ==
  IF Kind[n] \in {"value", "reference"} THEN S.input[n]
  ELSE Dict([f \in {f \in DOMAIN Child[n] : S.output[Child[n][f]] # Nothing} |-> StateOf(S, Child[n][f])])

\* A dict of values as a query, which is also what {'$eq': dict} comes to.
AsQuery(v) == IF v[1] = "dict" THEN <<"fields", All(v[2], AsQuery)>> ELSE <<"ops", <<<<"$eq", v>>>>>>

\* Bug: a value that is already there is not held against the new criteria.
ReviewNothing(S, n, new) ==
  IF S.output[n] # Nothing /\ IsTransient(S, n)
  THEN [S EXCEPT !.input[n] = Nothing, !.output[n] = Nothing]
  ELSE S

\* Output that is there already: forgotten when transient, otherwise it must satisfy what
\* is new (DiamondUpdateConflict).
Review(S, n, new) ==
  CASE S.output[n] = Nothing -> S
    [] S.output[n] # Nothing /\ IsTransient(S, n) ->
         [S EXCEPT !.input[n] = Nothing, !.output[n] = Nothing]
    [] OTHER -> IF EvaluateSync(new, StateOf(S, n)) = "true" THEN S ELSE [S EXCEPT !.failed = TRUE]

\* _distribute_criteria(), in the order of the attributes.
Distribute(S, n, new) ==
  LET asked == IF new[1] = "composite" THEN SelectSeq(Attrs[n], LAMBDA f : f \in DOMAIN new[2]) ELSE <<>>
      to[i \in 0..Len(asked)] ==
        IF i = 0 THEN S
        ELSE RequireOn(to[i - 1], Child[n][asked[i]], QueryToDict(new[2][asked[i]]))
  IN to[Len(asked)]

\* The aggregate is reached through its accessor, which attaches the observer once.
Attach(S, r) == [S EXCEPT !.attached[r] = IF @ = "never" THEN "yes" ELSE @]

\* _propagate_to_aggregate().
Propagate(S, r, new) ==
  RequireOn(Attach(S, r), IF new[1] = "rel" THEN Target[r] ELSE IdNode(Target[r]),
            QueryToDict(IF new[1] = "rel" THEN new[2] ELSE new))

\* A reference forgets what it refers to, whatever that was.
RequireReference(S, r, new) ==
  Propagate([S EXCEPT !.input[r] = Nothing, !.output[r] = Nothing], r, new)

RequireComposite(S, n, new) == Distribute(Review(S, n, new), n, new)

RequireMerged(S, n, new, merged) ==
  CASE merged = Conflict -> [S EXCEPT !.failed = TRUE]
    [] merged = S.criteria[n] -> S
    [] OTHER ->
         LET T == [S EXCEPT !.criteria[n] = merged]
         IN CASE Kind[n] = "reference" -> RequireReference(T, n, new)
              [] Kind[n] = "value"     -> Review(T, n, new)
              [] OTHER                 -> RequireComposite(T, n, new)

\* No reference at all is not among the criteria.
RequireQuery(S, n, new) ==
  IF Kind[n] = "reference" /\ new = <<"eq", Null>>
  THEN [S EXCEPT !.input[n] = Null, !.output[n] = Null]
  ELSE RequireMerged(S, n, new, IF S.criteria[n] = Nothing THEN new ELSE Merge(S.criteria[n], new))

RequireOn(S, n, q) == IF S.failed THEN S ELSE RequireQuery(S, n, ParseQuery(q))

-----------------------------------------------------------------------------
(***************************************************************************)
(* populate(): from a state of the providers to the possible next ones; one  *)
(* that has failed goes no further.                                         *)
(***************************************************************************)
RECURSIVE Populate(_, _), PopulateAll(_, _)

\* One provider after the other.
PopulateAll(Ss, nodes) ==
  IF nodes = <<>> THEN Ss
  ELSE PopulateAll(UNION {Populate(S, Head(nodes)) : S \in Ss}, Tail(nodes))

NestedIn(n) == [i \in DOMAIN Attrs[n] |-> Child[n][Attrs[n][i]]]

Pooled(S, r, k) == [S EXCEPT !.pool[r] = @ \cup {k}]

\* _set_input() and _set_output() of a leaf; observers of an id put it into their pools.
Give(S, n, v, isTransient, distributed) ==
  [S EXCEPT
     !.input[n] = v, !.output[n] = v, !.transient[n] = isTransient,
     !.pool = [r \in References |->
                 IF /\ S.attached[r] = "yes" /\ IdNode(Target[r]) = n
                    /\ ~isTransient /\ ~distributed /\ v # Null
                 THEN @[r] \cup {v} ELSE @[r]]]

PopulateValue(S, n) ==
  LET c == S.criteria[n]
      required_ == CASE c[1] = "eq" -> {c[2]}
                     [] c = <<"is_null", TRUE>> -> {Null}
                     [] OTHER -> {S.input[n]} \ {Nothing}
  IN CASE required_ # {} -> {Give(S, n, v, S.transient[n] /\ v = Null, FALSE) : v \in required_}
       [] required_ = {} /\ Generated[n] = {} -> {Give(S, n, Null, TRUE, FALSE)}
       [] OTHER -> {Give(S, n, v, S.transient[n] /\ v = Null, FALSE) : v \in Generated[n]}

\* _default_factory().
Made(S, n) == Dict([f \in DOMAIN Child[n] |-> S.output[Child[n][f]]])

Complete(S, n, v) == IF S.failed THEN S ELSE [S EXCEPT !.output[n] = v]

PopulateComposite(S, n) == {Complete(T, n, Made(T, n)) : T \in PopulateAll({S}, NestedIn(n))}

\* The row of the id is there: it is taken for the input.
LoadAggregate(S, a, row) ==
  {Complete(T, a, row) :
     T \in PopulateAll({Distribute(S, a, NormalizeQuery(Parse(AsQuery(row))))}, NestedIn(a))}

\* Repositories: the row of an id, and what an insert leaves.
Known(S, a, k) == k \in DOMAIN S.db[a]

WithRow(S, a, k, made) ==
  [S EXCEPT !.db[a] = [j \in DOMAIN @ \cup {k} |->
     IF j = k THEN Dict([made[2] EXCEPT ![IdAttr[a]] = k]) ELSE @[j]]]

\* The id that was made, or one that the database gives.
FreeIds(S, a, made) ==
  (IF made[2][IdAttr[a]] # Null THEN {made[2][IdAttr[a]]} ELSE {Num(k) : k \in 1..MaxRows[a]})
    \ DOMAIN S.db[a]

\* DependentProvider.populate(): no child or one, as its distributor says when nothing is
\* required; the child may be one of an earlier round.  An id that is falsy in Python is
\* not handed down.
BoundTo(S, c, id) ==
  IF id \in {Null, Num(0)} THEN S ELSE RequireOn(S, Child[c][ParentField[c]], AsQuery(id))

Asked(S, a) == IF S.wanted[a] = Nothing THEN S ELSE RequireOn(S, Dependent[a], S.wanted[a])

Defined(S, a) == IF S.failed THEN S ELSE [S EXCEPT !.defined[a] = TRUE]

PopulateChildren(S, a) ==
  IF S.count[a] = {0} THEN {S}
  ELSE Populate(BoundTo(Asked(S, a), Dependent[a], S.input[IdNode(a)]), Dependent[a])

PopulateDependent(S, a) ==
  IF Dependent[a] = NoNode \/ S.defined[a] THEN {S}
  ELSE {Defined(T, a) : T \in UNION {PopulateChildren([S EXCEPT !.count[a] = {c}], a) : c \in S.count[a]}}

\* The database numbers a row without an id, which is then required of the id's provider;
\* the children come last.
InsertRow(S, a, made) ==
  UNION {UNION {IF T.failed THEN {T} ELSE PopulateDependent(Complete(T, a, T.db[a][k]), a) :
                  T \in Populate(RequireOn(WithRow(S, a, k, made), IdNode(a), AsQuery(k)), IdNode(a))} :
           k \in FreeIds(S, a, made)}

\* Bug: the row goes in, and the provider never learns of it.
CreateUnnoticed(S, a) ==
  UNION {IF T.failed THEN {T} ELSE {WithRow(T, a, k, Made(T, a)) : k \in FreeIds(T, a, Made(T, a))} :
           T \in PopulateAll({S}, NestedIn(a))}

CreateAggregate(S, a) ==
  UNION {IF T.failed THEN {T} ELSE InsertRow(T, a, Made(T, a)) : T \in PopulateAll({S}, NestedIn(a))}

LoadOrCreate(S, a, k) ==
  CASE S.failed -> {S}
    [] ~S.failed /\ ~IsTransient(S, IdNode(a)) /\ Known(S, a, k) -> LoadAggregate(S, a, S.db[a][k])
    [] OTHER -> CreateAggregate(S, a)

PopulateAggregate(S, a) ==
  UNION {LoadOrCreate(T, a, T.output[IdNode(a)]) : T \in Populate(S, IdNode(a))}

\* The specification of a reference's criteria looks up the rows as they are now.
IsSatisfiedBy(S, r, k) ==
  S.criteria[r] = Nothing \/ Evaluate(S.db, Target[r], S.criteria[r], k) = "true"

\* What a distributor may choose: its index of the specification is brought up to date,
\* and a stale choice is not given out.
Candidates(S, r) == {k \in S.pool[r] : IsSatisfiedBy(S, r, k)}

Refer(S, r, k) == IF S.failed THEN S ELSE [S EXCEPT !.input[r] = k, !.output[r] = k]

ReferNew(S, r, k) == IF S.failed THEN S ELSE Pooled(Refer(S, r, k), r, k)

\* Bug: a chosen id is required, and its aggregate not populated.
PopulateReferenceOnly(S, r) ==
  {Refer(RequireOn(Attach(S, r), IdNode(Target[r]), AsQuery(k)), r, k) : k \in Candidates(S, r)}
  \cup {ReferNew(T, r, T.output[IdNode(Target[r])]) : T \in Populate(Attach(S, r), Target[r])}

\* The distributor picks a known id that satisfies the criteria, or none whatever they are,
\* or asks for a new one.
PopulateReference(S, r) ==
  UNION {{Refer(T, r, k) :
            T \in Populate(RequireOn(Attach(S, r), IdNode(Target[r]), AsQuery(k)), Target[r])} :
           k \in Candidates(S, r)}
  \cup (IF r \in Nullable THEN {Refer(S, r, Null)} ELSE {})
  \cup {ReferNew(T, r, T.output[IdNode(Target[r])]) : T \in Populate(Attach(S, r), Target[r])}

Populate(S, n) ==
  IF S.failed \/ S.output[n] # Nothing THEN {S}
  ELSE CASE Kind[n] = "value"     -> PopulateValue(S, n)
         [] Kind[n] = "composite" -> PopulateComposite(S, n)
         [] Kind[n] = "reference" -> PopulateReference(S, n)
         [] Kind[n] = "aggregate" -> PopulateAggregate(S, n)

-----------------------------------------------------------------------------
(***************************************************************************)
(* ProviderChangeManager.populate(): the aggregates in an order in which each *)
(* comes after those it refers to.                                           *)
(***************************************************************************)
RECURSIVE Reach(_)
Reach(n) ==
  {n} \cup (IF Kind[n] = "reference" THEN Reach(Target[n]) ELSE {})
      \cup UNION {Reach(Child[n][f]) : f \in DOMAIN Child[n]}

\* Edges <<dependency, dependent>>; a nested composite belongs to its aggregate.
RECURSIVE RefersFrom(_)
RefersFrom(n) ==
  CASE Kind[n] = "reference" -> {Target[n]}
    [] Kind[n] # "reference" -> UNION {RefersFrom(Child[n][f]) : f \in DOMAIN Child[n]}

Sorted(seq) ==
  \A i, j \in DOMAIN seq : seq[i] \in RefersFrom(seq[j]) => i < j

Orders ==
  LET as == Reach(Root) \cap Aggregates
  IN {seq \in [1..Cardinality(as) -> as] : Elements(seq) = as /\ Sorted(seq)}

\* Collecting the aggregates goes through the accessor of each reference.
AllAttached(S) == [S EXCEPT !.attached = [r \in References |-> IF r \in Reach(Root) THEN Attach(S, r).attached[r] ELSE @[r]]]

PopulateInOrder(seq) == PopulateAll({AllAttached(Now)}, seq)

-----------------------------------------------------------------------------
Blank(f) == [n \in Node |-> f]

Init ==
  /\ criteria = Blank(Nothing) /\ input = Blank(Nothing) /\ output = Blank(Nothing)
  /\ transient = Blank(FALSE)
  /\ pool = [r \in References |-> {}]
  /\ attached = [r \in References |-> "never"]
  /\ wanted = Blank(Nothing) /\ count = Blank({0, 1}) /\ defined = Blank(FALSE)
  /\ db = [a \in Aggregates |-> <<>>]
  /\ failed = FALSE
  /\ required = {} /\ requiredChild = Nothing

Become(S) ==
  /\ criteria' = S.criteria /\ input' = S.input /\ output' = S.output /\ transient' = S.transient
  /\ pool' = S.pool /\ attached' = S.attached /\ failed' = S.failed
  /\ wanted' = S.wanted /\ count' = S.count /\ defined' = S.defined

Require(q) ==
  /\ ~failed /\ Cardinality(required) < MaxAsks /\ q \notin required /\ Parses(q)
  /\ Become(RequireOn(Now, Root, q))
  /\ required' = required \cup {q}
  /\ UNCHANGED <<db, requiredChild>>

\* Bug: children that are there already count as what is required now.
RequireChildLate(q) ==
  /\ ~failed /\ Dependent[Root] # NoNode /\ output[Root] = Nothing
  /\ requiredChild' = q
  /\ wanted' = [wanted EXCEPT ![Root] = q] /\ count' = [count EXCEPT ![Root] = {1}]
  /\ UNCHANGED <<criteria, input, output, transient, pool, attached, defined, db, failed, required>>

\* DependentProvider.require() of one child in direct mode: what was required before,
\* be it in an earlier round, changes nothing.
RequireChild(q) ==
  /\ ~failed /\ Dependent[Root] # NoNode /\ output[Root] = Nothing
  /\ requiredChild' = q
  /\ wanted' = [wanted EXCEPT ![Root] = q]
  /\ IF wanted[Root] = q THEN UNCHANGED <<count, defined>>
     ELSE count' = [count EXCEPT ![Root] = {1}] /\ defined' = [defined EXCEPT ![Root] = FALSE]
  /\ UNCHANGED <<criteria, input, output, transient, pool, attached, db, failed, required>>

\* An exception rolls the rows of the session back; what is in memory stays.
Return(S) ==
  /\ Become(S)
  /\ db' = IF S.failed THEN db ELSE S.db
  /\ UNCHANGED <<required, requiredChild>>

PopulateRoot == ~failed /\ output[Root] = Nothing /\ \E S \in Populate(Now, Root) : Return(S)

PopulateNetwork ==
  /\ ~failed /\ output[Root] = Nothing
  /\ \E seq \in Orders : \E S \in PopulateInOrder(seq) : Return(S)

\* reset() makes new signals, while an accessor believes that it observes the old one; a
\* lazy accessor forgets the provider.
Detached(r) == IF r \in Lazy \/ attached[r] = "never" THEN "never" ELSE "lost"

\* _do_reset() walks the nested providers, of which a DependentProvider is none: it keeps
\* what it wants and the child it made.
Children == UNION {IF Dependent[a] = NoNode THEN {} ELSE Reach(Dependent[a]) : a \in Aggregates}

Cleared(f, blank) == [n \in Node |-> IF n \in Children THEN f[n] ELSE blank]

Reset ==
  /\ criteria' = Cleared(criteria, Nothing) /\ input' = Cleared(input, Nothing)
  /\ output' = Cleared(output, Nothing) /\ transient' = Cleared(transient, FALSE)
  /\ attached' = [r \in References |-> IF r \in Children THEN attached[r] ELSE Detached(r)]
  /\ failed' = FALSE /\ required' = {} /\ requiredChild' = Nothing
  /\ UNCHANGED <<pool, db, wanted, count, defined>>

Next ==
  \/ PopulateRoot \/ PopulateNetwork \/ Reset
  \/ \E q \in Queries : Require(q)
  \/ \E q \in ChildQueries : RequireChild(q)

Spec == Init /\ [][Next]_vars

-----------------------------------------------------------------------------
ChildRows(c, parent) == {k \in DOMAIN db[c] : Field(db[c][k], ParentField[c]) = parent}

\* The aggregate of this round has the child that was required of it.
HasItsChild ==
  LET c == Dependent[Root] IN
  \E k \in ChildRows(c, output[IdNode(Root)]) :
     Evaluate(db, c, ParseQuery(requiredChild), db[c][k]) = "true"

RootIsAsRequired == \A q \in required : Evaluate(db, Root, ParseQuery(q), output[Root]) = "true"

\* Only the first round that makes a child is sure to make one that is required.
FirstChildIsAsRequired ==
  LET c == Dependent[Root] IN
  requiredChild # Nothing => HasItsChild \/ DOMAIN db[c] \ ChildRows(c, output[IdNode(Root)]) # {}

\* What was required in a round that did not fail holds of the aggregate that came out of it:
\* through references, merged diamonds, loaded and created rows
\* (BaseCompositeProvider.require() and AggregateProvider.populate()).  A child required of
\* it is there (DependentProvider), until a round before has made one: whatever
\* failed rounds, rounds without a child and requirements that were given up have left in
\* the dependent provider and its clone.
Satisfied == ~failed /\ output[Root] # Nothing => RootIsAsRequired /\ FirstChildIsAsRequired

\* "For one parent, creates N children" (DependentProvider): a round that required a child
\* ends with a child of its own parent that is what was required, or it fails.
ParentHasItsChild ==
  ~failed /\ output[Root] # Nothing /\ requiredChild # Nothing => HasItsChild

\* A reference refers to a row, and a child depends on one (AggregateProvider creates what
\* it refers to before itself and its children after).
ReferencesExist ==
  /\ \A r \in References : \A a \in Aggregates : \A f \in DOMAIN Child[a] : Child[a][f] = r =>
       \A k \in DOMAIN db[a] :
         \/ Field(db[a][k], f) \in DOMAIN db[Target[r]]
         \/ r \in Nullable /\ Field(db[a][k], f) = Null
  /\ \A a \in Aggregates : Dependent[a] # NoNode =>
       \A k \in DOMAIN db[Dependent[a]] :
         Field(db[Dependent[a]][k], ParentField[Dependent[a]]) \in DOMAIN db[a]

\* However many references lead to an aggregate, a round creates it once (the diamond
\* problem that populate() and ProviderChangeManager speak of).
CreatedOnce ==
  [][\A a \in DOMAIN db : Cardinality(DOMAIN db'[a]) <= Cardinality(DOMAIN db[a]) + 1]_vars

\* Criteria are passed on as dicts and parsed again (_distribute_criteria() and
\* _propagate_to_aggregate()): nothing of them is lost on the way.
RoundTrips ==
  \A n \in Node : criteria[n] \notin {Nothing, Conflict} =>
    ParseQuery(QueryToDict(criteria[n])) = criteria[n]

\* A row is found by a query in PostgreSQL (InternalPgRepository.find()) when and only when
\* it satisfies the query in memory (InMemoryRepository.find()), and the evaluation that
\* keeps the context of a list and the one that does not agree.  Rows change between
\* rounds only as far as this sees, so it looks at the blank network.
SqlAgrees ==
  (\A n \in Node \ Children : output[n] = Nothing) /\ required = {} /\ requiredChild = Nothing =>
    \A p \in Probes :
      LET op == ParseQuery(p[2]) IN
        /\ Find(db, p[1], op) = FindInMemory(db, p[1], op)
        /\ \A k \in DOMAIN db[p[1]] :
             LET v == db[p[1]][k] IN EvaluateVisitor(db, p[1], op, v) = Evaluate(db, p[1], op, v)
=============================================================================
