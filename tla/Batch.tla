-------------------------------- MODULE Batch -------------------------------
(***************************************************************************)
(* The query collector (batch/query_collector.py, multi_query.py) and the   *)
(* deferreds it answers with (deferred/deferred.py).                        *)
(*                                                                         *)
(* Coroutines collect queries, also while an evaluation awaits the database, *)
(* and hang callbacks on their deferreds, which may collect further queries. *)
(* What a call has still to do is on the stack calls, the next step first:   *)
(* a callback runs inside the resolve() or reject() that called it, and no    *)
(* coroutine gets in between.  The parameters of an insert are taken for the *)
(* deferred that execute() returned, so a row names the deferred it belongs  *)
(* to; the value of NoRow is the result without one.                        *)
(***************************************************************************)
EXTENDS Integers, Sequences, SequencesExt

CONSTANTS
  Queries,       \* query text -> "autoincrement", "insert" or "other"
  Callbacks,     \* what a client's callback does: "return", "raise", or a query it collects
  MaxDeferreds,  \* how many deferreds there are (a bound of the model)
  MaxAwaited     \* how many of them an all() awaits (a bound of the model)

ASSUME BatchAssumption ==
  /\ MaxDeferreds \in Nat /\ MaxAwaited \in Nat
  /\ Callbacks \subseteq {"return", "raise"} \cup DOMAIN Queries
  /\ \A text \in DOMAIN Queries :
       text \notin {"return", "raise", "rows", "all", ""} /\ Queries[text] \in {"autoincrement", "insert", "other"}

VARIABLES
  made,       \* how many deferreds there are
  query,      \* deferred -> the query it answers, or NoQuery
  state,      \* deferred -> "pending", "resolved" or "rejected"
  value,      \* deferred -> what it was resolved with
  handlers,   \* deferred -> the callbacks hung on it, each with the deferred of its then()
  raised,     \* deferred -> whether a callback hung on it raised
  group,      \* deferred -> what the closure of its all() keeps, or NoGroup
  calls,      \* what the running call has still to do
  queue,      \* the collector's _multi_query_map
  current,    \* the multi-queries evaluate() took out of the map and has not run
  evaluation, \* "idle", "evaluating" while evaluate() awaits the database for the first of
              \* current, or "resolving" the results of a multi-query
  failed,     \* whether an error occurred among these
  inserted,   \* the rows the database has inserted: the deferreds they belong to
  lost        \* the deferreds of multi-queries that a clear() or an exception left out

deferredVars  == <<made, query, state, value, handlers, raised, group>>
collectorVars == <<queue, current, evaluation, failed, inserted, lost>>
batchVars     == <<deferredVars, calls, collectorVars>>

Deferreds == 1..MaxDeferreds

\* The values of deferreds, each with its type.
NoRow      == <<"none">>
Error      == <<"error">>
Row(d)     == <<"row", d>>
ListOf(vs) == <<"list", vs>>
NoQuery    == ""
NoGroup    == [of |-> <<>>, values |-> <<>>, count |-> 0, rejected |-> FALSE]

\* The calls: resolve() or reject(), of a handler's callback, the next then() of all(), and
\* the occurred_err() of a result.
SettleCall(d, how, v) == [do |-> "settle", of |-> d, at |-> 0, how |-> how, value |-> v]
HandlerCall(d, i)     == [do |-> "handler", of |-> d, at |-> i, how |-> "", value |-> NoRow]
AwaitCall(r, i)       == [do |-> "await", of |-> r, at |-> i, how |-> "", value |-> NoRow]
CountCall(d)          == [do |-> "count", of |-> d, at |-> 0, how |-> "", value |-> NoRow]

\* The callbacks: a client's, the one of fetchmany() and those of all().
ClientCallback(does) == [does |-> does, of |-> 0, index |-> 0]
RowsCallback(r)      == [does |-> "rows", of |-> r, index |-> 0]
AllCallback(r, i)    == [does |-> "all", of |-> r, index |-> i]

ResolveCall(d, v) == SettleCall(d, "resolved", v)
RejectCall(d)     == SettleCall(d, "rejected", Error)

Quiet == calls = <<>> /\ evaluation # "resolving"
Room(n) == made + n <= MaxDeferreds

-----------------------------------------------------------------------------
(* resolve(), reject() and then().                                            *)

Top  == Head(calls)
Rest == Tail(calls)
Calling(do) == calls # <<>> /\ Top.do = do

SettleNext ==
  /\ Calling("settle")
  /\ state' = [state EXCEPT ![Top.of] = Top.how]
  /\ value' = [value EXCEPT ![Top.of] = Top.value]
  /\ calls' = [i \in DOMAIN handlers[Top.of] |-> HandlerCall(Top.of, i)] \o Rest
  /\ UNCHANGED <<made, query, handlers, raised, group, collectorVars>>

\* then(): next is the deferred that it returns.
Hang(d, cb, next) ==
  /\ handlers' = [handlers EXCEPT ![d] = Append(@, [cb |-> cb, next |-> next])]
  /\ calls' = (IF state[d] = "pending" THEN <<>> ELSE <<HandlerCall(d, Len(handlers[d]) + 1)>>)
              \o (IF calls = <<>> THEN <<>> ELSE Rest)

\* MultiQueryBase.execute() of the multi-query of this text, made on first use.
AddToMap(text, d) ==
  queue' = IF \E i \in DOMAIN queue : queue[i].query = text
           THEN [i \in DOMAIN queue |->
                   IF queue[i].query = text THEN [query |-> text, results |-> Append(queue[i].results, d)]
                   ELSE queue[i]]
           ELSE Append(queue, [query |-> text, results |-> <<d>>])

\* _collect_query(): what cannot be batched is answered at once, with nothing.
CollectQuery(text) ==
  LET d == made + 1 IN
  /\ Room(1)
  /\ made' = d /\ query' = [query EXCEPT ![d] = text]
  /\ IF Queries[text] = "other" THEN state' = [state EXCEPT ![d] = "resolved"] /\ UNCHANGED queue
     ELSE AddToMap(text, d) /\ UNCHANGED state

\* _resolve_handler() and _reject_handler(): the callback, and then its next deferred gets
\* what came of it.
Handler   == handlers[Top.of][Top.at]
Succeeds  == state[Top.of] = "resolved"

\* A client's callback takes an error for handled.
Returns ==
  /\ Calling("handler")
  /\ Handler.cb.does = "return" \/ (~Succeeds /\ Handler.cb.does \in Callbacks)
  /\ calls' = <<ResolveCall(Handler.next, IF Succeeds THEN value[Top.of] ELSE NoRow)>> \o Rest
  /\ UNCHANGED <<deferredVars, collectorVars>>

Raises ==
  /\ Calling("handler") /\ Succeeds /\ Handler.cb.does = "raise"
  /\ raised' = [raised EXCEPT ![Top.of] = TRUE]
  /\ calls' = <<RejectCall(Handler.next)>> \o Rest
  /\ UNCHANGED <<made, query, state, value, handlers, group, collectorVars>>

Collects ==
  /\ Calling("handler") /\ Succeeds /\ Handler.cb.does \in DOMAIN Queries
  /\ CollectQuery(Handler.cb.does)
  /\ calls' = <<ResolveCall(Handler.next, NoRow)>> \o Rest
  /\ UNCHANGED <<value, handlers, raised, group, current, evaluation, failed, inserted, lost>>

\* fetchmany(): a deferred of its own, which an error never reaches.
ResolvesRows ==
  /\ Calling("handler") /\ Handler.cb.does = "rows"
  /\ calls' = (IF Succeeds
               THEN <<ResolveCall(Handler.cb.of,
                        ListOf(IF value[Top.of] = NoRow THEN <<>> ELSE <<value[Top.of]>>))>>
               ELSE <<>>) \o <<ResolveCall(Handler.next, NoRow)>> \o Rest
  /\ UNCHANGED <<deferredVars, collectorVars>>

\* The callbacks of all(): the last value resolves, unless an error rejected before.
Gathered(g, i, v) == [g EXCEPT !.values[i] = v, !.count = @ + 1]

ResolveIfAll(r, g) ==
  IF g.count = Len(g.of) THEN <<ResolveCall(r, ListOf(g.values))>> ELSE <<>>

Gathers ==
  /\ Calling("handler") /\ Succeeds /\ Handler.cb.does = "all"
  /\ LET r == Handler.cb.of
         g == IF group[r].rejected THEN group[r] ELSE Gathered(group[r], Handler.cb.index, value[Top.of])
     IN  /\ group' = [group EXCEPT ![r] = g]
         /\ calls' = (IF g.rejected THEN <<>> ELSE ResolveIfAll(r, g))
                     \o <<ResolveCall(Handler.next, NoRow)>> \o Rest
  /\ UNCHANGED <<made, query, state, value, handlers, raised, collectorVars>>

GathersError ==
  /\ Calling("handler") /\ ~Succeeds /\ Handler.cb.does = "all"
  /\ group' = [group EXCEPT ![Handler.cb.of].rejected = TRUE]
  /\ calls' = (IF group[Handler.cb.of].rejected THEN <<>> ELSE <<RejectCall(Handler.cb.of)>>)
              \o <<ResolveCall(Handler.next, NoRow)>> \o Rest
  /\ UNCHANGED <<made, query, state, value, handlers, raised, collectorVars>>

RunHandler == Returns \/ Raises \/ Collects \/ ResolvesRows \/ Gathers \/ GathersError

\* The loop of all().
AwaitNext ==
  /\ Calling("await") /\ Room(1)
  /\ made' = made + 1
  /\ Hang(group[Top.of].of[Top.at], AllCallback(Top.of, Top.at), made + 1)
  /\ UNCHANGED <<query, state, value, raised, group, collectorVars>>

OccurredErr ==
  LET occurred[d \in Deferreds] ==
        raised[d] \/ \E i \in DOMAIN handlers[d] : occurred[handlers[d][i].next]
  IN  occurred

CountErrors ==
  /\ Calling("count")
  /\ failed' = (failed \/ OccurredErr[Top.of])
  /\ calls' = Rest
  /\ UNCHANGED <<deferredVars, queue, current, evaluation, inserted, lost>>

-----------------------------------------------------------------------------
(* The coroutines that use the collector.                                     *)

IsQuery(d) == query[d] # NoQuery

Execute(text) ==
  /\ Quiet /\ CollectQuery(text)
  /\ UNCHANGED <<value, handlers, raised, group, calls, current, evaluation, failed, inserted, lost>>

\* A client hangs one callback on a deferred: one that inserts makes one more
\* deferred when it runs.
OnResult(d, does) ==
  /\ Quiet /\ handlers[d] = <<>> /\ Room(2)
  /\ made' = made + 1
  /\ Hang(d, ClientCallback(does), made + 1)
  /\ UNCHANGED <<query, state, value, raised, group, collectorVars>>

FetchAll(d) ==
  /\ Quiet /\ IsQuery(d) /\ handlers[d] = <<>> /\ Room(2)
  /\ made' = made + 2
  /\ Hang(d, RowsCallback(made + 1), made + 2)
  /\ UNCHANGED <<query, state, value, raised, group, collectorVars>>

\* all(): one deferred for the list of the values; of none at once.
WaitForAll(ds) ==
  LET r == made + 1 IN
  /\ Quiet /\ Room(1 + Len(ds))
  /\ made' = r
  /\ group' = [group EXCEPT ![r] = [of |-> ds, values |-> [i \in DOMAIN ds |-> NoRow],
                                    count |-> 0, rejected |-> FALSE]]
  /\ calls' = IF ds = <<>> THEN <<ResolveCall(r, ListOf(<<>>))>> ELSE [i \in DOMAIN ds |-> AwaitCall(r, i)]
  /\ UNCHANGED <<query, state, value, handlers, raised, collectorVars>>

\* What is in the map is forgotten, its deferreds with it.
ResultsOf(queries) == UNION {ToSet(queries[i].results) : i \in DOMAIN queries}

Clear ==
  /\ Quiet /\ queue # <<>>
  /\ queue' = <<>>
  /\ lost' = lost \cup ResultsOf(queue)
  /\ UNCHANGED <<deferredVars, calls, current, evaluation, failed, inserted>>

-----------------------------------------------------------------------------
(* evaluate(): the map is taken out and a new one put in its place, again and    *)
(* again while the callbacks fill it.                                         *)

StartEvaluation ==
  /\ Quiet /\ evaluation = "idle" /\ queue # <<>>
  /\ evaluation' = "evaluating" /\ current' = queue /\ queue' = <<>>
  /\ UNCHANGED <<deferredVars, calls, failed, inserted, lost>>

\* The deferreds of a multi-query in their order, with their rows or with None.
ResolveAll(multi) ==
  [k \in 1..(2 * Len(multi.results)) |->
     LET d == multi.results[(k + 1) \div 2] IN
     IF k % 2 = 0 THEN CountCall(d)
     ELSE ResolveCall(d, IF Queries[multi.query] = "autoincrement" THEN Row(d) ELSE NoRow)]

\* The database answers: the rows of the whole multi-query are inserted.
DatabaseAnswers ==
  /\ Quiet /\ evaluation = "evaluating"
  /\ evaluation' = "resolving" /\ failed' = FALSE
  /\ inserted' = inserted \o Head(current).results
  /\ current' = Tail(current)
  /\ calls' = ResolveAll(Head(current))
  /\ UNCHANGED <<deferredVars, queue, lost>>

\* The exception of the database, or of a callback when all are resolved.
EndWithError ==
  /\ evaluation' = "idle" /\ current' = <<>>
  /\ lost' = lost \cup ResultsOf(current)
  /\ UNCHANGED <<deferredVars, calls, queue, failed, inserted>>

DatabaseFails == Quiet /\ evaluation = "evaluating" /\ EndWithError

\* Bug: the map is emptied after the round, with what the callbacks have added.
SwapMapAfter ==
  /\ queue' = IF current # <<>> THEN queue ELSE <<>>
  /\ current' = current
  /\ evaluation' = IF current # <<>> THEN "evaluating" ELSE "idle"

\* The next multi-query, or the next map, or the end.
SwapMap ==
  LET round == IF current # <<>> THEN current ELSE queue IN
  /\ queue' = IF current # <<>> THEN queue ELSE <<>>
  /\ current' = round
  /\ evaluation' = IF round # <<>> THEN "evaluating" ELSE "idle"

AllResolved == calls = <<>> /\ evaluation = "resolving"

EndQuery ==
  /\ AllResolved /\ ~failed
  /\ SwapMap
  /\ UNCHANGED <<deferredVars, calls, failed, inserted, lost>>

RaiseErrors == AllResolved /\ failed /\ EndWithError

BatchInit ==
  /\ made = 0
  /\ query = [d \in Deferreds |-> NoQuery]
  /\ state = [d \in Deferreds |-> "pending"] /\ value = [d \in Deferreds |-> NoRow]
  /\ handlers = [d \in Deferreds |-> <<>>] /\ raised = [d \in Deferreds |-> FALSE]
  /\ group = [d \in Deferreds |-> NoGroup]
  /\ calls = <<>>
  /\ queue = <<>> /\ current = <<>> /\ evaluation = "idle" /\ failed = FALSE
  /\ inserted = <<>> /\ lost = {}

Client ==
  \/ \E text \in DOMAIN Queries : Execute(text)
  \/ \E d \in 1..made : (\E does \in Callbacks : OnResult(d, does)) \/ FetchAll(d)
  \/ \E n \in 0..MaxAwaited : \E ds \in [1..n -> 1..made] : WaitForAll(ds)
  \/ Clear

Evaluate == StartEvaluation \/ DatabaseAnswers \/ DatabaseFails \/ EndQuery \/ RaiseErrors

BatchNext == Client \/ SettleNext \/ RunHandler \/ AwaitNext \/ CountErrors \/ Evaluate

BatchSpec == BatchInit /\ [][BatchNext]_batchVars

-----------------------------------------------------------------------------
Handlers == [cb : [does : Callbacks \cup {"rows", "all"}, of : {0} \cup Deferreds, index : Nat],
             next : Deferreds]
MultiQueries == [query : DOMAIN Queries, results : Seq(Deferreds)]

IsGroup(g) ==
  /\ DOMAIN g = {"of", "values", "count", "rejected"}
  /\ g.of \in Seq(Deferreds) /\ g.values = [i \in DOMAIN g.of |-> g.values[i]]
  /\ g.count \in 0..Len(g.of) /\ g.rejected \in BOOLEAN

IsCall(c) ==
  /\ c.of \in 1..made
  /\ \/ c = SettleCall(c.of, c.how, c.value) /\ c.how \in {"resolved", "rejected"}
     \/ c = HandlerCall(c.of, c.at) /\ c.at \in DOMAIN handlers[c.of]
     \/ c = AwaitCall(c.of, c.at) /\ c.at \in DOMAIN group[c.of].of
     \/ c = CountCall(c.of)

(* What the variables hold: a call is for a deferred, a handler or an awaited one there is. *)
BatchTypeOK ==
  /\ made \in 0..MaxDeferreds
  /\ query \in [Deferreds -> DOMAIN Queries \cup {NoQuery}]
  /\ state \in [Deferreds -> {"pending", "resolved", "rejected"}]
  /\ DOMAIN value = Deferreds
  /\ handlers \in [Deferreds -> Seq(Handlers)]
  /\ raised \in [Deferreds -> BOOLEAN]
  /\ DOMAIN group = Deferreds /\ \A r \in Deferreds : IsGroup(group[r])
  /\ calls \in Seq(ToSet(calls)) /\ \A c \in ToSet(calls) : IsCall(c)
  /\ queue \in Seq(MultiQueries) /\ current \in Seq(MultiQueries)
  /\ evaluation \in {"idle", "evaluating", "resolving"} /\ failed \in BOOLEAN
  /\ inserted \in Seq(Deferreds) /\ lost \subseteq Deferreds

Waiting == ResultsOf(queue) \cup ResultsOf(current)

\* What the deferred of a query is resolved with, and what then() made of it is settled.
HasItsAnswer(d) ==
  LET kind == Queries[query[d]] IN
  /\ state[d] = "resolved"
  /\ value[d] = IF kind = "autoincrement" THEN Row(d) ELSE NoRow
  /\ Cardinality({i \in DOMAIN inserted : inserted[i] = d}) = IF kind = "other" THEN 0 ELSE 1
  /\ \A i \in DOMAIN handlers[d] : state[handlers[d][i].next] # "pending"

QueriesAnswered == \A d \in 1..made : IsQuery(d) => d \in Waiting \/ d \in lost \/ HasItsAnswer(d)

AllOfGroup(r) ==
  LET of == group[r].of IN
  /\ state[r] = "rejected" <=> \E i \in DOMAIN of : state[of[i]] = "rejected"
  /\ state[r] = "resolved" <=> \A i \in DOMAIN of : state[of[i]] = "resolved"
  /\ state[r] = "resolved" => value[r] = ListOf([i \in DOMAIN of |-> value[of[i]]])

(* A query collected at any time, by a coroutine or by a callback of a result, is   *)
(* waiting, or was forgotten with an error or a clear(), or has been executed once  *)
(* and its deferred has its own row; and all() resolves exactly when the last of    *)
(* its deferreds does, with their values in order, and rejects when one of them does. *)
AnsweredOnce ==
  calls = <<>> => QueriesAnswered /\ \A r \in 1..made : group[r].of # <<>> => AllOfGroup(r)
=============================================================================
