----------------------------- MODULE BatchProofs ----------------------------
(***************************************************************************)
(* Proofs about Batch, for any queries, callbacks and number of deferreds:   *)
(* its types and AnsweredOnce.                                               *)
(*                                                                         *)
(* AnsweredOnce speaks of the moments when no call is running.  IInv says    *)
(* what holds in between, while a resolve() is inside the callbacks it has   *)
(* called: which deferred the calls on the stack have still to settle.       *)
(* Nothing else may settle it, for a deferred settled twice would run its    *)
(* callbacks twice; so each is settled by one thing only: the query's by its *)
(* multi-query, that of then() or fetchmany() by its handler, that of all()  *)
(* by the last of its handlers or the first that brings an error.            *)
(***************************************************************************)
EXTENDS Batch, FiniteSetTheorems, SequenceTheorems, TLAPS

\* The calls still to be made, and what tells two of them apart.
Jobs == ToSet(calls)
Key(c) == <<c.do, c.of, c.at>>

\* A call is on its way that settles d.
Settling(d) == \E c \in Jobs : c.do = "settle" /\ c.of = d

\* The deferreds that a handler settles whatever comes of its callback.
Targets(h) == {h.next} \cup (IF h.cb.does = "rows" THEN {h.cb.of} ELSE {})

\* What the deferred of a query is to be resolved with.
Right(d) == IF Queries[query[d]] = "autoincrement" THEN Row(d) ELSE NoRow

\* A handler whose callback has still to run.
Unrun(p, i) == state[p] = "pending" \/ HandlerCall(p, i) \in Jobs

\* No call is on the stack twice.
Distinct(s) == \A k, l \in DOMAIN s : Key(s[k]) = Key(s[l]) => k = l
OneCall == Distinct(calls)

\* Nothing is known of the deferreds that are not made.
Fresh ==
  \A d \in Deferreds : d > made =>
    /\ query[d] = NoQuery /\ state[d] = "pending" /\ value[d] = NoRow
    /\ handlers[d] = <<>> /\ group[d].of = <<>>

\* A deferred that is neither a query's nor an all()'s.
Plain(t) == query[t] = NoQuery /\ group[t].of = <<>>

\* A handler settles deferreds of then() and fetchmany(), and a callback of all() hangs on
\* the deferred it awaits.
HandlerOf(p, i) ==
  LET h == handlers[p][i] IN
  /\ \A t \in Targets(h) : t \in 1..made /\ Plain(t)
  /\ h.cb.does = "rows" => h.cb.of # h.next
  /\ h.cb.does = "all" => /\ h.cb.of \in 1..made
                          /\ h.cb = AllCallback(h.cb.of, h.cb.index)
                          /\ h.cb.index \in DOMAIN group[h.cb.of].of
                          /\ group[h.cb.of].of[h.cb.index] = p

\* Two handlers do not settle the same deferred, and a callback of all() hangs once.
Clash(h, k) == Targets(h) \cap Targets(k) # {} \/ (h.cb.does = "all" /\ h.cb = k.cb)

HandlersApart ==
  \A p, q \in Deferreds : \A i \in DOMAIN handlers[p], j \in DOMAIN handlers[q] :
    Clash(handlers[p][i], handlers[q][j]) => p = q /\ i = j

Linked ==
  /\ \A p \in Deferreds : \A i \in DOMAIN handlers[p] : HandlerOf(p, i)
  /\ HandlersApart

\* Only a pending deferred is about to be settled, only of a settled one do handlers run, and
\* a handler settles its next deferred when it runs and not before.
SettledOnce ==
  /\ \A c \in Jobs : c.do = "settle" => state[c.of] = "pending"
  /\ \A c \in Jobs : c.do = "handler" => state[c.of] # "pending"
  /\ \A p \in Deferreds : \A i \in DOMAIN handlers[p] :
       IF Unrun(p, i) THEN \A t \in Targets(handlers[p][i]) : state[t] = "pending" /\ ~Settling(t)
       ELSE state[handlers[p][i].next] # "pending" \/ Settling(handlers[p][i].next)

Batched(d) == d \in 1..made /\ query[d] \in DOMAIN Queries /\ Queries[query[d]] # "other"

\* A deferred is in one multi-query and there once.
OnePlace(queries) ==
  \A i, k \in DOMAIN queries : \A j \in DOMAIN queries[i].results, l \in DOMAIN queries[k].results :
    queries[i].results[j] = queries[k].results[l] => i = k /\ j = l

\* The deferreds of a multi-query are those of its text, and wait.
OfTheirQuery(queries) ==
  \A i \in DOMAIN queries : \A j \in DOMAIN queries[i].results :
    LET d == queries[i].results[j] IN
      Batched(d) /\ query[d] = queries[i].query /\ state[d] = "pending" /\ ~Settling(d)

\* The map has one multi-query of each text.
OneEntry == \A i, k \in DOMAIN queue : queue[i].query = queue[k].query => i = k

\* A query is in the map, in what evaluate() took out of it, or executed, and there once.
Placed ==
  /\ OneEntry
  /\ OnePlace(queue) /\ OnePlace(current)
  /\ OfTheirQuery(queue) /\ OfTheirQuery(current)
  /\ \A i, j \in DOMAIN inserted : inserted[i] = inserted[j] => i = j
  /\ \A i \in DOMAIN inserted : Batched(inserted[i]) /\ inserted[i] \notin Waiting
  /\ ResultsOf(queue) \cap ResultsOf(current) = {}
  /\ evaluation = "evaluating" => current # <<>>
  /\ evaluation = "idle" => current = <<>>
  /\ evaluation # "resolving" => \A c \in Jobs : c.do # "count"

\* What cannot be batched is answered at once, the others with their execution.
Answered ==
  /\ \A d \in 1..made : IsQuery(d) =>
       /\ group[d].of = <<>>
       /\ Queries[query[d]] = "other" => state[d] = "resolved"
       /\ Queries[query[d]] # "other" =>
            \/ d \in Waiting
            \/ d \in lost
            \/ d \in ToSet(inserted) /\ (state[d] # "pending" \/ Settling(d))
       /\ state[d] # "pending" => state[d] = "resolved" /\ value[d] = Right(d)
  /\ \A c \in Jobs : c.do = "settle" /\ IsQuery(c.of) => c = ResolveCall(c.of, Right(c.of))

\* The i-th callback of the all() of r has run, and is hung.
Passed(r, i) ==
  LET p == group[r].of[i] IN
  \E j \in DOMAIN handlers[p] : handlers[p][j].cb = AllCallback(r, i) /\ ~Unrun(p, j)
AllPassed(r) == {i \in DOMAIN group[r].of : Passed(r, i)}
Hung(r, i) == \E j \in DOMAIN handlers[group[r].of[i]] : handlers[group[r].of[i]][j].cb = AllCallback(r, i)

\* The count, the values and the flag of all() are those of the callbacks that have run, and
\* its deferred is settled, or about to be, when they say so.
GroupOf(r) ==
  LET g == group[r] IN
  /\ \A i \in DOMAIN g.of : g.of[i] \in 1..made /\ (AwaitCall(r, i) \in Jobs <=> ~Hung(r, i))
  /\ g.rejected <=> (\E i \in AllPassed(r) : state[g.of[i]] = "rejected")
  /\ ~g.rejected => /\ g.count = Cardinality(AllPassed(r))
                    /\ \A i \in AllPassed(r) : g.values[i] = value[g.of[i]]
  /\ g.rejected => state[r] = "rejected" \/ RejectCall(r) \in Jobs
  /\ ~g.rejected /\ g.count = Len(g.of) =>
       \/ state[r] = "resolved" /\ value[r] = ListOf(g.values)
       \/ ResolveCall(r, ListOf(g.values)) \in Jobs
  /\ ~g.rejected /\ g.count # Len(g.of) => state[r] = "pending" /\ ~Settling(r)

Grouped == \A r \in 1..made : group[r].of # <<>> => GroupOf(r)

\* The inductive invariant.
IInv == /\ BatchTypeOK /\ OneCall /\ Fresh /\ Linked /\ SettledOnce /\ Placed /\ Answered /\ Grouped

\* As long as nothing is hung they stay so.
LEMMA ApartKept ==
  ASSUME HandlersApart, handlers' = handlers
  PROVE  HandlersApart'
BY DEF HandlersApart

-----------------------------------------------------------------------------
\* Sequences of calls.
LEMMA OfItsOwn ==
  ASSUME NEW S, NEW s \in Seq(S)
  PROVE  s \in Seq(ToSet(s)) /\ DOMAIN s = 1..Len(s) /\ Len(s) \in Nat
<1>1. DOMAIN s = 1..Len(s) /\ Len(s) \in Nat
  OBVIOUS
<1>2. \A k \in 1..Len(s) : s[k] \in ToSet(s)
  BY <1>1 DEF ToSet
<1>3. s = [k \in 1..Len(s) |-> s[k]]
  OBVIOUS
<1>4. QED
  BY <1>1, <1>2, <1>3

LEMMA Joined ==
  ASSUME NEW s, NEW t, s \in Seq(ToSet(s)), t \in Seq(ToSet(t))
  PROVE  /\ s \o t \in Seq(ToSet(s \o t))
         /\ ToSet(s \o t) = ToSet(s) \cup ToSet(t)
<1> DEFINE U == ToSet(s) \cup ToSet(t)
<1>1. s \in Seq(U) /\ t \in Seq(U)
  OBVIOUS
<1>2. /\ s \o t \in Seq(U) /\ Len(s \o t) = Len(s) + Len(t)
      /\ DOMAIN (s \o t) = 1..Len(s \o t) /\ Len(s) \in Nat /\ Len(t) \in Nat
  BY <1>1
<1>3. \A k \in 1..Len(s) : (s \o t)[k] = s[k]
  BY <1>1
<1>4. \A k \in 1..Len(t) : (s \o t)[Len(s) + k] = t[k]
  BY <1>1
<1>5. \A k \in (Len(s) + 1)..(Len(s) + Len(t)) : (s \o t)[k] = t[k - Len(s)]
  BY <1>1
<1>6. ToSet(s \o t) = U
  <2>1. ASSUME NEW x \in ToSet(s \o t) PROVE x \in U
    BY <1>2, <1>3, <1>5, <2>1 DEF ToSet
  <2>2. ASSUME NEW x \in ToSet(s) PROVE x \in ToSet(s \o t)
    <3>1. PICK k \in 1..Len(s) : x = s[k]
      BY DEF ToSet
    <3>2. k \in 1..Len(s \o t) /\ (s \o t)[k] = x
      BY <3>1, <1>1, <1>2, <1>3
    <3>3. QED
      BY <3>2, <1>2 DEF ToSet
  <2>3. ASSUME NEW x \in ToSet(t) PROVE x \in ToSet(s \o t)
    <3>1. PICK k \in 1..Len(t) : x = t[k]
      BY DEF ToSet
    <3>2. Len(s) + k \in 1..Len(s \o t) /\ (s \o t)[Len(s) + k] = x
      BY <3>1, <1>1, <1>2, <1>4
    <3>3. QED
      BY <3>2, <1>2 DEF ToSet
  <2>4. QED
    BY <2>1, <2>2, <2>3
<1>7. QED
  BY <1>2, <1>6

LEMMA DistinctJoined ==
  ASSUME NEW s, NEW t, s \in Seq(ToSet(s)), t \in Seq(ToSet(t)), Distinct(s), Distinct(t),
         \A a \in ToSet(s), b \in ToSet(t) : Key(a) # Key(b)
  PROVE  Distinct(s \o t)
<1> DEFINE U == ToSet(s) \cup ToSet(t)
<1>1. s \in Seq(U) /\ t \in Seq(U)
  OBVIOUS
<1>2. /\ s \o t \in Seq(U) /\ Len(s \o t) = Len(s) + Len(t)
      /\ DOMAIN (s \o t) = 1..Len(s \o t) /\ Len(s) \in Nat /\ Len(t) \in Nat
  BY <1>1
<1>3. \A k \in 1..Len(s) : (s \o t)[k] = s[k] /\ s[k] \in ToSet(s)
  BY <1>1 DEF ToSet
<1>4. \A k \in (Len(s) + 1)..(Len(s) + Len(t)) :
        (s \o t)[k] = t[k - Len(s)] /\ t[k - Len(s)] \in ToSet(t) /\ k - Len(s) \in DOMAIN t
  <2>1. SUFFICES ASSUME NEW k \in (Len(s) + 1)..(Len(s) + Len(t))
                 PROVE  (s \o t)[k] = t[k - Len(s)] /\ t[k - Len(s)] \in ToSet(t) /\ k - Len(s) \in DOMAIN t
    OBVIOUS
  <2>2. k - Len(s) \in 1..Len(t)
    BY <1>1
  <2>3. QED
    BY <1>1, <2>2 DEF ToSet
<1>5. SUFFICES ASSUME NEW k \in 1..(Len(s) + Len(t)), NEW l \in 1..(Len(s) + Len(t)),
                      Key((s \o t)[k]) = Key((s \o t)[l])
               PROVE  k = l
  BY <1>2 DEF Distinct
<1>6. CASE k <= Len(s) /\ l <= Len(s)
  BY <1>3, <1>5, <1>6 DEF Distinct
<1>7. CASE k > Len(s) /\ l > Len(s)
  <2>1. k - Len(s) = l - Len(s)
    BY <1>4, <1>5, <1>7 DEF Distinct
  <2>2. QED
    BY <2>1, <1>5
<1>8. CASE k <= Len(s) /\ l > Len(s)
  BY <1>3, <1>4, <1>5, <1>8
<1>9. CASE k > Len(s) /\ l <= Len(s)
  BY <1>3, <1>4, <1>5, <1>9
<1>10. QED
  BY <1>6, <1>7, <1>8, <1>9, <1>1

\* What is left without the call on top.
LEMMA WithoutTop ==
  ASSUME NEW s, s \in Seq(ToSet(s)), s # <<>>, Distinct(s)
  PROVE  /\ Tail(s) \in Seq(ToSet(Tail(s)))
         /\ ToSet(Tail(s)) = ToSet(s) \ {Head(s)}
         /\ Distinct(Tail(s))
         /\ Head(s) \in ToSet(s)
         /\ \A c \in ToSet(Tail(s)) : Key(c) # Key(Head(s))
<1>1. /\ Tail(s) \in Seq(ToSet(s)) /\ Len(Tail(s)) = Len(s) - 1 /\ Len(s) \in Nat \ {0}
      /\ \A k \in 1..(Len(s) - 1) : Tail(s)[k] = s[k + 1] /\ k + 1 \in DOMAIN s
      /\ Head(s) = s[1] /\ 1 \in DOMAIN s
  OBVIOUS
<1>2. \A c \in ToSet(Tail(s)) : c \in ToSet(s) /\ Key(c) # Key(Head(s))
  <2>1. SUFFICES ASSUME NEW k \in 1..(Len(s) - 1)
                 PROVE  Tail(s)[k] \in ToSet(s) /\ Key(Tail(s)[k]) # Key(Head(s))
    BY <1>1 DEF ToSet
  <2>2. k + 1 # 1
    OBVIOUS
  <2>3. QED
    BY <1>1, <2>2 DEF ToSet, Distinct
<1>3. \A c \in ToSet(s) \ {Head(s)} : c \in ToSet(Tail(s))
  <2>1. SUFFICES ASSUME NEW k \in 1..Len(s), s[k] # s[1]
                 PROVE  s[k] \in ToSet(Tail(s))
    BY <1>1 DEF ToSet
  <2>2. k - 1 \in 1..(Len(s) - 1) /\ (k - 1) + 1 = k
    BY <1>1, <2>1
  <2>3. Tail(s)[k - 1] = s[k]
    BY <1>1, <2>2
  <2>4. DOMAIN Tail(s) = 1..(Len(s) - 1)
    BY <1>1
  <2>5. QED
    BY <2>2, <2>3, <2>4 DEF ToSet
<1>4. ToSet(Tail(s)) = ToSet(s) \ {Head(s)}
  BY <1>2, <1>3
<1>5. Distinct(Tail(s))
  <2>1. SUFFICES ASSUME NEW k \in 1..(Len(s) - 1), NEW l \in 1..(Len(s) - 1), Key(Tail(s)[k]) = Key(Tail(s)[l])
                 PROVE  k = l
    BY <1>1 DEF Distinct
  <2>2. k + 1 = l + 1
    BY <1>1, <2>1 DEF Distinct
  <2>3. QED
    BY <2>2
<1>6. Tail(s) \in Seq(ToSet(Tail(s)))
  BY <1>1, OfItsOwn
<1>7. QED
  BY <1>1, <1>2, <1>4, <1>5, <1>6 DEF ToSet

-----------------------------------------------------------------------------
(* The stack of calls: what a step leaves on it.                              *)

\* What the stack keeps.
CallsOK == calls \in Seq(ToSet(calls)) /\ OneCall

LEMMA Few ==
  ASSUME NEW a
  PROVE  /\ <<>> \in Seq(ToSet(<<>>)) /\ ToSet(<<>>) = {} /\ Distinct(<<>>)
         /\ <<a>> \in Seq(ToSet(<<a>>)) /\ ToSet(<<a>>) = {a} /\ Distinct(<<a>>)
<1>1. ToSet(<<>>) = {}
  BY DEF ToSet
<1>2. ToSet(<<a>>) = {a}
  BY DEF ToSet
<1>3. Distinct(<<>>) /\ Distinct(<<a>>)
  BY DEF Distinct
<1>4. <<>> \in Seq({}) /\ <<a>> \in Seq({a})
  OBVIOUS
<1>5. QED
  BY <1>1, <1>2, <1>3, <1>4

\* The top call is replaced by those it makes.
LEMMA Pushed ==
  ASSUME CallsOK, calls # <<>>, NEW s, s \in Seq(ToSet(s)), Distinct(s),
         \A a \in ToSet(s), c \in Jobs \ {Top} : Key(a) # Key(c),
         calls' = s \o Rest
  PROVE  CallsOK' /\ Jobs' = ToSet(s) \cup (Jobs \ {Top})
<1>1. /\ Rest \in Seq(ToSet(Rest)) /\ Distinct(Rest)
      /\ ToSet(Rest) = Jobs \ {Top}
  BY WithoutTop DEF CallsOK, OneCall, Rest, Top, Jobs
<1>2. /\ s \o Rest \in Seq(ToSet(s \o Rest))
      /\ ToSet(s \o Rest) = ToSet(s) \cup ToSet(Rest)
  BY <1>1, Joined
<1>3. Distinct(s \o Rest)
  BY <1>1, DistinctJoined
<1>4. QED
  BY <1>1, <1>2, <1>3 DEF CallsOK, OneCall, Jobs

LEMMA TopIsOne ==
  ASSUME CallsOK, calls # <<>>
  PROVE  /\ Top \in Jobs /\ \A c \in Jobs \ {Top} : Key(c) # Key(Top)
         /\ Rest \in Seq(ToSet(Rest))
BY WithoutTop DEF CallsOK, OneCall, Rest, Top, Jobs

LEMMA Popped ==
  ASSUME CallsOK, calls # <<>>, calls' = Rest
  PROVE  CallsOK' /\ Jobs' = Jobs \ {Top}
BY WithoutTop DEF CallsOK, OneCall, Rest, Top, Jobs

LEMMA PushedOne ==
  ASSUME CallsOK, calls # <<>>, NEW a, calls' = <<a>> \o Rest,
         \A c \in Jobs \ {Top} : Key(a) # Key(c)
  PROVE  CallsOK' /\ Jobs' = {a} \cup (Jobs \ {Top})
<1> DEFINE s == <<a>>
<1>1. s \in Seq(ToSet(s)) /\ ToSet(s) = {a} /\ Distinct(s)
  BY Few
<1>2. calls' = s \o Rest
  OBVIOUS
<1> HIDE DEF s
<1>3. \A x \in ToSet(s), c \in Jobs \ {Top} : Key(x) # Key(c)
  BY <1>1
<1>4. QED
  BY <1>1, <1>2, <1>3, Pushed

LEMMA PushedTwo ==
  ASSUME CallsOK, calls # <<>>, NEW a, NEW b, calls' = <<a>> \o <<b>> \o Rest, Key(a) # Key(b),
         \A c \in Jobs \ {Top} : Key(a) # Key(c) /\ Key(b) # Key(c)
  PROVE  CallsOK' /\ Jobs' = {a, b} \cup (Jobs \ {Top})
<1> DEFINE s == <<a>>
           t == <<b>>
<1>1. /\ s \in Seq(ToSet(s)) /\ ToSet(s) = {a} /\ Distinct(s)
      /\ t \in Seq(ToSet(t)) /\ ToSet(t) = {b} /\ Distinct(t)
  BY Few
<1>2. calls' = s \o t \o Rest
  OBVIOUS
<1> HIDE DEF s, t
<1>3. s \o t \in Seq(ToSet(s \o t)) /\ ToSet(s \o t) = {a, b}
  <2>1. s \o t \in Seq(ToSet(s \o t)) /\ ToSet(s \o t) = ToSet(s) \cup ToSet(t)
    BY <1>1, Joined
  <2>2. QED
    BY <1>1, <2>1
<1>4. Distinct(s \o t)
  BY <1>1, DistinctJoined
<1>5. \A x \in ToSet(s \o t), c \in Jobs \ {Top} : Key(x) # Key(c)
  BY <1>3
<1>6. QED
  BY <1>2, <1>3, <1>4, <1>5, Pushed

\* The fields and kinds of calls.
LEMMA Built ==
  ASSUME NEW d, NEW i, NEW how, NEW v
  PROVE  /\ LET c == SettleCall(d, how, v) IN
              c.do = "settle" /\ c.of = d /\ c.at = 0 /\ c.how = how /\ c.value = v
         /\ LET c == HandlerCall(d, i) IN c.do = "handler" /\ c.of = d /\ c.at = i
         /\ LET c == AwaitCall(d, i) IN c.do = "await" /\ c.of = d /\ c.at = i
         /\ LET c == CountCall(d) IN c.do = "count" /\ c.of = d /\ c.at = 0
BY DEF SettleCall, HandlerCall, AwaitCall, CountCall

LEMMA SettleFields ==
  ASSUME NEW d, NEW how, NEW v
  PROVE  /\ SettleCall(d, how, v).do = "settle" /\ SettleCall(d, how, v).of = d
         /\ SettleCall(d, how, v).at = 0
         /\ SettleCall(d, how, v).how = how /\ SettleCall(d, how, v).value = v
BY DEF SettleCall

LEMMA Kinds ==
  ASSUME NEW c, IsCall(c)
  PROVE  /\ c.of \in 1..made
         /\ c.do = "settle" => c = SettleCall(c.of, c.how, c.value) /\ c.how \in {"resolved", "rejected"}
         /\ c.do = "handler" => c = HandlerCall(c.of, c.at) /\ c.at \in DOMAIN handlers[c.of]
         /\ c.do = "await" => c = AwaitCall(c.of, c.at) /\ c.at \in DOMAIN group[c.of].of
         /\ c.do = "count" => c = CountCall(c.of)
         /\ c.do \in {"settle", "handler", "await", "count"}
<1>1. \A d, i, how, v : /\ SettleCall(d, how, v).do = "settle" /\ HandlerCall(d, i).do = "handler"
                        /\ AwaitCall(d, i).do = "await" /\ CountCall(d).do = "count"
  BY Built
<1>2. CASE c = SettleCall(c.of, c.how, c.value) /\ c.how \in {"resolved", "rejected"}
  <2>1. c.do = "settle"
    BY <1>1, <1>2
  <2>2. QED
    BY <2>1, <1>2 DEF IsCall
<1>3. CASE c = HandlerCall(c.of, c.at) /\ c.at \in DOMAIN handlers[c.of]
  <2>1. c.do = "handler"
    BY <1>1, <1>3
  <2>2. QED
    BY <2>1, <1>3 DEF IsCall
<1>4. CASE c = AwaitCall(c.of, c.at) /\ c.at \in DOMAIN group[c.of].of
  <2>1. c.do = "await"
    BY <1>1, <1>4
  <2>2. QED
    BY <2>1, <1>4 DEF IsCall
<1>5. CASE c = CountCall(c.of)
  <2>1. c.do = "count"
    BY <1>1, <1>5
  <2>2. QED
    BY <2>1, <1>5 DEF IsCall
<1>6. QED
  BY <1>2, <1>3, <1>4, <1>5 DEF IsCall

\* A call that settles is new to the stack when none is on its way to the deferred.
LEMMA SettleKey ==
  ASSUME BatchTypeOK, NEW d, ~Settling(d), NEW how, NEW v, NEW c \in Jobs
  PROVE  Key(SettleCall(d, how, v)) # Key(c)
BY DEF Settling, Key, SettleCall

-----------------------------------------------------------------------------
(* A handler that is run, and the deferreds it settles.                       *)

LEMMA MadeBound ==
  ASSUME BatchTypeOK
  PROVE  made \in Nat /\ MaxDeferreds \in Nat /\ made <= MaxDeferreds /\ 1..made \subseteq Deferreds
<1>1. made \in 0..MaxDeferreds /\ MaxDeferreds \in Nat
  BY BatchAssumption DEF BatchTypeOK
<1>2. QED
  BY <1>1 DEF Deferreds

\* The handler on top: its deferred is settled and what it settles is not.
LEMMA TopHandler ==
  ASSUME BatchTypeOK, OneCall, Linked, SettledOnce, Calling("handler")
  PROVE  /\ CallsOK /\ calls # <<>>
         /\ Top.of \in 1..made /\ Top.of \in Deferreds /\ Top.at \in DOMAIN handlers[Top.of]
         /\ Top = HandlerCall(Top.of, Top.at) /\ Top \in Jobs
         /\ state[Top.of] # "pending"
         /\ Handler \in Handlers /\ HandlerOf(Top.of, Top.at)
         /\ \A t \in Targets(Handler) : state[t] = "pending" /\ ~Settling(t)
         /\ HandlerCall(Top.of, Top.at) \notin Jobs \ {Top}
<1>1. CallsOK /\ calls # <<>> /\ Top \in Jobs
  BY WithoutTop DEF BatchTypeOK, CallsOK, OneCall, Jobs, Top, Calling
<1>2. IsCall(Top) /\ Top.do = "handler"
  BY <1>1 DEF BatchTypeOK, Jobs, Calling
<1>3. Top.of \in 1..made /\ Top = HandlerCall(Top.of, Top.at) /\ Top.at \in DOMAIN handlers[Top.of]
  BY <1>2, Kinds
<1>4. Top.of \in Deferreds
  BY <1>3, MadeBound
<1>5. Handler \in Handlers
  BY <1>3, <1>4 DEF BatchTypeOK, Handler
<1>6. HandlerOf(Top.of, Top.at)
  BY <1>3, <1>4 DEF Linked
<1>7. state[Top.of] # "pending"
  BY <1>1, <1>2 DEF SettledOnce
<1>8. Unrun(Top.of, Top.at)
  BY <1>1, <1>3 DEF Unrun
<1>9. \A t \in Targets(Handler) : state[t] = "pending" /\ ~Settling(t)
  BY <1>3, <1>4, <1>8 DEF SettledOnce, Handler
<1>10. QED
  BY <1>1, <1>3, <1>4, <1>5, <1>6, <1>7, <1>9

\* What a step of a handler does: it settles its next deferred and at most another one.
Settles(new) ==
  /\ \A c \in new :
       /\ c = SettleCall(c.of, c.how, c.value) /\ c.how \in {"resolved", "rejected"}
       /\ c.of \in 1..made /\ state[c.of] = "pending" /\ ~Settling(c.of) /\ query[c.of] = NoQuery
       /\ c.of \in Targets(Handler) \/ (Handler.cb.does = "all" /\ c.of = Handler.cb.of /\ group[c.of].of # <<>>)
  /\ \E c \in new : c.of = Handler.next
  /\ Jobs' = new \cup (Jobs \ {Top})

\* What else it leaves as it is.
Leaves ==
  /\ made' \in {made, made + 1} /\ made' \in 0..MaxDeferreds
  /\ \A d \in Deferreds : d <= made => query'[d] = query[d] /\ state'[d] = state[d]
  /\ value' = value /\ handlers' = handlers /\ \A d \in Deferreds : group'[d].of = group[d].of

\* Steps that settle the next deferred only, or another one before it.
LEMMA SettlesNext ==
  ASSUME BatchTypeOK, OneCall, Linked, SettledOnce, Calling("handler"),
         NEW how \in {"resolved", "rejected"}, NEW v,
         calls' = <<SettleCall(Handler.next, how, v)>> \o Rest
  PROVE  CallsOK' /\ Settles({SettleCall(Handler.next, how, v)})
<1> DEFINE a == SettleCall(Handler.next, how, v)
<1>1. CallsOK /\ calls # <<>> /\ Handler.next \in Targets(Handler)
  BY TopHandler DEF Targets
<1>2. Handler.next \in 1..made /\ query[Handler.next] = NoQuery
  BY <1>1, TopHandler DEF HandlerOf, Handler, Plain
<1>3. state[Handler.next] = "pending" /\ ~Settling(Handler.next)
  BY <1>1, TopHandler
<1>4. \A c \in Jobs \ {Top} : Key(a) # Key(c)
  BY <1>3, SettleKey
<1>5. a.of = Handler.next /\ a.how = how /\ a.value = v
  BY SettleFields
<1> HIDE DEF a
<1>6. calls' = <<a>> \o Rest
  BY DEF a
<1>7. CallsOK' /\ Jobs' = {a} \cup (Jobs \ {Top})
  BY <1>1, <1>4, <1>6, PushedOne
<1>8. a = SettleCall(a.of, a.how, a.value)
  BY <1>5 DEF a
<1>9. Settles({a})
  BY <1>1, <1>2, <1>3, <1>5, <1>7, <1>8 DEF Settles
<1>10. QED
  BY <1>7, <1>9 DEF a

LEMMA SettlesAnother ==
  ASSUME BatchTypeOK, OneCall, Linked, SettledOnce, Calling("handler"),
         NEW t \in 1..made, t # Handler.next, state[t] = "pending", ~Settling(t), query[t] = NoQuery,
         t \in Targets(Handler) \/ (Handler.cb.does = "all" /\ t = Handler.cb.of /\ group[t].of # <<>>),
         NEW how \in {"resolved", "rejected"}, NEW v, NEW how2 \in {"resolved", "rejected"}, NEW w,
         calls' = <<SettleCall(t, how, v)>> \o <<SettleCall(Handler.next, how2, w)>> \o Rest
  PROVE  CallsOK' /\ Settles({SettleCall(t, how, v), SettleCall(Handler.next, how2, w)})
<1> DEFINE a == SettleCall(t, how, v)
           b == SettleCall(Handler.next, how2, w)
<1>1. CallsOK /\ calls # <<>> /\ Handler.next \in Targets(Handler)
  BY TopHandler DEF Targets
<1>2. Handler.next \in 1..made /\ query[Handler.next] = NoQuery
  BY <1>1, TopHandler DEF HandlerOf, Handler, Plain
<1>3. state[Handler.next] = "pending" /\ ~Settling(Handler.next)
  BY <1>1, TopHandler
<1>4. \A c \in Jobs \ {Top} : Key(a) # Key(c) /\ Key(b) # Key(c)
  BY <1>3, SettleKey
<1>5. /\ a.of = t /\ a.how = how /\ a.value = v
      /\ b.of = Handler.next /\ b.how = how2 /\ b.value = w
  <2>1. a.of = t /\ a.how = how /\ a.value = v
    BY SettleFields
  <2>2. b.of = Handler.next /\ b.how = how2 /\ b.value = w
    BY SettleFields
  <2>3. QED
    BY <2>1, <2>2
<1>6. Key(a) # Key(b)
  BY <1>5 DEF Key
<1>7. a = SettleCall(a.of, a.how, a.value) /\ b = SettleCall(b.of, b.how, b.value)
  BY <1>5
<1>8. calls' = <<a>> \o <<b>> \o Rest
  OBVIOUS
<1> HIDE DEF a, b
<1>9. CallsOK' /\ Jobs' = {a, b} \cup (Jobs \ {Top})
  BY <1>1, <1>4, <1>6, <1>8, PushedTwo
<1>10. Settles({a, b})
  BY <1>1, <1>2, <1>3, <1>5, <1>7, <1>9 DEF Settles
<1>11. QED
  BY <1>9, <1>10 DEF a, b

\* A group one of whose handlers has still to run has not settled its deferred.
LEMMA NotYetAll ==
  ASSUME IInv, Calling("handler"), Handler.cb.does = "all"
  PROVE  LET r == Handler.cb.of IN
         /\ r \in 1..made /\ r \in Deferreds /\ group[r].of # <<>> /\ IsGroup(group[r]) /\ GroupOf(r)
         /\ Handler.cb = AllCallback(r, Handler.cb.index)
         /\ Handler.cb.index \in DOMAIN group[r].of /\ group[r].of[Handler.cb.index] = Top.of
         /\ ~Passed(r, Handler.cb.index)
         /\ ~group[r].rejected => /\ group[r].count # Len(group[r].of)
                                  /\ state[r] = "pending" /\ ~Settling(r)
<1> DEFINE r == Handler.cb.of
           i == Handler.cb.index
<1>0. BatchTypeOK /\ OneCall /\ Linked /\ SettledOnce /\ Grouped
  BY DEF IInv
<1>1. /\ Top.of \in Deferreds /\ Top.at \in DOMAIN handlers[Top.of] /\ HandlerOf(Top.of, Top.at)
      /\ HandlerCall(Top.of, Top.at) \in Jobs
  BY <1>0, TopHandler
<1>2. /\ r \in 1..made /\ Handler.cb = AllCallback(r, i)
      /\ i \in DOMAIN group[r].of /\ group[r].of[i] = Top.of
  BY <1>1 DEF HandlerOf, Handler
<1>3. r \in Deferreds
  BY <1>0, <1>2, MadeBound
<1>4. IsGroup(group[r])
  BY <1>0, <1>3 DEF BatchTypeOK
<1>5. group[r].of # <<>>
  BY <1>2, <1>4
<1>6. GroupOf(r)
  BY <1>0, <1>2, <1>5 DEF Grouped
<1>7. ~Passed(r, i)
  <2>1. SUFFICES ASSUME NEW j \in DOMAIN handlers[Top.of], handlers[Top.of][j].cb = Handler.cb,
                        ~Unrun(Top.of, j)
                 PROVE  FALSE
    BY <1>2 DEF Passed
  <2>2. j = Top.at
    <3>1. HandlersApart
      BY <1>0 DEF Linked
    <3>2. Clash(handlers[Top.of][j], handlers[Top.of][Top.at])
      BY <2>1, <1>0, <1>1 DEF Clash, Handler
    <3>3. QED
      BY <2>1, <1>1, <3>1, <3>2 DEF HandlersApart
  <2>3. QED
    BY <2>1, <2>2, <1>1 DEF Unrun
<1>8. ASSUME ~group[r].rejected
      PROVE  group[r].count # Len(group[r].of) /\ state[r] = "pending" /\ ~Settling(r)
  <2>1. group[r].count = Cardinality(AllPassed(r))
    BY <1>6, <1>8 DEF GroupOf
  <2>2. DOMAIN group[r].of = 1..Len(group[r].of) /\ Len(group[r].of) \in Nat
    BY <1>4 DEF IsGroup
  <2>3. IsFiniteSet(1..Len(group[r].of)) /\ Cardinality(1..Len(group[r].of)) = Len(group[r].of)
    BY <2>2, FS_Interval
  <2>4. AllPassed(r) \subseteq 1..Len(group[r].of) /\ i \notin AllPassed(r) /\ i \in 1..Len(group[r].of)
    BY <2>2, <1>2, <1>7 DEF AllPassed
  <2>5. Cardinality(AllPassed(r)) # Len(group[r].of)
    BY <2>3, <2>4, FS_Subset
  <2>6. QED
    BY <2>1, <2>5, <1>6, <1>8 DEF GroupOf
<1>9. QED
  BY <1>2, <1>3, <1>4, <1>5, <1>6, <1>7, <1>8

LEMMA EmptyFirst ==
  ASSUME NEW a
  PROVE  <<>> \o <<a>> = <<a>>
<1>1. <<a>> \in Seq({a})
  OBVIOUS
<1>2. QED
  BY <1>1, ConcatEmptySeq

\* What the callbacks of all() leave in its closure.
LEMMA GatheredIs ==
  ASSUME NEW g, IsGroup(g), NEW i \in DOMAIN g.of, NEW v
  PROVE  LET h == Gathered(g, i, v) IN
         /\ h.of = g.of /\ h.rejected = g.rejected /\ h.count = g.count + 1
         /\ h.values[i] = v /\ \A j \in DOMAIN g.of : j # i => h.values[j] = g.values[j]
         /\ g.count # Len(g.of) => IsGroup(h)
<1> DEFINE h == Gathered(g, i, v)
<1>1. DOMAIN g = {"of", "values", "count", "rejected"} /\ g.values = [j \in DOMAIN g.of |-> g.values[j]]
  BY DEF IsGroup
<1>2. /\ DOMAIN h = {"of", "values", "count", "rejected"}
      /\ h.of = g.of /\ h.rejected = g.rejected /\ h.count = g.count + 1
      /\ h.values = [g.values EXCEPT ![i] = v]
  BY <1>1 DEF Gathered
<1>3. DOMAIN g.values = DOMAIN g.of
  BY <1>1
<1> HIDE DEF h
<1>4. h.values = [j \in DOMAIN g.of |-> h.values[j]]
  BY <1>2, <1>3
<1>5. h.values[i] = v /\ \A j \in DOMAIN g.of : j # i => h.values[j] = g.values[j]
  BY <1>2, <1>3
<1>6. ASSUME g.count # Len(g.of) PROVE IsGroup(h)
  <2>1. g.count + 1 \in 0..Len(g.of)
    BY <1>6 DEF IsGroup
  <2>2. QED
    BY <1>2, <1>4, <2>1 DEF IsGroup
<1>7. QED
  BY <1>2, <1>5, <1>6 DEF h

LEMMA RejectedIs ==
  ASSUME NEW g, IsGroup(g)
  PROVE  LET h == [g EXCEPT !.rejected = TRUE] IN
         h.of = g.of /\ h.rejected /\ h.count = g.count /\ h.values = g.values /\ IsGroup(h)
<1>1. DOMAIN g = {"of", "values", "count", "rejected"}
  BY DEF IsGroup
<1>2. QED
  BY <1>1 DEF IsGroup

LEMMA GathersIs ==
  ASSUME IInv, Gathers
  PROVE  LET r == Handler.cb.of
             i == Handler.cb.index
             g == IF group[r].rejected THEN group[r] ELSE Gathered(group[r], i, value[Top.of])
         IN  /\ r \in Deferreds /\ i \in DOMAIN group[r].of
             /\ group' = [group EXCEPT ![r] = g] /\ group'[r] = g
             /\ \A q \in Deferreds : q # r => group'[q] = group[q]
             /\ IsGroup(g) /\ g.of = group[r].of /\ g.rejected = group[r].rejected
<1> DEFINE r == Handler.cb.of
           i == Handler.cb.index
           g == IF group[r].rejected THEN group[r] ELSE Gathered(group[r], i, value[Top.of])
<1>1. /\ Calling("handler") /\ Handler.cb.does = "all" /\ DOMAIN group = Deferreds
      /\ group' = [group EXCEPT ![r] = g]
  BY DEF Gathers, IInv, BatchTypeOK
<1>2. /\ r \in Deferreds /\ IsGroup(group[r]) /\ i \in DOMAIN group[r].of
      /\ ~group[r].rejected => group[r].count # Len(group[r].of)
  BY <1>1, NotYetAll
<1>3. g.of = group[r].of /\ g.rejected = group[r].rejected /\ IsGroup(g)
  <2>1. CASE group[r].rejected
    BY <2>1, <1>2
  <2>2. CASE ~group[r].rejected
    <3>1. PICK v : v = value[Top.of]
      OBVIOUS
    <3>2. g = Gathered(group[r], i, v)
      BY <2>2, <3>1
    <3> HIDE DEF g
    <3>3. QED
      BY <1>2, <2>2, <3>2, GatheredIs
  <2>3. QED
    BY <2>1, <2>2
<1> HIDE DEF g
<1>4. group'[r] = g /\ \A q \in Deferreds : q # r => group'[q] = group[q]
  BY <1>1, <1>2
<1>5. QED
  BY <1>1, <1>2, <1>3, <1>4 DEF g

LEMMA GathersErrorIs ==
  ASSUME IInv, GathersError
  PROVE  LET r == Handler.cb.of IN
         /\ r \in Deferreds /\ IsGroup(group[r])
         /\ group'[r] = [group[r] EXCEPT !.rejected = TRUE]
         /\ \A q \in Deferreds : q # r => group'[q] = group[q]
         /\ DOMAIN group' = Deferreds
<1>1. Calling("handler") /\ Handler.cb.does = "all" /\ DOMAIN group = Deferreds
  BY DEF GathersError, IInv, BatchTypeOK
<1>2. Handler.cb.of \in Deferreds /\ IsGroup(group[Handler.cb.of])
  BY <1>1, NotYetAll
<1>3. group' = [group EXCEPT ![Handler.cb.of] = [group[Handler.cb.of] EXCEPT !.rejected = TRUE]]
  BY <1>1, <1>2 DEF GathersError
<1>4. QED
  BY <1>1, <1>2, <1>3

\* all() settles its deferred with the last value or with the first error, and not otherwise.
LEMMA GathersRuns ==
  ASSUME IInv, Gathers
  PROVE  LET r == Handler.cb.of
             g == group'[r]
         IN  /\ CallsOK' /\ Leaves
             /\ \E new : /\ Settles(new)
                         /\ IF ~g.rejected /\ g.count = Len(g.of)
                            THEN ResolveCall(r, ListOf(g.values)) \in new
                            ELSE \A c \in new : c.of = Handler.next
<1> DEFINE r == Handler.cb.of
           g == IF group[r].rejected THEN group[r] ELSE Gathered(group[r], Handler.cb.index, value[Top.of])
<1>0. /\ BatchTypeOK /\ OneCall /\ Linked /\ SettledOnce /\ Calling("handler") /\ Handler.cb.does = "all"
      /\ made \in 0..MaxDeferreds
  BY DEF IInv, BatchTypeOK, Gathers
<1>1. /\ r \in Deferreds /\ g.of = group[r].of /\ g.rejected = group[r].rejected
      /\ group'[r] = g /\ \A q \in Deferreds : q # r => group'[q] = group[q]
  BY GathersIs
<1>2. Leaves
  BY <1>0, <1>1 DEF Gathers, Leaves
<1>3. calls' = (IF g.rejected THEN <<>> ELSE ResolveIfAll(r, g)) \o <<ResolveCall(Handler.next, NoRow)>> \o Rest
  BY DEF Gathers
<1>4. /\ r \in 1..made /\ group[r].of # <<>>
      /\ ~group[r].rejected => state[r] = "pending" /\ ~Settling(r)
  BY <1>0, NotYetAll
<1>5. r # Handler.next /\ query[r] = NoQuery
  <2>1. group[Handler.next].of = <<>>
    BY <1>0, TopHandler DEF HandlerOf, Handler, Plain, Targets
  <2>2. ~IsQuery(r)
    BY <1>4 DEF IInv, Answered
  <2>3. QED
    BY <2>1, <2>2, <1>4 DEF IsQuery
<1>6. CASE ~g.rejected /\ g.count = Len(g.of)
  <2>1. calls' = <<SettleCall(r, "resolved", ListOf(g.values))>>
                 \o <<SettleCall(Handler.next, "resolved", NoRow)>> \o Rest
    BY <1>3, <1>6 DEF ResolveIfAll, ResolveCall
  <2> DEFINE new == {SettleCall(r, "resolved", ListOf(g.values)), SettleCall(Handler.next, "resolved", NoRow)}
  <2> HIDE DEF g, r
  <2>2. CallsOK' /\ Settles(new)
    BY <1>0, <1>1, <1>4, <1>5, <1>6, <2>1, SettlesAnother DEF r
  <2>3. ResolveCall(r, ListOf(g.values)) \in new
    BY DEF ResolveCall
  <2> HIDE DEF new
  <2>4. QED
    BY <1>1, <1>2, <1>6, <2>2, <2>3 DEF r
<1>7. CASE ~(~g.rejected /\ g.count = Len(g.of))
  <2> DEFINE new == {SettleCall(Handler.next, "resolved", NoRow)}
  <2>1. calls' = <<>> \o <<ResolveCall(Handler.next, NoRow)>> \o Rest
    BY <1>3, <1>7 DEF ResolveIfAll
  <2>2. calls' = <<ResolveCall(Handler.next, NoRow)>> \o Rest
    BY <2>1, EmptyFirst
  <2>3. CallsOK' /\ Settles(new)
    BY <1>0, <2>2, SettlesNext DEF ResolveCall
  <2>4. \A c \in new : c.of = Handler.next
    BY SettleFields
  <2> HIDE DEF new, g
  <2>5. QED
    BY <1>1, <1>2, <1>7, <2>3, <2>4
<1>8. QED
  BY <1>6, <1>7

LEMMA GathersErrorRuns ==
  ASSUME IInv, GathersError
  PROVE  LET r == Handler.cb.of
         IN  /\ CallsOK' /\ Leaves
             /\ \E new : /\ Settles(new)
                         /\ IF ~group[r].rejected
                            THEN RejectCall(r) \in new
                            ELSE \A c \in new : c.of = Handler.next
<1> DEFINE r == Handler.cb.of
<1>0. /\ BatchTypeOK /\ OneCall /\ Linked /\ SettledOnce /\ Calling("handler") /\ Handler.cb.does = "all"
      /\ made \in 0..MaxDeferreds
  BY DEF IInv, BatchTypeOK, GathersError
<1>1. /\ r \in Deferreds /\ group'[r].of = group[r].of
      /\ \A q \in Deferreds : q # r => group'[q] = group[q]
  BY GathersErrorIs, RejectedIs
<1>2. Leaves
  BY <1>0, <1>1 DEF GathersError, Leaves
<1>4. /\ r \in 1..made /\ group[r].of # <<>>
      /\ ~group[r].rejected => state[r] = "pending" /\ ~Settling(r)
  BY <1>0, NotYetAll
<1>5. r # Handler.next /\ query[r] = NoQuery
  <2>1. group[Handler.next].of = <<>>
    BY <1>0, TopHandler DEF HandlerOf, Handler, Plain, Targets
  <2>2. ~IsQuery(r)
    BY <1>4 DEF IInv, Answered
  <2>3. QED
    BY <2>1, <2>2, <1>4 DEF IsQuery
<1>6. CASE ~group[r].rejected
  <2> DEFINE new == {SettleCall(r, "rejected", Error), SettleCall(Handler.next, "resolved", NoRow)}
  <2>1. calls' = <<SettleCall(r, "rejected", Error)>>
                 \o <<SettleCall(Handler.next, "resolved", NoRow)>> \o Rest
    BY <1>6 DEF GathersError, ResolveCall, RejectCall
  <2> HIDE DEF r
  <2>2. CallsOK' /\ Settles(new)
    BY <1>0, <1>4, <1>5, <1>6, <2>1, SettlesAnother DEF r
  <2>3. RejectCall(r) \in new
    BY DEF RejectCall
  <2> HIDE DEF new
  <2>4. QED
    BY <1>2, <1>6, <2>2, <2>3 DEF r
<1>7. CASE group[r].rejected
  <2> DEFINE new == {SettleCall(Handler.next, "resolved", NoRow)}
  <2>1. calls' = <<>> \o <<ResolveCall(Handler.next, NoRow)>> \o Rest
    BY <1>7 DEF GathersError
  <2>2. calls' = <<ResolveCall(Handler.next, NoRow)>> \o Rest
    BY <2>1, EmptyFirst
  <2>3. CallsOK' /\ Settles(new)
    BY <1>0, <2>2, SettlesNext DEF ResolveCall
  <2>4. \A c \in new : c.of = Handler.next
    BY SettleFields
  <2> HIDE DEF new
  <2>5. QED
    BY <1>2, <1>7, <2>3, <2>4
<1>8. QED
  BY <1>6, <1>7

\* What every callback of a handler comes to.
LEMMA HandlerRuns ==
  ASSUME IInv, RunHandler
  PROVE  CallsOK' /\ Leaves /\ \E new : Settles(new)
<1>1. /\ BatchTypeOK /\ OneCall /\ Linked /\ SettledOnce /\ Calling("handler")
  BY DEF IInv, RunHandler, Returns, Raises, Collects, ResolvesRows, Gathers, GathersError
<1>0. made \in 0..MaxDeferreds
  BY <1>1 DEF BatchTypeOK
<1>2. CASE Returns
  <2>1. Leaves
    BY <1>0, <1>2 DEF Returns, Leaves, deferredVars
  <2>2. QED
    BY <1>1, <1>2, <2>1, SettlesNext DEF Returns, ResolveCall
<1>3. CASE Raises
  <2>1. Leaves
    BY <1>0, <1>3 DEF Raises, Leaves, deferredVars
  <2>2. QED
    BY <1>1, <1>3, <2>1, SettlesNext DEF Raises, RejectCall
<1>4. CASE Collects
  <2>1. Leaves
    <3>1. /\ made' = made + 1 /\ made + 1 <= MaxDeferreds
          /\ \E text : query' = [query EXCEPT ![made + 1] = text]
          /\ state' = state \/ state' = [state EXCEPT ![made + 1] = "resolved"]
          /\ value' = value /\ handlers' = handlers /\ group' = group
      BY <1>4 DEF Collects, CollectQuery, Room
    <3>2. DOMAIN query = Deferreds /\ DOMAIN state = Deferreds /\ made \in Nat /\ MaxDeferreds \in Nat
      BY <1>1, MadeBound DEF BatchTypeOK
    <3>3. \A d \in Deferreds : d <= made => d # made + 1
      BY <3>2 DEF Deferreds
    <3>4. QED
      BY <3>1, <3>2, <3>3 DEF Leaves
  <2>2. QED
    BY <1>1, <1>4, <2>1, SettlesNext DEF Collects, ResolveCall
<1>5. CASE ResolvesRows
  <2>1. Leaves
    BY <1>0, <1>5 DEF ResolvesRows, Leaves, deferredVars
  <2>2. CASE Succeeds
    <3> DEFINE t == Handler.cb.of
               v == ListOf(IF value[Top.of] = NoRow THEN <<>> ELSE <<value[Top.of]>>)
    <3>1. t \in Targets(Handler) /\ t # Handler.next /\ t \in 1..made /\ query[t] = NoQuery
      BY <1>1, <1>5, TopHandler DEF ResolvesRows, Targets, HandlerOf, Handler, Plain
    <3>2. state[t] = "pending" /\ ~Settling(t)
      BY <1>1, <3>1, TopHandler
    <3>3. calls' = <<SettleCall(t, "resolved", v)>> \o <<SettleCall(Handler.next, "resolved", NoRow)>> \o Rest
      BY <1>5, <2>2 DEF ResolvesRows, ResolveCall
    <3> HIDE DEF t, v
    <3>4. QED
      BY <1>1, <2>1, <3>1, <3>2, <3>3, SettlesAnother
  <2>3. CASE ~Succeeds
    <3>1. calls' = <<>> \o <<ResolveCall(Handler.next, NoRow)>> \o Rest
      BY <1>5, <2>3 DEF ResolvesRows
    <3>2. calls' = <<ResolveCall(Handler.next, NoRow)>> \o Rest
      BY <3>1, EmptyFirst
    <3>3. QED
      BY <1>1, <2>1, <3>2, SettlesNext DEF ResolveCall
  <2>4. QED
    BY <2>2, <2>3
<1>6. CASE Gathers
  BY <1>6, GathersRuns
<1>7. CASE GathersError
  BY <1>7, GathersErrorRuns
<1>8. QED
  BY <1>2, <1>3, <1>4, <1>5, <1>6, <1>7 DEF RunHandler

-----------------------------------------------------------------------------
(* A handler's step keeps the invariant.                                      *)

\* A handler's step keeps the deferreds there are, and the calls for them.
LEMMA SmallerIsMade ==
  ASSUME BatchTypeOK, Leaves, NEW d \in 1..made
  PROVE  d \in Deferreds /\ d \in 1..made' /\ query'[d] = query[d] /\ state'[d] = state[d]
BY MadeBound DEF Leaves

LEMMA CallStays ==
  ASSUME BatchTypeOK, Leaves, NEW c, IsCall(c)
  PROVE  IsCall(c)'
<1>1. c.of \in Deferreds /\ c.of \in 1..made'
  BY SmallerIsMade DEF IsCall
<1>2. handlers' = handlers /\ group'[c.of].of = group[c.of].of
  BY <1>1 DEF Leaves
<1>3. QED
  BY <1>1, <1>2 DEF IsCall

LEMMA CallsStay ==
  ASSUME BatchTypeOK, OneCall, Linked, SettledOnce, Calling("handler"), Leaves, NEW new, Settles(new)
  PROVE  \A c \in Jobs' : IsCall(c)'
<1>1. SUFFICES ASSUME NEW c \in Jobs' PROVE IsCall(c)
  BY CallStays
<1>2. CASE c \in Jobs
  BY <1>2 DEF BatchTypeOK, Jobs
<1>3. CASE c \in new
  BY <1>3 DEF Settles, IsCall
<1>4. QED
  BY <1>2, <1>3 DEF Settles

\* Which calls a handler's step adds and takes.
LEMMA HandlerJobs ==
  ASSUME BatchTypeOK, OneCall, Linked, SettledOnce, Calling("handler"), Leaves, NEW new, Settles(new)
  PROVE  /\ \A c : c.do # "settle" => (c \in Jobs' <=> c \in Jobs /\ c # Top)
         /\ \A c \in Jobs : c.do = "settle" => c \in Jobs'
         /\ \A d : Settling(d) => Settling(d)'
         /\ \A d : d = Handler.next => Settling(d)'
         /\ \A d : Settling(d)' => \/ Settling(d)
                                   \/ d \in Targets(Handler)
                                   \/ Handler.cb.does = "all" /\ d = Handler.cb.of /\ group[d].of # <<>>
<1>1. Top.do = "handler" /\ Top \in Jobs
  BY TopHandler DEF Calling
<1>2. \A c \in new : c.do = "settle"
  BY SettleFields DEF Settles
<1>3. Jobs' = new \cup (Jobs \ {Top})
  BY DEF Settles
<1>4. /\ \A c : c.do # "settle" => (c \in Jobs' <=> c \in Jobs /\ c # Top)
      /\ \A c \in Jobs : c.do = "settle" => c \in Jobs'
  BY <1>1, <1>2, <1>3
<1>5. \A d : Settling(d) => Settling(d)'
  BY <1>4 DEF Settling
<1>6. ASSUME NEW d, d = Handler.next PROVE Settling(d)'
  <2>1. PICK c \in new : c.of = Handler.next
    BY DEF Settles
  <2>2. c \in Jobs' /\ c.do = "settle"
    BY <2>1, <1>2, <1>3
  <2>3. QED
    BY <1>6, <2>1, <2>2 DEF Settling
<1>7. ASSUME NEW d, Settling(d)'
      PROVE  \/ Settling(d)
             \/ d \in Targets(Handler)
             \/ Handler.cb.does = "all" /\ d = Handler.cb.of /\ group[d].of # <<>>
  <2>1. PICK c \in Jobs' : c.do = "settle" /\ c.of = d
    BY <1>7 DEF Settling
  <2>2. CASE c \in new
    BY <2>1, <2>2 DEF Settles
  <2>3. CASE c \in Jobs
    BY <2>1, <2>3 DEF Settling
  <2>4. QED
    BY <2>2, <2>3, <1>3
<1>8. QED
  BY <1>4, <1>5, <1>6, <1>7

LEMMA HandlerFields ==
  ASSUME NEW d, NEW i
  PROVE  HandlerCall(d, i).do = "handler" /\ HandlerCall(d, i).of = d /\ HandlerCall(d, i).at = i
BY DEF HandlerCall

\* A handler's step runs one handler.
LEMMA HandlerRan ==
  ASSUME BatchTypeOK, OneCall, Linked, SettledOnce, Calling("handler"), Leaves, NEW new, Settles(new),
         NEW p \in 1..made, NEW i \in DOMAIN handlers[p]
  PROVE  Unrun(p, i)' <=> Unrun(p, i) /\ ~(p = Top.of /\ i = Top.at)
<1>1. state'[p] = state[p]
  BY SmallerIsMade
<1>2. HandlerCall(p, i) \in Jobs' <=> HandlerCall(p, i) \in Jobs /\ HandlerCall(p, i) # Top
  BY HandlerJobs, HandlerFields
<1>3. HandlerCall(p, i) = Top <=> p = Top.of /\ i = Top.at
  BY TopHandler, HandlerFields
<1>4. p = Top.of => state[p] # "pending"
  BY TopHandler
<1>5. QED
  BY <1>1, <1>2, <1>3, <1>4 DEF Unrun

\* Each part of the invariant after a handler's step.
LEMMA HandlerLinked ==
  ASSUME BatchTypeOK, OneCall, Fresh, Linked, SettledOnce, Calling("handler"), Leaves, NEW new, Settles(new)
  PROVE  Linked'
<1>1. handlers' = handlers
  BY DEF Leaves
<1>2. ASSUME NEW p \in Deferreds, NEW i \in DOMAIN handlers[p]
      PROVE  HandlerOf(p, i)'
  <2>1. HandlerOf(p, i)
    BY <1>2 DEF Linked
  <2>2. \A t \in Targets(handlers[p][i]) : t \in 1..made' /\ query'[t] = NoQuery /\ group'[t].of = <<>>
    BY <2>1, SmallerIsMade DEF HandlerOf, Plain, Leaves
  <2>3. ASSUME handlers[p][i].cb.does = "all"
        PROVE  handlers[p][i].cb.of \in 1..made' /\ group'[handlers[p][i].cb.of].of = group[handlers[p][i].cb.of].of
    BY <2>1, <2>3, SmallerIsMade DEF HandlerOf, Leaves
  <2>4. QED
    BY <1>1, <2>1, <2>2, <2>3 DEF HandlerOf, Plain, Targets
<1>3. HandlersApart'
  BY <1>1, ApartKept DEF Linked
<1>4. \A p \in Deferreds : \A i \in DOMAIN handlers'[p] : HandlerOf(p, i)'
  BY <1>1, <1>2
<1>5. QED
  BY <1>3, <1>4 DEF Linked

LEMMA HandlerSettledOnce ==
  ASSUME BatchTypeOK, OneCall, Fresh, Linked, SettledOnce, Calling("handler"), Leaves, NEW new, Settles(new)
  PROVE  SettledOnce'
<1>1. handlers' = handlers
  BY DEF Leaves
<1>2. \A c \in Jobs : c.of \in 1..made
  BY DEF BatchTypeOK, Jobs, IsCall
<1>3. ASSUME NEW c \in Jobs', c.do = "settle" PROVE state'[c.of] = "pending"
  <2>1. CASE c \in new
    BY <2>1, SmallerIsMade DEF Settles
  <2>2. CASE c \in Jobs
    BY <1>2, <1>3, <2>2, SmallerIsMade DEF SettledOnce
  <2>3. QED
    BY <2>1, <2>2 DEF Settles
<1>4. ASSUME NEW c \in Jobs', c.do = "handler" PROVE state'[c.of] # "pending"
  <2>1. c \in Jobs
    BY <1>4, HandlerJobs
  <2>2. QED
    BY <1>2, <1>4, <2>1, SmallerIsMade DEF SettledOnce
<1>5. ASSUME NEW p \in Deferreds, NEW i \in DOMAIN handlers[p]
      PROVE  IF Unrun(p, i)' THEN \A t \in Targets(handlers[p][i]) : state'[t] = "pending" /\ ~Settling(t)'
             ELSE state'[handlers[p][i].next] # "pending" \/ \A t : t = handlers[p][i].next => Settling(t)'
  <2>1. p \in 1..made
    BY <1>5, MadeBound DEF Fresh, Deferreds
  <2>2. HandlerOf(p, i)
    BY <1>5 DEF Linked
  <2>3. /\ \A t \in Targets(handlers[p][i]) : t \in 1..made /\ group[t].of = <<>>
        /\ handlers[p][i].next \in Targets(handlers[p][i])
    BY <2>2 DEF HandlerOf, Plain, Targets
  <2>4. CASE p = Top.of /\ i = Top.at
    <3>1. ~Unrun(p, i)'
      BY <2>1, <2>4, <1>5, HandlerRan
    <3>2. handlers[p][i].next = Handler.next
      BY <2>4 DEF Handler
    <3>3. QED
      BY <3>1, <3>2, HandlerJobs
  <2>5. CASE ~(p = Top.of /\ i = Top.at)
    <3>1. Unrun(p, i)' <=> Unrun(p, i)
      BY <2>1, <2>5, <1>5, HandlerRan
    <3>2. CASE Unrun(p, i)
      <4>1. SUFFICES ASSUME NEW t \in Targets(handlers[p][i])
                     PROVE  state'[t] = "pending" /\ ~Settling(t)'
        BY <3>1, <3>2
      <4>2. state[t] = "pending" /\ ~Settling(t)
        BY <3>2, <1>5 DEF SettledOnce
      <4>3. t \notin Targets(Handler)
        <5>1. Top.of \in Deferreds /\ Top.at \in DOMAIN handlers[Top.of]
          BY TopHandler
        <5>2. QED
          BY <5>1, <2>5, <1>5 DEF Linked, HandlersApart, Clash, Handler
      <4>4. QED
        BY <4>2, <4>3, <2>3, HandlerJobs, SmallerIsMade
    <3>3. CASE ~Unrun(p, i)
      <4>1. state[handlers[p][i].next] # "pending" \/ Settling(handlers[p][i].next)
        BY <3>3, <1>5 DEF SettledOnce
      <4>2. QED
        BY <3>1, <3>3, <4>1, <2>3, HandlerJobs, SmallerIsMade
    <3>4. QED
      BY <3>2, <3>3
  <2>6. QED
    BY <2>4, <2>5
<1>6. QED
  BY <1>1, <1>3, <1>4, <1>5 DEF SettledOnce, Targets

-----------------------------------------------------------------------------
(* The collector's map.                                                       *)

\* Where a deferred is among the multi-queries.
LEMMA InResults ==
  ASSUME NEW queries, NEW i \in DOMAIN queries, NEW j \in DOMAIN queries[i].results
  PROVE  queries[i].results[j] \in ResultsOf(queries)
BY DEF ResultsOf, ToSet

LEMMA PlaceOfResult ==
  ASSUME NEW queries, NEW d \in ResultsOf(queries)
  PROVE  \E i \in DOMAIN queries : \E j \in DOMAIN queries[i].results : queries[i].results[j] = d
BY DEF ResultsOf, ToSet

\* A query goes to the multi-query of its text, to the end.
LEMMA AddedToMap ==
  ASSUME queue \in Seq(MultiQueries), OneEntry, OnePlace(queue), NEW text \in DOMAIN Queries,
         NEW d \in Deferreds, d \notin ResultsOf(queue), AddToMap(text, d)
  PROVE  /\ queue' \in Seq(MultiQueries) /\ OneEntry' /\ OnePlace(queue')
         /\ ResultsOf(queue') = ResultsOf(queue) \cup {d}
         /\ \A i \in DOMAIN queue' : \A j \in DOMAIN queue'[i].results :
              \/ queue'[i].results[j] = d /\ queue'[i].query = text
              \/ \E k \in DOMAIN queue : \E l \in DOMAIN queue[k].results :
                   queue'[i].results[j] = queue[k].results[l] /\ queue'[i].query = queue[k].query
<1>0. \A i \in DOMAIN queue : queue[i].query \in DOMAIN Queries /\ queue[i].results \in Seq(Deferreds)
  <2>1. \A i \in DOMAIN queue : queue[i] \in MultiQueries
    OBVIOUS
  <2>2. QED
    BY <2>1 DEF MultiQueries
<1>1. CASE \E i \in DOMAIN queue : queue[i].query = text
  <2>1. PICK e \in DOMAIN queue : queue[e].query = text
    BY <1>1
  <2>2. \A i \in DOMAIN queue : queue[i].query = text <=> i = e
    BY <2>1 DEF OneEntry
  <2> DEFINE more == Append(queue[e].results, d)
  <2>3. /\ DOMAIN queue' = DOMAIN queue
        /\ \A i \in DOMAIN queue : queue'[i] = IF i = e THEN [query |-> text, results |-> more] ELSE queue[i]
    BY <1>1, <2>1, <2>2 DEF AddToMap
  <2>4. /\ more \in Seq(Deferreds) /\ DOMAIN more = 1..(Len(queue[e].results) + 1)
        /\ DOMAIN queue[e].results = 1..Len(queue[e].results) /\ Len(queue[e].results) \in Nat
        /\ more[Len(queue[e].results) + 1] = d
        /\ \A j \in DOMAIN queue[e].results : more[j] = queue[e].results[j]
    BY <1>0, <2>1
  <2>5. \A j \in DOMAIN more : j = Len(queue[e].results) + 1 \/ j \in DOMAIN queue[e].results
    BY <2>4
  <2> HIDE DEF more
  <2>6. queue' \in Seq(MultiQueries)
    <3>1. DOMAIN queue = 1..Len(queue) /\ Len(queue) \in Nat
      OBVIOUS
    <3>2. \A i \in DOMAIN queue : queue'[i] \in MultiQueries
      <4>1. [query |-> text, results |-> more] \in MultiQueries
        BY <2>4 DEF MultiQueries
      <4>2. \A i \in DOMAIN queue : queue[i] \in MultiQueries
        OBVIOUS
      <4>3. QED
        BY <2>3, <4>1, <4>2
    <3>3. queue' = [i \in 1..Len(queue) |-> queue'[i]]
      BY <1>1, <2>3, <3>1 DEF AddToMap
    <3>4. QED
      BY <3>1, <3>2, <3>3
  <2>7. OneEntry'
    BY <2>1, <2>3 DEF OneEntry
  <2>8. \A i \in DOMAIN queue : \A j \in DOMAIN queue'[i].results :
          \/ i = e /\ j = Len(queue[e].results) + 1 /\ queue'[i].results[j] = d /\ queue'[i].query = text
          \/ /\ j \in DOMAIN queue[i].results /\ queue'[i].results[j] = queue[i].results[j]
             /\ queue'[i].query = queue[i].query
    <3>1. queue'[e].results = more /\ queue'[e].query = text
      BY <2>1, <2>3
    <3>2. \A i \in DOMAIN queue : i # e => queue'[i] = queue[i]
      BY <2>3
    <3>3. \A j \in DOMAIN more :
            \/ j = Len(queue[e].results) + 1 /\ more[j] = d
            \/ j \in DOMAIN queue[e].results /\ more[j] = queue[e].results[j]
      BY <2>4, <2>5
    <3>4. SUFFICES ASSUME NEW i \in DOMAIN queue, NEW j \in DOMAIN queue'[i].results
                   PROVE  \/ i = e /\ j = Len(queue[e].results) + 1 /\ queue'[i].results[j] = d /\ queue'[i].query = text
                          \/ /\ j \in DOMAIN queue[i].results /\ queue'[i].results[j] = queue[i].results[j]
                             /\ queue'[i].query = queue[i].query
      OBVIOUS
    <3>5. CASE i = e
      BY <3>1, <3>3, <3>4, <3>5, <2>1
    <3>6. CASE i # e
      BY <3>2, <3>4, <3>6
    <3>7. QED
      BY <3>5, <3>6
  <2>9. OnePlace(queue')
    <3>1. SUFFICES ASSUME NEW i \in DOMAIN queue, NEW k \in DOMAIN queue,
                          NEW j \in DOMAIN queue'[i].results, NEW l \in DOMAIN queue'[k].results,
                          queue'[i].results[j] = queue'[k].results[l]
                   PROVE  i = k /\ j = l
      BY <2>3 DEF OnePlace
    <3>2. \A m \in DOMAIN queue : \A n \in DOMAIN queue[m].results : queue[m].results[n] # d
      BY InResults
    <3>3. QED
      BY <2>8, <3>1, <3>2 DEF OnePlace
  <2>10. ResultsOf(queue') = ResultsOf(queue) \cup {d}
    <3>1. \A x \in ResultsOf(queue') : x \in ResultsOf(queue) \cup {d}
      <4>1. SUFFICES ASSUME NEW i \in DOMAIN queue, NEW j \in DOMAIN queue'[i].results
                     PROVE  queue'[i].results[j] \in ResultsOf(queue) \cup {d}
        BY <2>3, PlaceOfResult
      <4>2. QED
        BY <2>8, InResults
    <3>2. \A x \in ResultsOf(queue) : x \in ResultsOf(queue')
      <4>1. SUFFICES ASSUME NEW i \in DOMAIN queue, NEW j \in DOMAIN queue[i].results
                     PROVE  queue[i].results[j] \in ResultsOf(queue')
        BY PlaceOfResult
      <4>2. j \in DOMAIN queue'[i].results /\ queue'[i].results[j] = queue[i].results[j]
        <5>1. CASE i = e
          <6>1. queue'[i].results = more
            BY <5>1, <2>3
          <6>2. QED
            BY <5>1, <6>1, <2>4
        <5>2. CASE i # e
          BY <5>2, <2>3
        <5>3. QED
          BY <5>1, <5>2
      <4>3. queue'[i].results[j] \in ResultsOf(queue')
        BY <4>2, <2>3, InResults
      <4>4. QED
        BY <4>2, <4>3
    <3>3. d \in ResultsOf(queue')
      <4>1. Len(queue[e].results) + 1 \in DOMAIN queue'[e].results /\ queue'[e].results[Len(queue[e].results) + 1] = d
        BY <2>1, <2>3, <2>4
      <4>2. QED
        BY <4>1, <2>1, <2>3, InResults
    <3>4. QED
      BY <3>1, <3>2, <3>3
  <2>11. QED
    BY <2>3, <2>6, <2>7, <2>8, <2>9, <2>10
<1>2. CASE ~\E i \in DOMAIN queue : queue[i].query = text
  <2> DEFINE entry == [query |-> text, results |-> <<d>>]
  <2>1. queue' = Append(queue, entry)
    BY <1>2 DEF AddToMap
  <2>2. entry \in MultiQueries /\ entry.query = text /\ entry.results = <<d>>
    BY DEF MultiQueries
  <2>3. DOMAIN entry.results = {1} /\ entry.results[1] = d
    BY <2>2
  <2> HIDE DEF entry
  <2>4. /\ queue' \in Seq(MultiQueries) /\ DOMAIN queue' = 1..(Len(queue) + 1)
        /\ DOMAIN queue = 1..Len(queue) /\ Len(queue) \in Nat
        /\ queue'[Len(queue) + 1] = entry /\ \A i \in DOMAIN queue : queue'[i] = queue[i]
    BY <2>1, <2>2
  <2>5. \A i \in DOMAIN queue' : i = Len(queue) + 1 \/ i \in DOMAIN queue
    BY <2>4
  <2>7. OneEntry'
    BY <1>2, <2>2, <2>4, <2>5 DEF OneEntry
  <2>8. \A i \in DOMAIN queue' : \A j \in DOMAIN queue'[i].results :
          \/ i = Len(queue) + 1 /\ j = 1 /\ queue'[i].results[j] = d /\ queue'[i].query = text
          \/ /\ i \in DOMAIN queue /\ j \in DOMAIN queue[i].results /\ queue'[i].results[j] = queue[i].results[j]
             /\ queue'[i].query = queue[i].query
    BY <2>2, <2>3, <2>4, <2>5
  <2>9. OnePlace(queue')
    <3>1. SUFFICES ASSUME NEW i \in DOMAIN queue', NEW k \in DOMAIN queue',
                          NEW j \in DOMAIN queue'[i].results, NEW l \in DOMAIN queue'[k].results,
                          queue'[i].results[j] = queue'[k].results[l]
                   PROVE  i = k /\ j = l
      BY DEF OnePlace
    <3>2. \A m \in DOMAIN queue : \A n \in DOMAIN queue[m].results : queue[m].results[n] # d
      BY InResults
    <3>3. QED
      BY <2>8, <3>1, <3>2 DEF OnePlace
  <2>10. ResultsOf(queue') = ResultsOf(queue) \cup {d}
    <3>1. \A x \in ResultsOf(queue') : x \in ResultsOf(queue) \cup {d}
      <4>1. SUFFICES ASSUME NEW i \in DOMAIN queue', NEW j \in DOMAIN queue'[i].results
                     PROVE  queue'[i].results[j] \in ResultsOf(queue) \cup {d}
        BY PlaceOfResult
      <4>2. QED
        BY <2>8, InResults
    <3>2. \A x \in ResultsOf(queue) : x \in ResultsOf(queue')
      <4>1. SUFFICES ASSUME NEW i \in DOMAIN queue, NEW j \in DOMAIN queue[i].results
                     PROVE  queue[i].results[j] \in ResultsOf(queue')
        BY PlaceOfResult
      <4>2. i \in DOMAIN queue' /\ j \in DOMAIN queue'[i].results /\ queue'[i].results[j] = queue[i].results[j]
        BY <2>4
      <4>3. queue'[i].results[j] \in ResultsOf(queue')
        BY <4>2, InResults
      <4>4. QED
        BY <4>2, <4>3
    <3>3. d \in ResultsOf(queue')
      <4>1. /\ Len(queue) + 1 \in DOMAIN queue' /\ 1 \in DOMAIN queue'[Len(queue) + 1].results
            /\ queue'[Len(queue) + 1].results[1] = d
        BY <2>3, <2>4
      <4>2. QED
        BY <4>1, InResults
    <3>4. QED
      BY <3>1, <3>2, <3>3
  <2>11. QED
    BY <2>4, <2>7, <2>8, <2>9, <2>10
<1>3. QED
  BY <1>1, <1>2

\* What a step does to the queries that wait: nothing.
QueriesKept ==
  \A d : Batched(d) =>
    /\ Batched(d)' /\ query'[d] = query[d]
    /\ state[d] = "pending" /\ ~Settling(d) => state'[d] = "pending" /\ ~Settling(d)'

LEMMA PlacedKept ==
  ASSUME Placed, QueriesKept, queue' = queue, current' = current, inserted' = inserted, evaluation' = evaluation,
         evaluation # "resolving" => \A c \in Jobs' : c.do # "count"
  PROVE  Placed'
<1>1. /\ OneEntry' /\ OnePlace(queue') /\ OnePlace(current')
      /\ ResultsOf(queue') \cap ResultsOf(current') = {}
  BY DEF Placed, OneEntry
<1>2. ASSUME NEW queries, OfTheirQuery(queries), NEW i \in DOMAIN queries, NEW j \in DOMAIN queries[i].results,
             NEW d, d = queries[i].results[j]
      PROVE  Batched(d)' /\ query'[d] = queries[i].query /\ state'[d] = "pending" /\ ~Settling(d)'
  BY <1>2 DEF OfTheirQuery, QueriesKept
<1>3. \A i \in DOMAIN queue : \A j \in DOMAIN queue[i].results : \A d : d = queue[i].results[j] =>
        Batched(d)' /\ query'[d] = queue[i].query /\ state'[d] = "pending" /\ ~Settling(d)'
  BY <1>2 DEF Placed
<1>4. \A i \in DOMAIN current : \A j \in DOMAIN current[i].results : \A d : d = current[i].results[j] =>
        Batched(d)' /\ query'[d] = current[i].query /\ state'[d] = "pending" /\ ~Settling(d)'
  BY <1>2 DEF Placed
<1>5. \A i \in DOMAIN inserted : \A d : d = inserted[i] => Batched(d)' /\ d \notin Waiting
  BY DEF Placed, QueriesKept
<1>6. Waiting' = Waiting
  BY DEF Waiting
<1>7. QED
  BY <1>1, <1>3, <1>4, <1>5, <1>6 DEF Placed, OfTheirQuery

LEMMA NoQueryIsNone == NoQuery \notin DOMAIN Queries
BY BatchAssumption DEF NoQuery

LEMMA HandlerKeeps ==
  ASSUME BatchTypeOK, OneCall, Linked, SettledOnce, Calling("handler"), Leaves, NEW new, Settles(new)
  PROVE  QueriesKept /\ \A c \in Jobs' : c.do = "count" => c \in Jobs
<1>1. ASSUME NEW d, Batched(d)
      PROVE  /\ Batched(d)' /\ query'[d] = query[d]
             /\ state[d] = "pending" /\ ~Settling(d) => state'[d] = "pending" /\ ~Settling(d)'
  <2>1. d \in 1..made' /\ query'[d] = query[d] /\ state'[d] = state[d]
    BY <1>1, SmallerIsMade DEF Batched
  <2>2. Batched(d)'
    BY <1>1, <2>1 DEF Batched
  <2>3. ~Settling(d) => ~Settling(d)'
    <3>1. \A c \in new : c.of # d
      BY <1>1, NoQueryIsNone DEF Settles, Batched
    <3>2. QED
      BY <3>1 DEF Settles, Settling
  <2>4. QED
    BY <2>1, <2>2, <2>3
<1>2. QueriesKept
  BY <1>1 DEF QueriesKept
<1>3. QED
  BY <1>2, HandlerJobs

\* A query collected: its deferred is a new one.
LEMMA Collected ==
  ASSUME BatchTypeOK, Fresh, Placed, NEW text \in DOMAIN Queries, CollectQuery(text)
  PROVE  LET d == made + 1 IN
         /\ made' = d /\ d \in Deferreds /\ d \notin 1..made /\ made' \in 0..MaxDeferreds
         /\ d \in 1..made' /\ 1..made \subseteq 1..made' /\ 1..made' = 1..made \cup {d}
         /\ query'[d] = text /\ query' \in [Deferreds -> DOMAIN Queries \cup {NoQuery}]
         /\ state' \in [Deferreds -> {"pending", "resolved", "rejected"}]
         /\ \A e \in Deferreds : e # d => query'[e] = query[e] /\ state'[e] = state[e]
         /\ d \notin ResultsOf(queue)
         /\ IF Queries[text] = "other" THEN state'[d] = "resolved" /\ queue' = queue
            ELSE state'[d] = "pending" /\ AddToMap(text, d)
<1> DEFINE d == made + 1
<1>1. /\ made \in Nat /\ MaxDeferreds \in Nat /\ d <= MaxDeferreds /\ made' = d
      /\ query' = [query EXCEPT ![d] = text]
      /\ IF Queries[text] = "other" THEN state' = [state EXCEPT ![d] = "resolved"] /\ queue' = queue
         ELSE AddToMap(text, d) /\ state' = state
  BY MadeBound DEF CollectQuery, Room
<1>2. d \in Deferreds /\ d \notin 1..made /\ made' \in 0..MaxDeferreds /\ 1..made' = 1..made \cup {d}
  BY <1>1 DEF Deferreds
<1>3. state[d] = "pending" /\ query \in [Deferreds -> DOMAIN Queries \cup {NoQuery}]
      /\ state \in [Deferreds -> {"pending", "resolved", "rejected"}]
  BY <1>1, <1>2 DEF Fresh, BatchTypeOK
<1>4. d \notin ResultsOf(queue)
  <2>1. SUFFICES ASSUME NEW i \in DOMAIN queue, NEW j \in DOMAIN queue[i].results, queue[i].results[j] = d
                 PROVE  FALSE
    BY PlaceOfResult
  <2>2. Batched(d)
    BY <2>1 DEF Placed, OfTheirQuery
  <2>3. QED
    BY <2>2, <1>2 DEF Batched
<1> HIDE DEF d
<1>5. query'[d] = text /\ query' \in [Deferreds -> DOMAIN Queries \cup {NoQuery}]
  BY <1>1, <1>2, <1>3
<1>6. state' \in [Deferreds -> {"pending", "resolved", "rejected"}]
  BY <1>1, <1>2, <1>3
<1>7. \A e \in Deferreds : e # d => query'[e] = query[e] /\ state'[e] = state[e]
  BY <1>1, <1>3
<1>8. IF Queries[text] = "other" THEN state'[d] = "resolved" /\ queue' = queue
      ELSE state'[d] = "pending" /\ AddToMap(text, d)
  BY <1>1, <1>2, <1>3
<1>9. QED
  BY <1>1, <1>2, <1>4, <1>5, <1>6, <1>7, <1>8 DEF d

LEMMA PlacedCollected ==
  ASSUME BatchTypeOK, Fresh, Placed, NEW text \in DOMAIN Queries, CollectQuery(text), QueriesKept,
         \A d : d = made + 1 => ~Settling(d)',
         current' = current, inserted' = inserted, evaluation' = evaluation,
         evaluation # "resolving" => \A c \in Jobs' : c.do # "count"
  PROVE  Placed' /\ queue' \in Seq(MultiQueries)
<1>0. PICK n : n = made + 1
  OBVIOUS
<1>1. CASE Queries[text] = "other"
  <2>1. queue' = queue
    BY <1>1, Collected
  <2>2. QED
    BY <2>1, PlacedKept DEF BatchTypeOK
<1>2. CASE Queries[text] # "other"
  <2>1. /\ n \in Deferreds /\ n \notin 1..made /\ n \in 1..made' /\ query'[n] = text /\ state'[n] = "pending"
        /\ n \notin ResultsOf(queue) /\ AddToMap(text, n)
    BY <1>0, <1>2, Collected
  <2>2. OneEntry /\ OnePlace(queue) /\ queue \in Seq(MultiQueries)
    BY DEF Placed, BatchTypeOK
  <2>3. /\ queue' \in Seq(MultiQueries) /\ OneEntry' /\ OnePlace(queue')
        /\ ResultsOf(queue') = ResultsOf(queue) \cup {n}
        /\ \A i \in DOMAIN queue' : \A j \in DOMAIN queue'[i].results :
             \/ queue'[i].results[j] = n /\ queue'[i].query = text
             \/ \E k \in DOMAIN queue : \E l \in DOMAIN queue[k].results :
                  queue'[i].results[j] = queue[k].results[l] /\ queue'[i].query = queue[k].query
    BY <2>1, <2>2, AddedToMap
  <2>4. Batched(n)' /\ ~Settling(n)'
    BY <1>0, <1>2, <2>1 DEF Batched
  <2>5. OfTheirQuery(queue) /\ OfTheirQuery(current)
    BY DEF Placed
  <2>6. \A i \in DOMAIN queue : \A j \in DOMAIN queue[i].results : \A d : d = queue[i].results[j] =>
          Batched(d)' /\ query'[d] = queue[i].query /\ state'[d] = "pending" /\ ~Settling(d)'
    BY <2>5 DEF OfTheirQuery, QueriesKept
  <2>7. \A i \in DOMAIN current : \A j \in DOMAIN current[i].results : \A d : d = current[i].results[j] =>
          Batched(d)' /\ query'[d] = current[i].query /\ state'[d] = "pending" /\ ~Settling(d)'
    BY <2>5 DEF OfTheirQuery, QueriesKept
  <2>8. \A i \in DOMAIN queue' : \A j \in DOMAIN queue'[i].results : \A d : d = queue'[i].results[j] =>
          Batched(d)' /\ query'[d] = queue'[i].query /\ state'[d] = "pending" /\ ~Settling(d)'
    BY <2>1, <2>3, <2>4, <2>6
  <2>9. \A i \in DOMAIN inserted : \A d : d = inserted[i] => Batched(d)' /\ d \notin Waiting /\ d # n
    BY <2>1 DEF Placed, QueriesKept, Batched
  <2>10. n \notin ResultsOf(current)
    <3>1. \A i \in DOMAIN current : \A j \in DOMAIN current[i].results : current[i].results[j] # n
      BY <2>1, <2>5 DEF OfTheirQuery, Batched
    <3>2. QED
      BY <3>1, PlaceOfResult
  <2>11. ResultsOf(queue') \cap ResultsOf(current') = {} /\ Waiting' = Waiting \cup {n}
    BY <2>3, <2>10 DEF Placed, Waiting
  <2>12. OfTheirQuery(queue)' /\ OfTheirQuery(current)'
    BY <2>7, <2>8 DEF OfTheirQuery
  <2>13. QED
    BY <2>3, <2>9, <2>11, <2>12 DEF Placed
<1>3. QED
  BY <1>1, <1>2

\* No call is for a deferred that is not made.
LEMMA NewIsQuiet ==
  ASSUME BatchTypeOK, NEW d, d \notin 1..made
  PROVE  ~Settling(d)
BY DEF BatchTypeOK, IsCall, Jobs, Settling

LEMMA HandlerPlaced ==
  ASSUME IInv, RunHandler
  PROVE  Placed' /\ queue' \in Seq(MultiQueries)
<1>1. /\ BatchTypeOK /\ OneCall /\ Linked /\ SettledOnce /\ Calling("handler") /\ Fresh /\ Placed
  BY DEF IInv, RunHandler, Returns, Raises, Collects, ResolvesRows, Gathers, GathersError
<1>2. PICK new : CallsOK' /\ Leaves /\ Settles(new)
  BY HandlerRuns
<1>3. QueriesKept /\ \A c \in Jobs' : c.do = "count" => c \in Jobs
  BY <1>1, <1>2, HandlerKeeps
<1>4. evaluation # "resolving" => \A c \in Jobs' : c.do # "count"
  BY <1>1, <1>3 DEF Placed
<1>5. CASE Collects
  <2>1. /\ Handler.cb.does \in DOMAIN Queries /\ CollectQuery(Handler.cb.does)
        /\ current' = current /\ evaluation' = evaluation /\ inserted' = inserted
    BY <1>5 DEF Collects
  <2>2. \A d : d = made + 1 => ~Settling(d)'
    <3>1. SUFFICES ASSUME NEW d, d = made + 1, Settling(d)' PROVE FALSE
      OBVIOUS
    <3>2. d \notin 1..made
      BY <3>1, <2>1, <1>1, Collected
    <3>3. \A c \in new : c.of # d
      BY <3>2, <1>2 DEF Settles
    <3>4. Settling(d)
      BY <3>1, <3>3, <1>2 DEF Settles, Settling
    <3>5. QED
      BY <3>2, <3>4, <1>1, NewIsQuiet
  <2>3. QED
    BY <1>1, <2>1, <1>3, <1>4, <2>2, PlacedCollected
<1>6. CASE ~Collects
  <2>1. queue' = queue /\ current' = current /\ inserted' = inserted /\ evaluation' = evaluation
    BY <1>6 DEF RunHandler, Returns, Raises, ResolvesRows, Gathers, GathersError, collectorVars
  <2>2. QED
    BY <1>1, <1>3, <1>4, <2>1, PlacedKept DEF BatchTypeOK
<1>7. QED
  BY <1>5, <1>6

LEMMA HandlerTypeOK ==
  ASSUME IInv, RunHandler
  PROVE  BatchTypeOK'
<1>1. /\ BatchTypeOK /\ OneCall /\ Linked /\ SettledOnce /\ Calling("handler") /\ Fresh /\ Placed
  BY DEF IInv, RunHandler, Returns, Raises, Collects, ResolvesRows, Gathers, GathersError
<1>2. PICK new : CallsOK' /\ Leaves /\ Settles(new)
  BY HandlerRuns
<1>3. calls' \in Seq(ToSet(calls')) /\ (\A c \in Jobs' : IsCall(c)') /\ handlers' = handlers /\ value' = value
  BY <1>1, <1>2, CallsStay DEF CallsOK, Leaves
<1>4. made' \in 0..MaxDeferreds
  BY <1>2 DEF Leaves
<1>5. CASE Returns \/ ResolvesRows
  BY <1>1, <1>3, <1>4, <1>5 DEF Returns, ResolvesRows, BatchTypeOK, deferredVars, collectorVars, Jobs
<1>6. CASE Raises
  BY <1>1, <1>3, <1>4, <1>6 DEF Raises, BatchTypeOK, collectorVars, Jobs
<1>7. CASE Collects
  <2>1. /\ Handler.cb.does \in DOMAIN Queries /\ CollectQuery(Handler.cb.does)
        /\ raised' = raised /\ group' = group
        /\ current' = current /\ evaluation' = evaluation /\ failed' = failed /\ inserted' = inserted /\ lost' = lost
    BY <1>7 DEF Collects
  <2>2. /\ query' \in [Deferreds -> DOMAIN Queries \cup {NoQuery}]
        /\ state' \in [Deferreds -> {"pending", "resolved", "rejected"}]
    BY <1>1, <2>1, Collected
  <2>3. queue' \in Seq(MultiQueries)
    BY HandlerPlaced
  <2>4. QED
    BY <1>1, <1>3, <1>4, <2>1, <2>2, <2>3 DEF BatchTypeOK, Jobs
<1>8. CASE Gathers
  <2>1. DOMAIN group' = Deferreds
    BY <1>1, GathersIs, <1>8 DEF BatchTypeOK
  <2>2. \A r \in Deferreds : IsGroup(group'[r])
    <3>1. SUFFICES ASSUME NEW r \in Deferreds PROVE IsGroup(group'[r])
      OBVIOUS
    <3>2. CASE r = Handler.cb.of
      BY <3>2, GathersIs, <1>8
    <3>3. CASE r # Handler.cb.of
      <4>1. group'[r] = group[r]
        BY <3>3, GathersIs, <1>8
      <4>2. QED
        BY <4>1, <1>1 DEF BatchTypeOK
    <3>4. QED
      BY <3>2, <3>3
  <2>3. QED
    BY <1>1, <1>3, <1>4, <1>8, <2>1, <2>2 DEF Gathers, BatchTypeOK, collectorVars, Jobs
<1>9. CASE GathersError
  <2>1. DOMAIN group' = Deferreds
    BY GathersErrorIs, <1>9
  <2>2. \A r \in Deferreds : IsGroup(group'[r])
    <3>1. SUFFICES ASSUME NEW r \in Deferreds PROVE IsGroup(group'[r])
      OBVIOUS
    <3>2. CASE r = Handler.cb.of
      BY <3>2, GathersErrorIs, RejectedIs, <1>9
    <3>3. CASE r # Handler.cb.of
      <4>1. group'[r] = group[r]
        BY <3>3, GathersErrorIs, <1>9
      <4>2. QED
        BY <4>1, <1>1 DEF BatchTypeOK
    <3>4. QED
      BY <3>2, <3>3
  <2>3. QED
    BY <1>1, <1>3, <1>4, <1>9, <2>1, <2>2 DEF GathersError, BatchTypeOK, collectorVars, Jobs
<1>10. QED
  BY <1>5, <1>6, <1>7, <1>8, <1>9 DEF RunHandler

LEMMA HandlerFresh ==
  ASSUME IInv, RunHandler
  PROVE  Fresh'
<1>1. BatchTypeOK /\ Fresh /\ Placed
  BY DEF IInv
<1>2. Leaves
  BY HandlerRuns
<1>3. SUFFICES ASSUME NEW d \in Deferreds, d > made'
               PROVE  /\ query'[d] = NoQuery /\ state'[d] = "pending" /\ value'[d] = NoRow
                      /\ handlers'[d] = <<>> /\ group'[d].of = <<>>
  BY DEF Fresh
<1>5. d > made
  BY <1>1, <1>2, <1>3, MadeBound DEF Leaves, Deferreds
<1>6. value'[d] = NoRow /\ handlers'[d] = <<>> /\ group'[d].of = <<>>
  BY <1>1, <1>2, <1>5 DEF Fresh, Leaves
<1>7. query'[d] = query[d] /\ state'[d] = state[d]
  <2>1. CASE Collects
    <3>1. Handler.cb.does \in DOMAIN Queries /\ CollectQuery(Handler.cb.does)
      BY <2>1 DEF Collects
    <3>2. d # made + 1
      BY <1>1, <1>3, <3>1, Collected, MadeBound DEF Deferreds
    <3>3. QED
      BY <1>1, <3>1, <3>2, Collected
  <2>2. CASE ~Collects
    BY <2>2 DEF RunHandler, Returns, Raises, ResolvesRows, Gathers, GathersError, deferredVars
  <2>3. QED
    BY <2>1, <2>2
<1>8. QED
  BY <1>1, <1>5, <1>6, <1>7 DEF Fresh

\* What is said of the queries' answers, when nothing or one query is new.
LEMMA AnsweredKept ==
  ASSUME BatchTypeOK, Answered,
         \A d \in 1..made : /\ query'[d] = query[d] /\ state'[d] = state[d] /\ value'[d] = value[d]
                            /\ group'[d].of = group[d].of /\ (Settling(d) => Settling(d)'),
         Waiting \subseteq Waiting', lost' = lost, inserted' = inserted
  PROVE  \A d \in 1..made : (query'[d] # NoQuery) =>
           /\ group'[d].of = <<>>
           /\ Queries[query'[d]] = "other" => state'[d] = "resolved"
           /\ Queries[query'[d]] # "other" =>
                \/ d \in Waiting'
                \/ d \in lost'
                \/ d \in ToSet(inserted') /\ (state'[d] # "pending" \/ Settling(d)')
           /\ state'[d] # "pending" =>
                /\ state'[d] = "resolved"
                /\ value'[d] = IF Queries[query'[d]] = "autoincrement" THEN Row(d) ELSE NoRow
BY DEF Answered, IsQuery, Right

LEMMA AnsweredCollected ==
  ASSUME BatchTypeOK, Fresh, Placed, Answered, NEW text \in DOMAIN Queries, CollectQuery(text),
         value' = value, group' = group, current' = current, lost' = lost, inserted' = inserted,
         \A d : Settling(d) => Settling(d)',
         \A c \in Jobs' : c.do = "settle" /\ query'[c.of] # NoQuery =>
           c = SettleCall(c.of, "resolved", IF Queries[query'[c.of]] = "autoincrement" THEN Row(c.of) ELSE NoRow)
  PROVE  Answered'
<1>0. PICK n : n = made + 1
  OBVIOUS
<1>1. /\ n \in Deferreds /\ n \notin 1..made /\ query'[n] = text /\ 1..made' = 1..made \cup {n}
      /\ \A e \in Deferreds : e # n => query'[e] = query[e] /\ state'[e] = state[e]
      /\ n \notin ResultsOf(queue)
      /\ IF Queries[text] = "other" THEN state'[n] = "resolved" /\ queue' = queue
         ELSE state'[n] = "pending" /\ AddToMap(text, n)
  BY <1>0, Collected
<1>2. Queries[text] # "other" => ResultsOf(queue') = ResultsOf(queue) \cup {n}
  BY <1>1, AddedToMap DEF Placed, BatchTypeOK
<1>3. Waiting \subseteq Waiting' /\ (Queries[text] # "other" => n \in Waiting')
  BY <1>1, <1>2 DEF Waiting
<1>4. n > made
  BY <1>0, MadeBound
<1>5. value'[n] = NoRow /\ group'[n].of = <<>>
  BY <1>1, <1>4 DEF Fresh
<1>6. \A d \in 1..made : /\ query'[d] = query[d] /\ state'[d] = state[d] /\ value'[d] = value[d]
                         /\ group'[d].of = group[d].of /\ (Settling(d) => Settling(d)')
  BY <1>1, MadeBound
<1>7. \A d \in 1..made : (query'[d] # NoQuery) =>
        /\ group'[d].of = <<>>
        /\ Queries[query'[d]] = "other" => state'[d] = "resolved"
        /\ Queries[query'[d]] # "other" =>
             \/ d \in Waiting'
             \/ d \in lost'
             \/ d \in ToSet(inserted') /\ (state'[d] # "pending" \/ Settling(d)')
        /\ state'[d] # "pending" =>
             /\ state'[d] = "resolved"
             /\ value'[d] = IF Queries[query'[d]] = "autoincrement" THEN Row(d) ELSE NoRow
  BY <1>3, <1>6, AnsweredKept
<1>8. /\ group'[n].of = <<>>
      /\ Queries[query'[n]] = "other" => state'[n] = "resolved"
      /\ Queries[query'[n]] # "other" => n \in Waiting'
      /\ state'[n] # "pending" =>
           /\ state'[n] = "resolved"
           /\ value'[n] = IF Queries[query'[n]] = "autoincrement" THEN Row(n) ELSE NoRow
  BY <1>1, <1>3, <1>5
<1>9. QED
  BY <1>1, <1>7, <1>8 DEF Answered, IsQuery, Right, ResolveCall

LEMMA HandlerAnswered ==
  ASSUME IInv, RunHandler
  PROVE  Answered'
<1>1. /\ BatchTypeOK /\ OneCall /\ Linked /\ SettledOnce /\ Calling("handler") /\ Fresh /\ Placed /\ Answered
  BY DEF IInv, RunHandler, Returns, Raises, Collects, ResolvesRows, Gathers, GathersError
<1>2. PICK new : CallsOK' /\ Leaves /\ Settles(new)
  BY HandlerRuns
<1>3. ASSUME NEW c \in Jobs', c.do = "settle", query'[c.of] # NoQuery
      PROVE  c = SettleCall(c.of, "resolved", IF Queries[query'[c.of]] = "autoincrement" THEN Row(c.of) ELSE NoRow)
  <2>1. CASE c \in new
    BY <2>1, <1>1, <1>2, <1>3, SmallerIsMade DEF Settles
  <2>2. CASE c \in Jobs
    <3>1. c.of \in 1..made
      BY <2>2, <1>1 DEF BatchTypeOK, IsCall, Jobs
    <3>2. query'[c.of] = query[c.of]
      BY <3>1, <1>1, <1>2, SmallerIsMade
    <3>3. QED
      BY <3>2, <2>2, <1>1, <1>3 DEF Answered, IsQuery, Right, ResolveCall
  <2>3. QED
    BY <2>1, <2>2, <1>2 DEF Settles
<1>4. \A d \in 1..made : /\ query'[d] = query[d] /\ state'[d] = state[d] /\ value'[d] = value[d]
                         /\ group'[d].of = group[d].of /\ (Settling(d) => Settling(d)')
  <2>1. \A d \in 1..made : query'[d] = query[d] /\ state'[d] = state[d] /\ d \in Deferreds
    BY <1>1, <1>2, SmallerIsMade
  <2>2. \A d : Settling(d) => Settling(d)'
    BY <1>1, <1>2, HandlerJobs
  <2>3. QED
    BY <2>1, <2>2, <1>2 DEF Leaves
<1>5. lost' = lost /\ inserted' = inserted
  BY DEF RunHandler, Returns, Raises, Collects, ResolvesRows, Gathers, GathersError, collectorVars
<1>6. CASE Collects
  <2>1. /\ Handler.cb.does \in DOMAIN Queries /\ CollectQuery(Handler.cb.does)
        /\ current' = current /\ value' = value /\ group' = group
    BY <1>6 DEF Collects
  <2>2. \A d : Settling(d) => Settling(d)'
    BY <1>1, <1>2, HandlerJobs
  <2>3. QED
    BY <1>1, <1>3, <1>5, <2>1, <2>2, AnsweredCollected
<1>7. CASE ~Collects
  <2>1. made' = made /\ query' = query /\ Waiting \subseteq Waiting'
    BY <1>7 DEF RunHandler, Returns, Raises, ResolvesRows, Gathers, GathersError, deferredVars, collectorVars, Waiting
  <2>2. QED
    BY <1>1, <1>3, <1>4, <1>5, <2>1, AnsweredKept DEF Answered, IsQuery, Right, ResolveCall
<1>8. QED
  BY <1>6, <1>7

\* A step that does not touch a group keeps what is said of it.
LEMMA GroupKept ==
  ASSUME NEW r, GroupOf(r), group'[r] = group[r], 1..made \subseteq 1..made',
         \A i \in DOMAIN group[r].of : AwaitCall(r, i) \in Jobs' <=> ~Hung(r, i)',
         \A i \in DOMAIN group[r].of : Passed(r, i)' <=> Passed(r, i),
         \A i \in AllPassed(r) : /\ state'[group[r].of[i]] = state[group[r].of[i]]
                                 /\ value'[group[r].of[i]] = value[group[r].of[i]],
         state'[r] = state[r], value'[r] = value[r],
         \A c \in Jobs : c.do = "settle" /\ c.of = r => c \in Jobs',
         Settling(r)' => Settling(r)
  PROVE  GroupOf(r)'
<1>1. AllPassed(r)' = AllPassed(r)
  BY DEF AllPassed
<1>2. ASSUME NEW how, NEW v, SettleCall(r, how, v) \in Jobs PROVE SettleCall(r, how, v) \in Jobs'
  BY <1>2, SettleFields
<1>3. \A i \in DOMAIN group[r].of : group[r].of[i] \in 1..made'
  BY DEF GroupOf
<1>4. group[r].rejected <=> \E i \in AllPassed(r) : state'[group[r].of[i]] = "rejected"
  BY DEF GroupOf
<1>5. ~group[r].rejected => /\ group[r].count = Cardinality(AllPassed(r))
                            /\ \A i \in AllPassed(r) : group[r].values[i] = value'[group[r].of[i]]
  BY DEF GroupOf
<1>6. group[r].rejected => state'[r] = "rejected" \/ RejectCall(r) \in Jobs'
  BY <1>2 DEF GroupOf, RejectCall
<1>7. ~group[r].rejected /\ group[r].count = Len(group[r].of) =>
        \/ state'[r] = "resolved" /\ value'[r] = ListOf(group[r].values)
        \/ ResolveCall(r, ListOf(group[r].values)) \in Jobs'
  BY <1>2 DEF GroupOf, ResolveCall
<1>8. ~group[r].rejected /\ group[r].count # Len(group[r].of) => state'[r] = "pending" /\ ~Settling(r)'
  BY DEF GroupOf
<1>9. QED
  BY <1>1, <1>3, <1>4, <1>5, <1>6, <1>7, <1>8 DEF GroupOf

LEMMA AllFields ==
  ASSUME NEW r, NEW i
  PROVE  /\ AllCallback(r, i).does = "all" /\ AllCallback(r, i).of = r /\ AllCallback(r, i).index = i
         /\ AwaitCall(r, i).do = "await" /\ AwaitCall(r, i).of = r /\ AwaitCall(r, i).at = i
BY DEF AllCallback, AwaitCall

\* A callback of all() has run when it is the one on top.
LEMMA HandlerPassed ==
  ASSUME BatchTypeOK, OneCall, Linked, SettledOnce, Calling("handler"), Leaves, NEW new, Settles(new),
         NEW r \in 1..made, NEW i \in DOMAIN group[r].of, group[r].of[i] \in 1..made
  PROVE  /\ Passed(r, i)' <=> Passed(r, i) \/ Handler.cb = AllCallback(r, i)
         /\ Hung(r, i)' <=> Hung(r, i)
         /\ AwaitCall(r, i) \in Jobs' <=> AwaitCall(r, i) \in Jobs
<1>1. r \in Deferreds /\ handlers' = handlers /\ group'[r].of = group[r].of
  BY MadeBound DEF Leaves
<1>2. PICK p : p = group[r].of[i]
  OBVIOUS
<1>3. p \in Deferreds /\ p \in 1..made
  BY <1>2, MadeBound
<1>4. Passed(r, i)' <=> \E j \in DOMAIN handlers[p] : handlers[p][j].cb = AllCallback(r, i) /\ ~Unrun(p, j)'
  BY <1>1, <1>2 DEF Passed
<1>5. \A j \in DOMAIN handlers[p] : Unrun(p, j)' <=> Unrun(p, j) /\ ~(p = Top.of /\ j = Top.at)
  BY <1>3, HandlerRan
<1>6. ASSUME Handler.cb = AllCallback(r, i) PROVE p = Top.of /\ Top.at \in DOMAIN handlers[p] /\ handlers[p][Top.at].cb = AllCallback(r, i)
  <2>1. HandlerOf(Top.of, Top.at) /\ Top.at \in DOMAIN handlers[Top.of] /\ Handler = handlers[Top.of][Top.at]
    BY TopHandler DEF Handler
  <2>2. group[r].of[i] = Top.of
    BY <2>1, <1>6, AllFields DEF HandlerOf
  <2>3. QED
    BY <2>1, <2>2, <1>2, <1>6
<1>7. Passed(r, i)' <=> Passed(r, i) \/ Handler.cb = AllCallback(r, i)
  BY <1>2, <1>4, <1>5, <1>6 DEF Passed, Handler
<1>8. Hung(r, i)' <=> Hung(r, i)
  BY <1>1, <1>2 DEF Hung
<1>9. AwaitCall(r, i) \in Jobs' <=> AwaitCall(r, i) \in Jobs
  <2>1. AwaitCall(r, i) # Top
    BY AllFields DEF Calling
  <2>2. QED
    BY <2>1, AllFields, HandlerJobs
<1>10. QED
  BY <1>7, <1>8, <1>9

LEMMA HandlerGroupKept ==
  ASSUME BatchTypeOK, OneCall, Linked, SettledOnce, Calling("handler"), Leaves, NEW new, Settles(new),
         NEW r \in 1..made, group[r].of # <<>>, GroupOf(r), group'[r] = group[r],
         Handler.cb.does = "all" => Handler.cb.of # r
  PROVE  GroupOf(r)'
<1>1. 1..made \subseteq 1..made' /\ value' = value /\ state'[r] = state[r]
  BY SmallerIsMade DEF Leaves
<1>2. \A i \in DOMAIN group[r].of : group[r].of[i] \in 1..made
  BY DEF GroupOf
<1>3. \A i \in DOMAIN group[r].of : Handler.cb # AllCallback(r, i)
  BY AllFields
<1>4. \A i \in DOMAIN group[r].of : Passed(r, i)' <=> Passed(r, i)
  BY <1>2, <1>3, HandlerPassed
<1>5. \A i \in DOMAIN group[r].of : AwaitCall(r, i) \in Jobs' <=> ~Hung(r, i)'
  BY <1>2, HandlerPassed DEF GroupOf
<1>6. \A i \in AllPassed(r) : state'[group[r].of[i]] = state[group[r].of[i]]
  BY <1>2, SmallerIsMade DEF AllPassed
<1>7. \A c \in Jobs : c.do = "settle" /\ c.of = r => c \in Jobs'
  BY HandlerJobs
<1>8. Settling(r)' => Settling(r)
  <2>1. r \notin Targets(Handler)
    BY TopHandler DEF HandlerOf, Handler, Plain
  <2>2. QED
    BY <2>1, HandlerJobs
<1>9. QED
  BY <1>1, <1>4, <1>5, <1>6, <1>7, <1>8, GroupKept

\* What a callback of all() does to what is said of its group.
LEMMA GathersGroup ==
  ASSUME IInv, Gathers \/ GathersError, NEW r, r = Handler.cb.of, NEW i, i = Handler.cb.index
  PROVE  /\ r \in 1..made /\ r \in 1..made'
         /\ \A k \in DOMAIN group[r].of : group[r].of[k] \in 1..made /\ group[r].of[k] \in 1..made'
         /\ group'[r].of = group[r].of
         /\ i \in DOMAIN group[r].of /\ group[r].of[i] = Top.of /\ i \notin AllPassed(r)
         /\ AllPassed(r)' = AllPassed(r) \cup {i}
         /\ \A k \in DOMAIN group[r].of : AwaitCall(r, k) \in Jobs' <=> ~Hung(r, k)'
         /\ \A k \in DOMAIN group[r].of : state'[group[r].of[k]] = state[group[r].of[k]]
         /\ state'[r] = state[r] /\ value' = value
         /\ \A c \in Jobs : c.do = "settle" => c \in Jobs'
<1>1. /\ BatchTypeOK /\ OneCall /\ Linked /\ SettledOnce /\ Calling("handler") /\ Handler.cb.does = "all" /\ RunHandler
  BY DEF IInv, RunHandler, Gathers, GathersError
<1>2. PICK new : CallsOK' /\ Leaves /\ Settles(new)
  BY HandlerRuns, <1>1
<1>3. /\ r \in 1..made /\ r \in Deferreds /\ GroupOf(r)
      /\ Handler.cb = AllCallback(r, i) /\ i \in DOMAIN group[r].of /\ group[r].of[i] = Top.of
      /\ ~Passed(r, i)
  BY <1>1, NotYetAll
<1>4. /\ \A k \in DOMAIN group[r].of : group[r].of[k] \in 1..made
      /\ group'[r].of = group[r].of /\ value' = value
  BY <1>2, <1>3 DEF GroupOf, Leaves
<1>5. \A k \in DOMAIN group[r].of :
        /\ Passed(r, k)' <=> Passed(r, k) \/ Handler.cb = AllCallback(r, k)
        /\ AwaitCall(r, k) \in Jobs' <=> ~Hung(r, k)'
  BY <1>1, <1>2, <1>3, <1>4, HandlerPassed DEF GroupOf
<1>6. \A k \in DOMAIN group[r].of : Handler.cb = AllCallback(r, k) <=> k = i
  BY <1>3, AllFields
<1>7. AllPassed(r)' = AllPassed(r) \cup {i}
  BY <1>3, <1>4, <1>5, <1>6 DEF AllPassed
<1>8. /\ \A k \in DOMAIN group[r].of : state'[group[r].of[k]] = state[group[r].of[k]] /\ group[r].of[k] \in 1..made'
      /\ state'[r] = state[r] /\ r \in 1..made'
  BY <1>1, <1>2, <1>3, <1>4, SmallerIsMade
<1>9. \A c \in Jobs : c.do = "settle" => c \in Jobs'
  BY <1>1, <1>2, HandlerJobs
<1>10. i \notin AllPassed(r)
  BY <1>3 DEF AllPassed
<1>11. QED
  BY <1>3, <1>4, <1>5, <1>7, <1>8, <1>9, <1>10

LEMMA SettleStays ==
  ASSUME NEW r, NEW how, NEW v, SettleCall(r, how, v) \in Jobs,
         \A c \in Jobs : c.do = "settle" => c \in Jobs'
  PROVE  SettleCall(r, how, v) \in Jobs'
BY SettleFields

LEMMA GathersGrouped ==
  ASSUME IInv, Gathers
  PROVE  \A r : r = Handler.cb.of => GroupOf(r)'
<1>1. SUFFICES ASSUME NEW r, r = Handler.cb.of PROVE GroupOf(r)'
  OBVIOUS
<1>2. PICK i : i = Handler.cb.index
  OBVIOUS
<1>3. /\ r \in 1..made /\ \A k \in DOMAIN group[r].of : group[r].of[k] \in 1..made'
      /\ group'[r].of = group[r].of
      /\ i \in DOMAIN group[r].of /\ group[r].of[i] = Top.of /\ i \notin AllPassed(r)
      /\ AllPassed(r)' = AllPassed(r) \cup {i}
      /\ \A k \in DOMAIN group[r].of : AwaitCall(r, k) \in Jobs' <=> ~Hung(r, k)'
      /\ \A k \in DOMAIN group[r].of : state'[group[r].of[k]] = state[group[r].of[k]]
      /\ state'[r] = state[r] /\ value' = value
      /\ \A c \in Jobs : c.do = "settle" => c \in Jobs'
  BY <1>1, <1>2, GathersGroup
<1>4. /\ Calling("handler") /\ Handler.cb.does = "all" /\ state[Top.of] = "resolved"
  BY DEF Gathers, Succeeds
<1>5. /\ GroupOf(r) /\ IsGroup(group[r])
      /\ ~group[r].rejected => group[r].count # Len(group[r].of) /\ state[r] = "pending" /\ ~Settling(r)
  BY <1>1, <1>4, NotYetAll
<1>6. /\ group'[r].rejected = group[r].rejected
      /\ group'[r] = IF group[r].rejected THEN group[r] ELSE Gathered(group[r], i, value[Top.of])
  BY <1>1, <1>2, GathersIs
<1>7. AllPassed(r) \subseteq DOMAIN group[r].of
  BY DEF AllPassed
<1>8. group[r].rejected <=> \E k \in AllPassed(r)' : state'[group[r].of[k]] = "rejected"
  BY <1>3, <1>4, <1>5, <1>7 DEF GroupOf
<1>9. CASE group[r].rejected
  <2>1. group'[r] = group[r]
    BY <1>6, <1>9
  <2>2. state[r] = "rejected" \/ RejectCall(r) \in Jobs
    BY <1>5, <1>9 DEF GroupOf
  <2>3. state'[r] = "rejected" \/ RejectCall(r) \in Jobs'
    BY <2>2, <1>3, SettleStays DEF RejectCall
  <2>4. QED
    BY <2>1, <2>3, <1>3, <1>8, <1>9 DEF GroupOf
<1>10. CASE ~group[r].rejected
  <2>1. /\ group'[r].count = group[r].count + 1 /\ group'[r].values[i] = value[Top.of]
        /\ \A k \in DOMAIN group[r].of : k # i => group'[r].values[k] = group[r].values[k]
    <3>1. PICK v : v = value[Top.of]
      OBVIOUS
    <3>2. group'[r] = Gathered(group[r], i, v)
      BY <3>1, <1>6, <1>10
    <3>3. IsGroup(group[r]) /\ i \in DOMAIN group[r].of
      BY <1>3, <1>5
    <3>4. PICK g : g = group[r]
      OBVIOUS
    <3>5. LET h == Gathered(g, i, v) IN
            /\ h.count = g.count + 1 /\ h.values[i] = v
            /\ \A k \in DOMAIN g.of : k # i => h.values[k] = g.values[k]
      BY <3>3, <3>4, GatheredIs
    <3>6. QED
      BY <3>1, <3>2, <3>4, <3>5
  <2>2. Cardinality(AllPassed(r)') = Cardinality(AllPassed(r)) + 1
    <3>1. IsFiniteSet(AllPassed(r))
      <4>1. DOMAIN group[r].of = 1..Len(group[r].of) /\ Len(group[r].of) \in Nat
        BY <1>5 DEF IsGroup
      <4>2. IsFiniteSet(1..Len(group[r].of))
        BY <4>1, FS_Interval
      <4>3. QED
        BY <4>1, <4>2, <1>7, FS_Subset
    <3>2. QED
      BY <3>1, <1>3, FS_AddElement
  <2>3. group'[r].count = Cardinality(AllPassed(r)')
    BY <2>1, <2>2, <1>5, <1>10 DEF GroupOf
  <2>4. \A k \in AllPassed(r)' : group'[r].values[k] = value'[group[r].of[k]]
    BY <2>1, <1>3, <1>5, <1>7, <1>10 DEF GroupOf
  <2>5. PICK new : /\ Settles(new)
                   /\ IF ~group'[r].rejected /\ group'[r].count = Len(group'[r].of)
                      THEN ResolveCall(r, ListOf(group'[r].values)) \in new
                      ELSE \A c \in new : c.of = Handler.next
    BY <1>1, GathersRuns
  <2>6. group'[r].count = Len(group'[r].of) => ResolveCall(r, ListOf(group'[r].values)) \in Jobs'
    BY <2>5, <1>6, <1>10 DEF Settles
  <2>7. group'[r].count # Len(group'[r].of) => state'[r] = "pending" /\ ~Settling(r)'
    <3>1. SUFFICES ASSUME group'[r].count # Len(group'[r].of) PROVE state'[r] = "pending" /\ ~Settling(r)'
      OBVIOUS
    <3>2. \A c \in new : c.of = Handler.next
      BY <2>5, <3>1
    <3>3. r # Handler.next
      <4>1. group[Handler.next].of = <<>>
        BY <1>4, TopHandler DEF IInv, HandlerOf, Handler, Plain, Targets
      <4>2. QED
        BY <4>1, <1>3
    <3>4. QED
      BY <3>2, <3>3, <2>5, <1>3, <1>5, <1>10 DEF Settles, Settling
  <2>8. QED
    BY <2>3, <2>4, <2>6, <2>7, <1>3, <1>6, <1>8, <1>10 DEF GroupOf
<1>11. QED
  BY <1>9, <1>10

LEMMA GathersErrorGrouped ==
  ASSUME IInv, GathersError
  PROVE  \A r : r = Handler.cb.of => GroupOf(r)'
<1>1. SUFFICES ASSUME NEW r, r = Handler.cb.of PROVE GroupOf(r)'
  OBVIOUS
<1>2. PICK i : i = Handler.cb.index
  OBVIOUS
<1>3. /\ r \in 1..made /\ \A k \in DOMAIN group[r].of : group[r].of[k] \in 1..made'
      /\ group'[r].of = group[r].of
      /\ i \in DOMAIN group[r].of /\ group[r].of[i] = Top.of
      /\ AllPassed(r)' = AllPassed(r) \cup {i}
      /\ \A k \in DOMAIN group[r].of : AwaitCall(r, k) \in Jobs' <=> ~Hung(r, k)'
      /\ \A k \in DOMAIN group[r].of : state'[group[r].of[k]] = state[group[r].of[k]]
      /\ state'[r] = state[r]
      /\ \A c \in Jobs : c.do = "settle" => c \in Jobs'
  BY <1>1, <1>2, GathersGroup
<1>4. state[Top.of] = "rejected"
  <2>1. Calling("handler") /\ state[Top.of] # "resolved" /\ BatchTypeOK /\ OneCall /\ Linked /\ SettledOnce
    BY DEF GathersError, Succeeds, IInv
  <2>2. state[Top.of] # "pending" /\ Top.of \in Deferreds
    BY <2>1, TopHandler
  <2>3. QED
    BY <2>1, <2>2 DEF BatchTypeOK
<1>5. GroupOf(r)
  BY <1>1, NotYetAll DEF GathersError
<1>6. group'[r].rejected
  BY <1>1, GathersErrorIs, RejectedIs
<1>7. \E k \in AllPassed(r)' : state'[group[r].of[k]] = "rejected"
  BY <1>3, <1>4
<1>8. state'[r] = "rejected" \/ RejectCall(r) \in Jobs'
  <2>1. CASE group[r].rejected
    <3>1. state[r] = "rejected" \/ RejectCall(r) \in Jobs
      BY <1>5, <2>1 DEF GroupOf
    <3>2. QED
      BY <3>1, <1>3, SettleStays DEF RejectCall
  <2>2. CASE ~group[r].rejected
    BY <2>2, <1>1, GathersErrorRuns DEF Settles
  <2>3. QED
    BY <2>1, <2>2
<1>9. QED
  BY <1>3, <1>6, <1>7, <1>8 DEF GroupOf

LEMMA HandlerGrouped ==
  ASSUME IInv, RunHandler
  PROVE  Grouped'
<1>1. /\ BatchTypeOK /\ OneCall /\ Linked /\ SettledOnce /\ Calling("handler") /\ Grouped
  BY DEF IInv, RunHandler, Returns, Raises, Collects, ResolvesRows, Gathers, GathersError
<1>2. PICK new : CallsOK' /\ Leaves /\ Settles(new)
  BY HandlerRuns
<1>3. SUFFICES ASSUME NEW r \in 1..made', group'[r].of # <<>> PROVE GroupOf(r)'
  BY DEF Grouped
<1>4. r \in 1..made /\ r \in Deferreds /\ group[r].of # <<>>
  <2>1. r \in Deferreds
    <3>1. made' \in 0..MaxDeferreds /\ MaxDeferreds \in Nat
      BY <1>2, BatchAssumption DEF Leaves
    <3>2. QED
      BY <3>1, <1>3 DEF Deferreds
  <2>2. group[r].of # <<>>
    BY <2>1, <1>2, <1>3 DEF Leaves
  <2>3. r <= made
    BY <2>1, <2>2, <1>1, MadeBound DEF IInv, Fresh, Deferreds
  <2>4. QED
    BY <2>1, <2>2, <2>3, MadeBound, <1>1 DEF Deferreds
<1>5. GroupOf(r)
  BY <1>1, <1>4 DEF Grouped
<1>6. CASE group'[r] = group[r] /\ (Handler.cb.does = "all" => Handler.cb.of # r)
  BY <1>1, <1>2, <1>4, <1>5, <1>6, HandlerGroupKept
<1>7. CASE Gathers /\ r = Handler.cb.of
  BY <1>7, GathersGrouped
<1>8. CASE GathersError /\ r = Handler.cb.of
  BY <1>8, GathersErrorGrouped
<1>9. CASE ~Gathers /\ ~GathersError
  <2>1. group' = group
    BY <1>9 DEF RunHandler, Returns, Raises, Collects, ResolvesRows, deferredVars
  <2>2. Handler.cb.does # "all"
    BY <1>9, BatchAssumption DEF RunHandler, Returns, Raises, Collects, ResolvesRows
  <2>3. QED
    BY <1>6, <2>1, <2>2
<1>10. CASE (Gathers \/ GathersError) /\ r # Handler.cb.of
  <2>1. group'[r] = group[r]
    BY <1>4, <1>10, GathersIs, GathersErrorIs
  <2>2. QED
    BY <1>6, <1>10, <2>1
<1>11. QED
  BY <1>7, <1>8, <1>9, <1>10

-----------------------------------------------------------------------------
(* A deferred that is settled.                                                *)

LEMMA OfItsOwnElements ==
  ASSUME NEW s, NEW n \in Nat, s = [k \in 1..n |-> s[k]]
  PROVE  s \in Seq(ToSet(s))
<1>1. DOMAIN s = 1..n
  OBVIOUS
<1>2. \A k \in 1..n : s[k] \in ToSet(s)
  BY <1>1 DEF ToSet
<1>3. QED
  BY <1>2

LEMMA HandlerCalls ==
  ASSUME NEW d, NEW hs \in Seq(Handlers), NEW s, s = [i \in DOMAIN hs |-> HandlerCall(d, i)]
  PROVE  s \in Seq(ToSet(s)) /\ Distinct(s) /\ ToSet(s) = {HandlerCall(d, i) : i \in DOMAIN hs}
<1>1. DOMAIN hs = 1..Len(hs) /\ Len(hs) \in Nat
  OBVIOUS
<1>2. s \in Seq(ToSet(s))
  BY <1>1, OfItsOwnElements
<1>3. Distinct(s)
  BY HandlerFields DEF Distinct, Key
<1>4. ToSet(s) = {HandlerCall(d, i) : i \in DOMAIN hs}
  BY DEF ToSet
<1>5. QED
  BY <1>2, <1>3, <1>4

\* What resolve() and reject() do: the handlers come onto the stack.
LEMMA Settled ==
  ASSUME BatchTypeOK, OneCall, SettledOnce, SettleNext, NEW d, d = Top.of
  PROVE  /\ CallsOK /\ CallsOK' /\ Top \in Jobs
         /\ d \in 1..made /\ d \in Deferreds /\ Settling(d) /\ state[d] = "pending"
         /\ Top = SettleCall(d, Top.how, Top.value) /\ Top.how \in {"resolved", "rejected"}
         /\ Jobs' = {HandlerCall(d, i) : i \in DOMAIN handlers[d]} \cup (Jobs \ {Top})
         /\ state'[d] = Top.how /\ value'[d] = Top.value
         /\ \A e \in Deferreds : e # d => state'[e] = state[e] /\ value'[e] = value[e]
         /\ made' = made /\ query' = query /\ handlers' = handlers /\ raised' = raised /\ group' = group
<1>1. CallsOK /\ calls # <<>> /\ Top \in Jobs /\ Top.do = "settle"
  BY WithoutTop DEF BatchTypeOK, CallsOK, OneCall, Jobs, Top, SettleNext, Calling
<1>2. IsCall(Top)
  BY <1>1 DEF BatchTypeOK, Jobs
<1>3. d \in 1..made /\ Top = SettleCall(d, Top.how, Top.value) /\ Top.how \in {"resolved", "rejected"}
  BY <1>1, <1>2, Kinds
<1>4. d \in Deferreds
  BY <1>3, MadeBound
<1>5. Settling(d) /\ state[d] = "pending"
  BY <1>1 DEF Settling, SettledOnce
<1>6. /\ state' = [state EXCEPT ![d] = Top.how] /\ value' = [value EXCEPT ![d] = Top.value]
      /\ calls' = [i \in DOMAIN handlers[d] |-> HandlerCall(d, i)] \o Rest
      /\ made' = made /\ query' = query /\ handlers' = handlers /\ raised' = raised /\ group' = group
  BY DEF SettleNext
<1>7. /\ state'[d] = Top.how /\ value'[d] = Top.value
      /\ \A e \in Deferreds : e # d => state'[e] = state[e] /\ value'[e] = value[e]
  BY <1>4, <1>6 DEF BatchTypeOK
<1>8. CallsOK' /\ Jobs' = {HandlerCall(d, i) : i \in DOMAIN handlers[d]} \cup (Jobs \ {Top})
  <2>1. PICK s : s = [i \in DOMAIN handlers[d] |-> HandlerCall(d, i)]
    OBVIOUS
  <2>2. handlers[d] \in Seq(Handlers)
    BY <1>4 DEF BatchTypeOK
  <2>3. s \in Seq(ToSet(s)) /\ Distinct(s) /\ ToSet(s) = {HandlerCall(d, i) : i \in DOMAIN handlers[d]}
    BY <2>1, <2>2, HandlerCalls
  <2>4. \A a \in ToSet(s), c \in Jobs \ {Top} : Key(a) # Key(c)
    <3>1. SUFFICES ASSUME NEW i \in DOMAIN handlers[d], NEW c \in Jobs, Key(HandlerCall(d, i)) = Key(c)
                   PROVE  FALSE
      BY <2>3
    <3>2. c.do = "handler" /\ c.of = d
      BY <3>1, HandlerFields DEF Key
    <3>3. QED
      BY <3>2, <1>5 DEF SettledOnce
  <2>5. QED
    BY <1>1, <1>6, <2>1, <2>3, <2>4, Pushed
<1>9. QED
  BY <1>1, <1>3, <1>4, <1>5, <1>6, <1>7, <1>8

LEMMA SettledJobs ==
  ASSUME BatchTypeOK, OneCall, SettledOnce, SettleNext, NEW d, d = Top.of
  PROVE  /\ \A c \in Jobs : c # Top => c \in Jobs'
         /\ \A c \in Jobs' : (c \in Jobs /\ c # Top) \/ (c.do = "handler" /\ c.of = d)
         /\ \A e : Settling(e)' <=> Settling(e) /\ e # d
         /\ \A p \in 1..made : \A i \in DOMAIN handlers[p] : Unrun(p, i)' <=> Unrun(p, i)
<1>1. /\ CallsOK /\ Top \in Jobs /\ Top.do = "settle" /\ d \in 1..made /\ state[d] = "pending"
      /\ Jobs' = {HandlerCall(d, i) : i \in DOMAIN handlers[d]} \cup (Jobs \ {Top})
      /\ state'[d] = Top.how /\ Top.how # "pending"
      /\ \A e \in Deferreds : e # d => state'[e] = state[e]
  BY Settled DEF SettleNext, Calling
<1>2. /\ \A c \in Jobs : c # Top => c \in Jobs'
      /\ \A c \in Jobs' : (c \in Jobs /\ c # Top) \/ (c.do = "handler" /\ c.of = d)
  BY <1>1, HandlerFields
<1>3. \A c \in Jobs : c.do = "settle" /\ c.of = d => c = Top
  <2>1. SUFFICES ASSUME NEW c \in Jobs, c.do = "settle", c.of = d, c # Top PROVE FALSE
    OBVIOUS
  <2>2. Key(c) # Key(Top)
    BY <1>1, <2>1, TopIsOne DEF SettleNext, Calling
  <2>3. c.at = 0 /\ Top.at = 0
    BY <1>1, <2>1, Kinds, SettleFields DEF BatchTypeOK, Jobs
  <2>4. QED
    BY <2>1, <2>2, <2>3, <1>1 DEF Key
<1>4. ASSUME NEW e PROVE Settling(e)' <=> Settling(e) /\ e # d
  BY <1>1, <1>2, <1>3 DEF Settling
<1>5. ASSUME NEW p \in 1..made, NEW i \in DOMAIN handlers[p] PROVE Unrun(p, i)' <=> Unrun(p, i)
  <2>1. p \in Deferreds
    BY MadeBound
  <2>2. HandlerCall(p, i) # Top
    BY <1>1, HandlerFields
  <2>3. CASE p = d
    BY <1>1, <2>3, <1>5 DEF Unrun
  <2>4. CASE p # d
    <3>1. HandlerCall(p, i) \in Jobs' <=> HandlerCall(p, i) \in Jobs
      BY <1>2, <2>2, <2>4, HandlerFields
    <3>2. QED
      BY <3>1, <2>1, <2>4, <1>1 DEF Unrun
  <2>5. QED
    BY <2>3, <2>4
<1>6. QED
  BY <1>2, <1>4, <1>5

LEMMA SettleTypeOK ==
  ASSUME BatchTypeOK, OneCall, SettledOnce, SettleNext
  PROVE  BatchTypeOK'
<1>0. PICK d : d = Top.of
  OBVIOUS
<1>1. /\ CallsOK' /\ d \in 1..made /\ d \in Deferreds /\ Top.how \in {"resolved", "rejected"}
      /\ Jobs' = {HandlerCall(d, i) : i \in DOMAIN handlers[d]} \cup (Jobs \ {Top})
      /\ made' = made /\ query' = query /\ handlers' = handlers /\ raised' = raised /\ group' = group
  BY <1>0, Settled
<1>2. state' = [state EXCEPT ![d] = Top.how] /\ DOMAIN value' = DOMAIN value
  BY <1>0 DEF SettleNext
<1>3. state' \in [Deferreds -> {"pending", "resolved", "rejected"}]
  BY <1>1, <1>2 DEF BatchTypeOK
<1>4. \A c \in Jobs' : IsCall(c)'
  <2>1. ASSUME NEW i \in DOMAIN handlers[d], NEW c, c = HandlerCall(d, i)
        PROVE  IsCall(c)'
    BY <1>1, <2>1, HandlerFields DEF IsCall
  <2>2. ASSUME NEW c \in Jobs PROVE IsCall(c)'
    BY <1>1, <2>2 DEF BatchTypeOK, Jobs, IsCall
  <2>3. QED
    BY <1>1, <2>1, <2>2
<1>5. QED
  BY <1>1, <1>2, <1>3, <1>4 DEF SettleNext, BatchTypeOK, CallsOK, Jobs, collectorVars

LEMMA SettleFresh ==
  ASSUME BatchTypeOK, OneCall, SettledOnce, SettleNext, Fresh
  PROVE  Fresh'
<1>0. PICK d : d = Top.of
  OBVIOUS
<1>1. d \in 1..made /\ made \in Nat
  BY <1>0, Settled, MadeBound
<1>2. /\ \A e \in Deferreds : e # d => state'[e] = state[e] /\ value'[e] = value[e]
      /\ made' = made /\ query' = query /\ handlers' = handlers /\ group' = group
  BY <1>0, Settled
<1>3. \A e \in Deferreds : e > made => e # d
  BY <1>1 DEF Deferreds
<1>4. QED
  BY <1>2, <1>3 DEF Fresh

\* What is hung stays as it is.
LEMMA LinkedKept ==
  ASSUME Linked, made' = made, query' = query, handlers' = handlers, group' = group
  PROVE  Linked'
<1>1. ASSUME NEW p \in Deferreds, NEW i \in DOMAIN handlers[p] PROVE HandlerOf(p, i)'
  <2>1. HandlerOf(p, i)
    BY DEF Linked
  <2>2. QED
    BY <2>1 DEF HandlerOf, Plain, Targets
<1>2. HandlersApart'
  BY ApartKept DEF Linked
<1>3. \A p \in Deferreds : \A i \in DOMAIN handlers'[p] : HandlerOf(p, i)'
  BY <1>1
<1>4. QED
  BY <1>2, <1>3 DEF Linked

LEMMA SettleSettledOnce ==
  ASSUME BatchTypeOK, OneCall, Fresh, Linked, SettledOnce, SettleNext
  PROVE  SettledOnce'
<1>0. PICK d : d = Top.of
  OBVIOUS
<1>1. /\ d \in 1..made /\ Settling(d) /\ state'[d] # "pending" /\ handlers' = handlers
      /\ \A e \in Deferreds : e # d => state'[e] = state[e]
  BY <1>0, Settled
<1>2. /\ \A c \in Jobs' : (c \in Jobs /\ c # Top) \/ (c.do = "handler" /\ c.of = d)
      /\ \A e : Settling(e)' <=> Settling(e) /\ e # d
      /\ \A p \in 1..made : \A i \in DOMAIN handlers[p] : Unrun(p, i)' <=> Unrun(p, i)
  BY <1>0, SettledJobs
<1>3. \A c \in Jobs : c.of \in Deferreds
  BY MadeBound DEF BatchTypeOK, Jobs, IsCall
<1>4. ASSUME NEW c \in Jobs', c.do = "settle" PROVE state'[c.of] = "pending"
  <2>1. c \in Jobs
    BY <1>2, <1>4
  <2>2. PICK e : e = c.of
    OBVIOUS
  <2>3. Settling(e)'
    BY <1>4, <2>2 DEF Settling
  <2>4. e # d
    BY <2>3, <1>2
  <2>5. QED
    BY <2>1, <2>2, <2>4, <1>1, <1>3, <1>4 DEF SettledOnce
<1>5. ASSUME NEW c \in Jobs', c.do = "handler" PROVE state'[c.of] # "pending"
  BY <1>1, <1>2, <1>3, <1>5 DEF SettledOnce
<1>6. ASSUME NEW p \in Deferreds, NEW i \in DOMAIN handlers[p]
      PROVE  IF Unrun(p, i)' THEN \A t \in Targets(handlers[p][i]) : state'[t] = "pending" /\ ~Settling(t)'
             ELSE \A t : t = handlers[p][i].next => state'[t] # "pending" \/ Settling(t)'
  <2>1. p \in 1..made
    BY <1>6, MadeBound DEF Fresh, Deferreds
  <2>2. HandlerOf(p, i)
    BY <1>6 DEF Linked
  <2>3. /\ \A t \in Targets(handlers[p][i]) : t \in Deferreds
        /\ handlers[p][i].next \in Targets(handlers[p][i])
    BY <2>2, MadeBound DEF HandlerOf, Targets
  <2>4. Unrun(p, i)' <=> Unrun(p, i)
    BY <2>1, <1>2, <1>6
  <2>5. CASE Unrun(p, i)
    <3>1. \A t \in Targets(handlers[p][i]) : state[t] = "pending" /\ ~Settling(t)
      BY <2>5, <1>6 DEF SettledOnce
    <3>2. \A t \in Targets(handlers[p][i]) : t # d
      BY <3>1, <1>1
    <3>3. QED
      BY <2>3, <2>4, <2>5, <3>1, <3>2, <1>1, <1>2
  <2>6. CASE ~Unrun(p, i)
    <3>1. \A t : t = handlers[p][i].next => state[t] # "pending" \/ Settling(t)
      BY <2>6, <1>6 DEF SettledOnce
    <3>2. QED
      BY <2>3, <2>4, <2>6, <3>1, <1>1, <1>2
  <2>7. QED
    BY <2>5, <2>6
<1>7. QED
  BY <1>1, <1>4, <1>5, <1>6 DEF SettledOnce, Targets

LEMMA SettlePlaced ==
  ASSUME BatchTypeOK, OneCall, SettledOnce, Placed, SettleNext
  PROVE  Placed'
<1>0. PICK d : d = Top.of
  OBVIOUS
<1>1. /\ Settling(d) /\ made' = made /\ query' = query
      /\ \A e \in Deferreds : e # d => state'[e] = state[e]
  BY <1>0, Settled
<1>2. /\ \A c \in Jobs' : (c \in Jobs /\ c # Top) \/ (c.do = "handler" /\ c.of = d)
      /\ \A e : Settling(e)' <=> Settling(e) /\ e # d
  BY <1>0, SettledJobs
<1>3. QueriesKept
  BY <1>1, <1>2, MadeBound DEF QueriesKept, Batched
<1>4. evaluation # "resolving" => \A c \in Jobs' : c.do # "count"
  BY <1>2 DEF Placed
<1>5. QED
  BY <1>3, <1>4, PlacedKept DEF SettleNext, collectorVars

LEMMA SettleAnswered ==
  ASSUME BatchTypeOK, OneCall, SettledOnce, Answered, SettleNext
  PROVE  Answered'
<1>0. PICK d : d = Top.of
  OBVIOUS
<1>1. /\ d \in 1..made /\ Top \in Jobs /\ state'[d] = Top.how /\ value'[d] = Top.value
      /\ \A e \in Deferreds : e # d => state'[e] = state[e] /\ value'[e] = value[e]
      /\ made' = made /\ query' = query /\ group' = group
      /\ Top = SettleCall(d, Top.how, Top.value) /\ Top.how \in {"resolved", "rejected"}
  BY <1>0, Settled
<1>2. /\ \A c \in Jobs' : (c \in Jobs /\ c # Top) \/ (c.do = "handler" /\ c.of = d)
      /\ \A e : Settling(e)' <=> Settling(e) /\ e # d
  BY <1>0, SettledJobs
<1>3. ASSUME query[d] # NoQuery
      PROVE  state'[d] = "resolved" /\ value'[d] = IF Queries[query[d]] = "autoincrement" THEN Row(d) ELSE NoRow
  <2>1. Top = ResolveCall(d, IF Queries[query[d]] = "autoincrement" THEN Row(d) ELSE NoRow)
    BY <1>0, <1>1, <1>3 DEF Answered, IsQuery, Right, SettleNext, Calling
  <2>2. Top.how = "resolved" /\ Top.value = IF Queries[query[d]] = "autoincrement" THEN Row(d) ELSE NoRow
    BY <2>1, SettleFields DEF ResolveCall
  <2>3. QED
    BY <2>2, <1>1
<1>4. /\ queue' = queue /\ current' = current /\ lost' = lost /\ inserted' = inserted
  BY DEF SettleNext, collectorVars
<1>5. ASSUME NEW e \in 1..made, query[e] # NoQuery
      PROVE  /\ group'[e].of = <<>>
             /\ Queries[query[e]] = "other" => state'[e] = "resolved"
             /\ Queries[query[e]] # "other" =>
                  \/ e \in Waiting
                  \/ e \in lost
                  \/ e \in ToSet(inserted) /\ (state'[e] # "pending" \/ Settling(e)')
             /\ state'[e] # "pending" =>
                  /\ state'[e] = "resolved"
                  /\ value'[e] = IF Queries[query[e]] = "autoincrement" THEN Row(e) ELSE NoRow
  <2>1. e \in Deferreds
    BY MadeBound
  <2>2. CASE e # d
    BY <2>1, <2>2, <1>1, <1>2, <1>5 DEF Answered, IsQuery, Right
  <2>3. CASE e = d
    BY <2>1, <2>3, <1>1, <1>3, <1>5 DEF Answered, IsQuery, Right
  <2>4. QED
    BY <2>2, <2>3
<1>6. ASSUME NEW c \in Jobs', c.do = "settle", query[c.of] # NoQuery
      PROVE  c = SettleCall(c.of, "resolved", IF Queries[query[c.of]] = "autoincrement" THEN Row(c.of) ELSE NoRow)
  BY <1>2, <1>6 DEF Answered, IsQuery, Right, ResolveCall
<1>7. Waiting' = Waiting
  BY <1>4 DEF Waiting
<1>8. QED
  BY <1>1, <1>4, <1>5, <1>6, <1>7 DEF Answered, IsQuery, Right, ResolveCall

LEMMA SettleGrouped ==
  ASSUME BatchTypeOK, OneCall, SettledOnce, Grouped, SettleNext
  PROVE  Grouped'
<1>0. PICK d : d = Top.of
  OBVIOUS
<1>1. /\ d \in 1..made /\ Top \in Jobs /\ state[d] = "pending" /\ Settling(d)
      /\ state'[d] = Top.how /\ value'[d] = Top.value
      /\ \A e \in Deferreds : e # d => state'[e] = state[e] /\ value'[e] = value[e]
      /\ made' = made /\ handlers' = handlers /\ group' = group
      /\ Top = SettleCall(d, Top.how, Top.value)
  BY <1>0, Settled
<1>2. /\ \A c \in Jobs : c # Top => c \in Jobs'
      /\ \A c \in Jobs' : (c \in Jobs /\ c # Top) \/ (c.do = "handler" /\ c.of = d)
      /\ \A e : Settling(e)' <=> Settling(e) /\ e # d
      /\ \A p \in 1..made : \A i \in DOMAIN handlers[p] : Unrun(p, i)' <=> Unrun(p, i)
  BY <1>0, SettledJobs
<1>3. SUFFICES ASSUME NEW r \in 1..made, group[r].of # <<>> PROVE GroupOf(r)'
  BY <1>1 DEF Grouped
<1>4. GroupOf(r) /\ \A i \in DOMAIN group[r].of : group[r].of[i] \in 1..made
  BY <1>3 DEF Grouped, GroupOf
<1>5. \A i \in DOMAIN group[r].of : Passed(r, i)' <=> Passed(r, i)
  BY <1>1, <1>2, <1>4 DEF Passed
<1>6. \A i \in DOMAIN group[r].of : AwaitCall(r, i) \in Jobs' <=> ~Hung(r, i)'
  <2>1. SUFFICES ASSUME NEW i \in DOMAIN group[r].of PROVE AwaitCall(r, i) \in Jobs' <=> ~Hung(r, i)'
    OBVIOUS
  <2>2. AwaitCall(r, i) \in Jobs' <=> AwaitCall(r, i) \in Jobs
    BY <1>0, <1>2, AllFields DEF SettleNext, Calling
  <2>3. Hung(r, i)' <=> Hung(r, i)
    BY <1>1 DEF Hung
  <2>4. QED
    BY <2>2, <2>3, <1>4 DEF GroupOf
<1>7. \A i \in AllPassed(r) : group[r].of[i] # d /\ group[r].of[i] \in Deferreds
  <2>1. SUFFICES ASSUME NEW i \in AllPassed(r), group[r].of[i] = d PROVE FALSE
    BY <1>4, MadeBound DEF AllPassed
  <2>2. PICK j \in DOMAIN handlers[d] : ~Unrun(d, j)
    BY <2>1 DEF AllPassed, Passed
  <2>3. QED
    BY <2>2, <1>1 DEF Unrun
<1>8. \A i \in AllPassed(r) : /\ state'[group[r].of[i]] = state[group[r].of[i]]
                              /\ value'[group[r].of[i]] = value[group[r].of[i]]
  BY <1>1, <1>7
<1>9. CASE r # d
  <2>1. r \in Deferreds
    BY MadeBound
  <2>2. \A c \in Jobs : c.do = "settle" /\ c.of = r => c \in Jobs'
    BY <1>0, <1>2, <1>9
  <2>3. QED
    BY <1>1, <1>2, <1>4, <1>5, <1>6, <1>8, <1>9, <2>1, <2>2, GroupKept
<1>10. CASE r = d
  <2>1. AllPassed(r)' = AllPassed(r)
    BY <1>1, <1>5 DEF AllPassed
  <2>2. \A c \in Jobs : c.do = "settle" /\ c.of = d => c = Top
    <3>1. SUFFICES ASSUME NEW c \in Jobs, c.do = "settle", c.of = d, c # Top PROVE FALSE
      OBVIOUS
    <3>2. c \in Jobs'
      BY <3>1, <1>2
    <3>3. QED
      BY <3>1, <3>2, <1>2 DEF Settling
  <2>3. group[r].rejected => state'[r] = "rejected"
    <3>1. SUFFICES ASSUME RejectCall(d) \in Jobs PROVE state'[r] = "rejected"
      BY <1>1, <1>4, <1>10 DEF GroupOf
    <3>2. Top = RejectCall(d)
      BY <3>1, <2>2, SettleFields DEF RejectCall
    <3>3. QED
      BY <3>2, <1>1, <1>10, SettleFields DEF RejectCall
  <2>4. ~group[r].rejected /\ group[r].count = Len(group[r].of) =>
          state'[r] = "resolved" /\ value'[r] = ListOf(group[r].values)
    <3> DEFINE c == ResolveCall(d, ListOf(group[d].values))
    <3>1. SUFFICES ASSUME c \in Jobs PROVE state'[r] = "resolved" /\ value'[r] = ListOf(group[r].values)
      BY <1>1, <1>4, <1>10 DEF GroupOf
    <3>2. c.do = "settle" /\ c.of = d /\ c.how = "resolved" /\ c.value = ListOf(group[d].values)
      BY SettleFields DEF ResolveCall
    <3> HIDE DEF c
    <3>3. Top = c
      BY <3>1, <3>2, <2>2
    <3>4. QED
      BY <3>2, <3>3, <1>1, <1>10
  <2>5. ~(~group[r].rejected /\ group[r].count # Len(group[r].of))
    BY <1>1, <1>4, <1>10 DEF GroupOf
  <2>6. QED
    BY <1>1, <1>4, <1>6, <1>8, <2>1, <2>3, <2>4, <2>5 DEF GroupOf
<1>11. QED
  BY <1>9, <1>10

-----------------------------------------------------------------------------
(* A callback that is hung on a deferred.                                     *)

\* gone: the call of all() that hung it.
Hangs(p, h, gone) ==
  /\ p \in 1..made /\ h \in Handlers
  /\ handlers' = [handlers EXCEPT ![p] = Append(@, h)]
  /\ made' \in 0..MaxDeferreds /\ made' > made
  /\ \A t \in Targets(h) : t \in 1..made' /\ t > made
  /\ h.cb.does = "rows" => h.cb.of # h.next
  /\ query' = query /\ state' = state /\ value' = value /\ raised' = raised /\ group' = group
  /\ queue' = queue /\ current' = current /\ evaluation' = evaluation /\ failed' = failed
  /\ inserted' = inserted /\ lost' = lost
  /\ CallsOK'
  /\ Jobs' = (IF state[p] = "pending" THEN {} ELSE {HandlerCall(p, Len(handlers[p]) + 1)}) \cup (Jobs \ gone)
  /\ gone \subseteq Jobs
  /\ h.cb.does # "all" => gone = {}
  /\ h.cb.does = "all" =>
       /\ h.cb.of \in 1..made /\ h.cb = AllCallback(h.cb.of, h.cb.index)
       /\ h.cb.index \in DOMAIN group[h.cb.of].of /\ group[h.cb.of].of[h.cb.index] = p
       /\ gone = {AwaitCall(h.cb.of, h.cb.index)}

\* One handler more, on one deferred.
LEMMA HangsHandlers ==
  ASSUME BatchTypeOK, NEW p, NEW h, NEW gone, Hangs(p, h, gone), NEW m, m = Len(handlers[p]) + 1
  PROVE  /\ p \in Deferreds /\ m \notin DOMAIN handlers[p] /\ m \in DOMAIN handlers'[p]
         /\ \A q \in Deferreds : \A i \in DOMAIN handlers'[q] :
              \/ q = p /\ i = m /\ handlers'[q][i] = h
              \/ i \in DOMAIN handlers[q] /\ handlers'[q][i] = handlers[q][i] /\ ~(q = p /\ i = m)
         /\ \A q \in Deferreds : \A i \in DOMAIN handlers[q] :
              i \in DOMAIN handlers'[q] /\ handlers'[q][i] = handlers[q][i] /\ ~(q = p /\ i = m)
         /\ handlers' \in [Deferreds -> Seq(Handlers)]
<1>1. p \in Deferreds /\ h \in Handlers /\ handlers \in [Deferreds -> Seq(Handlers)]
  BY MadeBound DEF Hangs, BatchTypeOK
<1>2. handlers'[p] = Append(handlers[p], h) /\ \A q \in Deferreds : q # p => handlers'[q] = handlers[q]
  BY <1>1 DEF Hangs
<1>3. PICK s : s = handlers[p]
  OBVIOUS
<1>4. PICK t : t = Append(s, h)
  OBVIOUS
<1>5. /\ s \in Seq(Handlers) /\ m = Len(s) + 1 /\ Len(s) \in Nat /\ DOMAIN s = 1..Len(s)
      /\ t \in Seq(Handlers) /\ DOMAIN t = 1..m /\ t[m] = h /\ \A i \in 1..Len(s) : t[i] = s[i]
  BY <1>1, <1>3, <1>4
<1>6. /\ m \notin DOMAIN s /\ m \in DOMAIN t
      /\ \A i \in DOMAIN t : (i = m /\ t[i] = h) \/ (i \in DOMAIN s /\ t[i] = s[i] /\ i # m)
      /\ \A i \in DOMAIN s : i \in DOMAIN t /\ t[i] = s[i] /\ i # m
  BY <1>5
<1>7. handlers'[p] = t
  BY <1>2, <1>3, <1>4
<1>8. handlers' \in [Deferreds -> Seq(Handlers)]
  BY <1>1, <1>3, <1>4, <1>5 DEF Hangs
<1>9. QED
  BY <1>1, <1>2, <1>3, <1>6, <1>7, <1>8

LEMMA HangsJobs ==
  ASSUME BatchTypeOK, NEW p, NEW h, NEW gone, Hangs(p, h, gone), NEW m, m = Len(handlers[p]) + 1
  PROVE  /\ \A c : c.do \notin {"handler", "await"} => (c \in Jobs' <=> c \in Jobs)
         /\ \A e : Settling(e)' <=> Settling(e)
         /\ \A c \in Jobs' : c \in Jobs \/ (c = HandlerCall(p, m) /\ state[p] # "pending")
         /\ \A q \in Deferreds : \A i \in DOMAIN handlers[q] : Unrun(q, i)' <=> Unrun(q, i)
         /\ Unrun(p, m)'
<1>1. /\ Jobs' = (IF state[p] = "pending" THEN {} ELSE {HandlerCall(p, m)}) \cup (Jobs \ gone)
      /\ state' = state
  BY DEF Hangs
<1>2. \A c \in gone : c.do = "await"
  BY AllFields DEF Hangs
<1>3. \A c : c.do \notin {"handler", "await"} => (c \in Jobs' <=> c \in Jobs)
  BY <1>1, <1>2, HandlerFields
<1>4. \A e : Settling(e)' <=> Settling(e)
  BY <1>3 DEF Settling
<1>5. ASSUME NEW q \in Deferreds, NEW i \in DOMAIN handlers[q] PROVE Unrun(q, i)' <=> Unrun(q, i)
  <2>1. ~(q = p /\ i = m)
    BY <1>5, HangsHandlers
  <2>2. HandlerCall(q, i) # HandlerCall(p, m)
    BY <2>1, HandlerFields
  <2>3. HandlerCall(q, i) \notin gone
    BY <1>2, HandlerFields
  <2>4. HandlerCall(q, i) \in Jobs' <=> HandlerCall(q, i) \in Jobs
    BY <1>1, <2>2, <2>3
  <2>5. QED
    BY <1>1, <2>4 DEF Unrun
<1>6. Unrun(p, m)'
  BY <1>1 DEF Unrun
<1>7. QED
  BY <1>1, <1>3, <1>4, <1>5, <1>6

LEMMA HangsTypeOK ==
  ASSUME BatchTypeOK, NEW p, NEW h, NEW gone, Hangs(p, h, gone)
  PROVE  BatchTypeOK'
<1>0. PICK m : m = Len(handlers[p]) + 1
  OBVIOUS
<1>1. /\ handlers' \in [Deferreds -> Seq(Handlers)] /\ m \in DOMAIN handlers'[p]
      /\ \A q \in Deferreds : \A i \in DOMAIN handlers[q] : i \in DOMAIN handlers'[q]
  BY <1>0, HangsHandlers
<1>2. 1..made \subseteq 1..made' /\ p \in 1..made /\ group' = group
  BY MadeBound DEF Hangs
<1>3. ASSUME NEW c \in Jobs' PROVE IsCall(c)'
  <2>1. CASE c \in Jobs
    <3>1. IsCall(c) /\ c.of \in Deferreds
      BY <2>1, MadeBound DEF BatchTypeOK, Jobs, IsCall
    <3>2. QED
      BY <3>1, <1>1, <1>2 DEF IsCall
  <2>2. CASE c = HandlerCall(p, m)
    BY <2>2, <1>1, <1>2, HandlerFields DEF IsCall
  <2>3. QED
    BY <1>0, <2>1, <2>2, HangsJobs
<1>4. QED
  BY <1>1, <1>3 DEF Hangs, BatchTypeOK, CallsOK, Jobs

LEMMA HangsFresh ==
  ASSUME BatchTypeOK, Fresh, NEW p, NEW h, NEW gone, Hangs(p, h, gone)
  PROVE  Fresh'
<1>1. /\ \A q \in Deferreds : q > made' => q > made /\ q # p
      /\ p \in Deferreds
  BY MadeBound DEF Hangs, Deferreds
<1>2. \A q \in Deferreds : q # p => handlers'[q] = handlers[q]
  BY <1>1 DEF Hangs, BatchTypeOK
<1>3. QED
  BY <1>1, <1>2 DEF Hangs, Fresh

LEMMA HangsSettledOnce ==
  ASSUME BatchTypeOK, Fresh, SettledOnce, NEW p, NEW h, NEW gone, Hangs(p, h, gone)
  PROVE  SettledOnce'
<1>0. PICK m : m = Len(handlers[p]) + 1
  OBVIOUS
<1>1. /\ \A c : c.do \notin {"handler", "await"} => (c \in Jobs' <=> c \in Jobs)
      /\ \A e : Settling(e)' <=> Settling(e)
      /\ \A c \in Jobs' : c \in Jobs \/ (c = HandlerCall(p, m) /\ state[p] # "pending")
      /\ \A q \in Deferreds : \A i \in DOMAIN handlers[q] : Unrun(q, i)' <=> Unrun(q, i)
      /\ Unrun(p, m)'
  BY <1>0, HangsJobs
<1>2. /\ state' = state /\ \A t \in Targets(h) : t \in Deferreds /\ t > made /\ t \notin 1..made
  <2>1. made' \in 0..MaxDeferreds /\ MaxDeferreds \in Nat
    BY BatchAssumption DEF Hangs
  <2>2. 1..made' \subseteq Deferreds
    BY <2>1 DEF Deferreds
  <2>3. QED
    BY <2>2, MadeBound DEF Hangs
<1>3. \A c \in Jobs' : c.do = "settle" => state'[c.of] = "pending"
  BY <1>1, <1>2 DEF SettledOnce
<1>4. \A c \in Jobs' : c.do = "handler" => state'[c.of] # "pending"
  BY <1>1, <1>2, HandlerFields DEF SettledOnce
<1>5. ASSUME NEW q \in Deferreds, NEW i \in DOMAIN handlers'[q]
      PROVE  IF Unrun(q, i)' THEN \A t \in Targets(handlers'[q][i]) : state'[t] = "pending" /\ ~Settling(t)'
             ELSE \A t : t = handlers'[q][i].next => state'[t] # "pending" \/ Settling(t)'
  <2>1. CASE q = p /\ i = m /\ handlers'[q][i] = h
    <3>1. \A t \in Targets(h) : state[t] = "pending" /\ ~Settling(t)
      BY <1>2, NewIsQuiet DEF Fresh
    <3>2. QED
      BY <2>1, <3>1, <1>1, <1>2
  <2>2. CASE i \in DOMAIN handlers[q] /\ handlers'[q][i] = handlers[q][i]
    <3>1. Unrun(q, i)' <=> Unrun(q, i)
      BY <2>2, <1>1
    <3>2. CASE Unrun(q, i)
      <4>1. \A t \in Targets(handlers[q][i]) : state[t] = "pending" /\ ~Settling(t)
        BY <3>2, <2>2, <1>5 DEF SettledOnce
      <4>2. QED
        BY <4>1, <3>1, <3>2, <2>2, <1>1, <1>2
    <3>3. CASE ~Unrun(q, i)
      <4>1. \A t : t = handlers[q][i].next => state[t] # "pending" \/ Settling(t)
        BY <3>3, <2>2, <1>5 DEF SettledOnce
      <4>2. QED
        BY <4>1, <3>1, <3>3, <2>2, <1>1, <1>2
    <3>4. QED
      BY <3>2, <3>3
  <2>3. QED
    BY <1>0, <2>1, <2>2, HangsHandlers
<1>6. QED
  BY <1>3, <1>4, <1>5 DEF SettledOnce, Targets

LEMMA HangsLinked ==
  ASSUME BatchTypeOK, Fresh, Linked, Grouped, NEW p, NEW h, NEW gone, Hangs(p, h, gone)
  PROVE  Linked'
<1>0. PICK m : m = Len(handlers[p]) + 1
  OBVIOUS
<1>1. /\ p \in Deferreds
      /\ \A q \in Deferreds : \A i \in DOMAIN handlers'[q] :
           \/ q = p /\ i = m /\ handlers'[q][i] = h
           \/ i \in DOMAIN handlers[q] /\ handlers'[q][i] = handlers[q][i] /\ ~(q = p /\ i = m)
  BY <1>0, HangsHandlers
<1>2. 1..made \subseteq 1..made' /\ query' = query /\ group' = group
  BY MadeBound DEF Hangs
<1>3. \A t \in Targets(h) : t \in 1..made' /\ t \notin 1..made /\ Plain(t)
  <2>1. \A t \in Targets(h) : t \in 1..made' /\ t > made /\ made' \in 0..MaxDeferreds
    BY DEF Hangs
  <2>2. \A t \in Targets(h) : t \in Deferreds /\ t \notin 1..made
    BY <2>1, MadeBound DEF Deferreds
  <2>3. QED
    BY <2>1, <2>2 DEF Fresh, Plain
<1>4. /\ h.cb.does = "rows" => h.cb.of # h.next
      /\ h.cb.does = "all" =>
           /\ h.cb.of \in 1..made /\ h.cb = AllCallback(h.cb.of, h.cb.index)
           /\ h.cb.index \in DOMAIN group[h.cb.of].of /\ group[h.cb.of].of[h.cb.index] = p
           /\ AwaitCall(h.cb.of, h.cb.index) \in Jobs
  BY DEF Hangs
<1>5. ASSUME NEW q \in Deferreds, NEW i \in DOMAIN handlers'[q] PROVE HandlerOf(q, i)'
  <2>1. CASE q = p /\ i = m /\ handlers'[q][i] = h
    BY <2>1, <1>2, <1>3, <1>4 DEF HandlerOf, Plain, Targets
  <2>2. CASE i \in DOMAIN handlers[q] /\ handlers'[q][i] = handlers[q][i]
    <3>1. HandlerOf(q, i)
      BY <2>2 DEF Linked
    <3>2. QED
      BY <2>2, <3>1, <1>2 DEF HandlerOf, Plain, Targets
  <2>3. QED
    BY <1>1, <2>1, <2>2
<1>6. ASSUME NEW q \in Deferreds, NEW i \in DOMAIN handlers[q]
      PROVE  ~Clash(handlers[q][i], h) /\ ~Clash(h, handlers[q][i])
  <2>1. HandlerOf(q, i)
    BY <1>6 DEF Linked
  <2>2. Targets(handlers[q][i]) \cap Targets(h) = {}
    BY <2>1, <1>3 DEF HandlerOf
  <2>3. ASSUME h.cb.does = "all", handlers[q][i].cb = h.cb PROVE FALSE
    <3>1. PICK r, k : r = h.cb.of /\ k = h.cb.index
      OBVIOUS
    <3>2. r \in 1..made /\ h.cb = AllCallback(r, k) /\ k \in DOMAIN group[r].of /\ group[r].of[k] = p /\ AwaitCall(r, k) \in Jobs
      BY <1>4, <2>3, <3>1
    <3>3. q = p
      BY <2>1, <2>3, <3>1, <3>2 DEF HandlerOf
    <3>4. Hung(r, k)
      BY <3>2, <3>3, <2>3, <1>6 DEF Hung
    <3>5. group[r].of # <<>>
      BY <3>2
    <3>6. QED
      BY <3>2, <3>4, <3>5 DEF Grouped, GroupOf
  <2>4. QED
    BY <2>2, <2>3 DEF Clash
<1>7. ASSUME NEW q \in Deferreds, NEW i \in DOMAIN handlers'[q], NEW s \in Deferreds, NEW j \in DOMAIN handlers'[s],
             Clash(handlers'[q][i], handlers'[s][j])
      PROVE  q = s /\ i = j
  <2>1. CASE q = p /\ i = m /\ handlers'[q][i] = h /\ s = p /\ j = m
    BY <2>1
  <2>2. CASE q = p /\ i = m /\ handlers'[q][i] = h /\ j \in DOMAIN handlers[s] /\ handlers'[s][j] = handlers[s][j]
    BY <2>2, <1>6, <1>7
  <2>3. CASE s = p /\ j = m /\ handlers'[s][j] = h /\ i \in DOMAIN handlers[q] /\ handlers'[q][i] = handlers[q][i]
    BY <2>3, <1>6, <1>7
  <2>4. CASE /\ i \in DOMAIN handlers[q] /\ handlers'[q][i] = handlers[q][i]
             /\ j \in DOMAIN handlers[s] /\ handlers'[s][j] = handlers[s][j]
    <3>1. Clash(handlers[q][i], handlers[s][j])
      BY <2>4, <1>7
    <3>2. i \in DOMAIN handlers[q] /\ j \in DOMAIN handlers[s]
      BY <2>4
    <3>3. QED
      BY <3>1, <3>2, <1>7 DEF Linked, HandlersApart
  <2>5. QED
    <3>1. \/ q = p /\ i = m /\ handlers'[q][i] = h
          \/ i \in DOMAIN handlers[q] /\ handlers'[q][i] = handlers[q][i]
      BY <1>1, <1>7
    <3>2. \/ s = p /\ j = m /\ handlers'[s][j] = h
          \/ j \in DOMAIN handlers[s] /\ handlers'[s][j] = handlers[s][j]
      BY <1>1, <1>7
    <3>3. QED
      BY <3>1, <3>2, <2>1, <2>2, <2>3, <2>4
<1>8. /\ \A q \in Deferreds : \A i \in DOMAIN handlers'[q] : HandlerOf(q, i)'
      /\ \A q, s \in Deferreds : \A i \in DOMAIN handlers'[q], j \in DOMAIN handlers'[s] :
           Clash(handlers'[q][i], handlers'[s][j]) => q = s /\ i = j
  BY <1>5, <1>7
<1>9. QED
  BY <1>8 DEF Linked, HandlersApart

LEMMA HangsPlaced ==
  ASSUME BatchTypeOK, Placed, NEW p, NEW h, NEW gone, Hangs(p, h, gone)
  PROVE  Placed'
<1>1. \A c : c.do \notin {"handler", "await"} => (c \in Jobs' <=> c \in Jobs)
  BY HangsJobs
<1>2. \A e : Settling(e)' <=> Settling(e)
  BY HangsJobs
<1>3. QueriesKept
  BY <1>2, MadeBound DEF QueriesKept, Batched, Hangs
<1>4. evaluation # "resolving" => \A c \in Jobs' : c.do # "count"
  BY <1>1 DEF Placed
<1>5. QED
  BY <1>3, <1>4, PlacedKept DEF Hangs

LEMMA HangsAnswered ==
  ASSUME BatchTypeOK, Fresh, Answered, NEW p, NEW h, NEW gone, Hangs(p, h, gone)
  PROVE  Answered'
<1>1. \A c : c.do \notin {"handler", "await"} => (c \in Jobs' <=> c \in Jobs)
  BY HangsJobs
<1>2. \A e : Settling(e)' <=> Settling(e)
  BY HangsJobs
<1>3. \A d \in 1..made' : query[d] # NoQuery => d \in 1..made
  <2>1. made' \in 0..MaxDeferreds
    BY DEF Hangs
  <2>2. QED
    BY <2>1, MadeBound DEF Fresh, Deferreds
<1>4. Waiting' = Waiting
  BY DEF Waiting, Hangs
<1>5. QED
  BY <1>1, <1>2, <1>3, <1>4 DEF Hangs, Answered, IsQuery, Right, ResolveCall

LEMMA HangsGrouped ==
  ASSUME BatchTypeOK, Fresh, Grouped, NEW p, NEW h, NEW gone, Hangs(p, h, gone)
  PROVE  Grouped'
<1>0. PICK m : m = Len(handlers[p]) + 1
  OBVIOUS
<1>1. /\ p \in Deferreds /\ m \in DOMAIN handlers'[p]
      /\ \A q \in Deferreds : \A i \in DOMAIN handlers'[q] :
           \/ q = p /\ i = m /\ handlers'[q][i] = h
           \/ i \in DOMAIN handlers[q] /\ handlers'[q][i] = handlers[q][i] /\ ~(q = p /\ i = m)
      /\ \A q \in Deferreds : \A i \in DOMAIN handlers[q] :
           i \in DOMAIN handlers'[q] /\ handlers'[q][i] = handlers[q][i]
  BY <1>0, HangsHandlers
<1>2. /\ \A c : c.do \notin {"handler", "await"} => (c \in Jobs' <=> c \in Jobs)
      /\ \A e : Settling(e)' <=> Settling(e)
      /\ \A q \in Deferreds : \A i \in DOMAIN handlers[q] : Unrun(q, i)' <=> Unrun(q, i)
      /\ Unrun(p, m)'
  BY <1>0, HangsJobs
<1>3. /\ state' = state /\ value' = value /\ group' = group /\ 1..made \subseteq 1..made'
      /\ handlers'[p][m] = h
  BY <1>0, <1>1, MadeBound, HangsHandlers DEF Hangs
<1>4. SUFFICES ASSUME NEW r \in 1..made', group[r].of # <<>> PROVE GroupOf(r)'
  BY <1>3 DEF Grouped
<1>5. r \in 1..made
  <2>1. made' \in 0..MaxDeferreds
    BY DEF Hangs
  <2>2. QED
    BY <2>1, <1>4, MadeBound DEF Fresh, Deferreds
<1>6. GroupOf(r) /\ \A i \in DOMAIN group[r].of : group[r].of[i] \in 1..made
  BY <1>4, <1>5 DEF Grouped, GroupOf
<1>7. ASSUME NEW i \in DOMAIN group[r].of
      PROVE  /\ Passed(r, i)' <=> Passed(r, i)
             /\ Hung(r, i)' <=> Hung(r, i) \/ h.cb = AllCallback(r, i)
             /\ AwaitCall(r, i) \in Jobs' <=> AwaitCall(r, i) \in Jobs /\ h.cb # AllCallback(r, i)
  <2>1. PICK q : q = group[r].of[i]
    OBVIOUS
  <2>2. q \in Deferreds
    BY <2>1, <1>6, MadeBound
  <2>3. h.cb = AllCallback(r, i) => q = p
    <3>1. SUFFICES ASSUME h.cb = AllCallback(r, i) PROVE q = p
      OBVIOUS
    <3>2. h.cb.does = "all" /\ h.cb.of = r /\ h.cb.index = i
      BY <3>1, AllFields
    <3>3. QED
      BY <2>1, <3>2 DEF Hangs
  <2>4. Hung(r, i)' <=> Hung(r, i) \/ h.cb = AllCallback(r, i)
    BY <2>1, <2>2, <2>3, <1>1, <1>3 DEF Hung
  <2>5. Passed(r, i)' <=> Passed(r, i)
    <3>1. ASSUME NEW j \in DOMAIN handlers'[q], handlers'[q][j].cb = AllCallback(r, i), ~Unrun(q, j)'
          PROVE  Passed(r, i)
      <4>1. ~(q = p /\ j = m)
        BY <3>1, <1>2
      <4>2. j \in DOMAIN handlers[q] /\ handlers'[q][j] = handlers[q][j]
        BY <4>1, <3>1, <2>2, <1>1
      <4>3. QED
        BY <4>2, <3>1, <2>1, <2>2, <1>2 DEF Passed
    <3>2. ASSUME NEW j \in DOMAIN handlers[q], handlers[q][j].cb = AllCallback(r, i), ~Unrun(q, j)
          PROVE  j \in DOMAIN handlers'[q] /\ handlers'[q][j].cb = AllCallback(r, i) /\ ~Unrun(q, j)'
      BY <3>2, <2>2, <1>1, <1>2
    <3>3. Passed(r, i)' <=> \E j \in DOMAIN handlers'[q] : handlers'[q][j].cb = AllCallback(r, i) /\ ~Unrun(q, j)'
      BY <2>1, <1>3 DEF Passed
    <3>4. Passed(r, i) <=> \E j \in DOMAIN handlers[q] : handlers[q][j].cb = AllCallback(r, i) /\ ~Unrun(q, j)
      BY <2>1 DEF Passed
    <3>5. QED
      BY <3>1, <3>2, <3>3, <3>4
  <2>6. AwaitCall(r, i) \in gone <=> h.cb = AllCallback(r, i)
    <3>1. CASE h.cb.does = "all"
      BY <3>1, AllFields DEF Hangs
    <3>2. CASE h.cb.does # "all"
      BY <3>2, AllFields DEF Hangs
    <3>3. QED
      BY <3>1, <3>2
  <2>7. AwaitCall(r, i) \in Jobs' <=> AwaitCall(r, i) \in Jobs /\ h.cb # AllCallback(r, i)
    <3>1. AwaitCall(r, i) # HandlerCall(p, Len(handlers[p]) + 1)
      BY AllFields, HandlerFields
    <3>2. QED
      BY <3>1, <2>6 DEF Hangs
  <2>8. QED
    BY <2>4, <2>5, <2>7
<1>8. \A i \in DOMAIN group[r].of : AwaitCall(r, i) \in Jobs' <=> ~Hung(r, i)'
  BY <1>6, <1>7 DEF GroupOf
<1>9. QED
  BY <1>2, <1>3, <1>6, <1>7, <1>8, GroupKept

\* The three ways in which a callback is hung, by a client, by fetchall() and by all().
LEMMA HangCalls ==
  ASSUME BatchTypeOK, OneCall, NEW d \in 1..made, NEW cb, NEW next, Hang(d, cb, next)
  PROVE  /\ CallsOK'
         /\ Jobs' = (IF state[d] = "pending" THEN {} ELSE {HandlerCall(d, Len(handlers[d]) + 1)})
                    \cup (IF calls = <<>> THEN {} ELSE Jobs \ {Top})
<1>0. PICK a : a = HandlerCall(d, Len(handlers[d]) + 1)
  OBVIOUS
<1>1. calls' = (IF state[d] = "pending" THEN <<>> ELSE <<a>>) \o (IF calls = <<>> THEN <<>> ELSE Rest)
  BY <1>0 DEF Hang
<1>2. \A c \in Jobs : Key(a) # Key(c)
  <2>1. SUFFICES ASSUME NEW c \in Jobs, Key(a) = Key(c) PROVE FALSE
    OBVIOUS
  <2>2. c.do = "handler" /\ c.of = d /\ c.at = Len(handlers[d]) + 1
    BY <2>1, <1>0, HandlerFields DEF Key
  <2>3. c.at \in DOMAIN handlers[d]
    BY <2>2, Kinds DEF BatchTypeOK, Jobs
  <2>4. handlers[d] \in Seq(Handlers)
    BY MadeBound DEF BatchTypeOK
  <2>5. QED
    BY <2>2, <2>3, <2>4
<1>3. PICK s : s = IF state[d] = "pending" THEN <<>> ELSE <<a>>
  OBVIOUS
<1>4. s \in Seq(ToSet(s)) /\ Distinct(s) /\ ToSet(s) = IF state[d] = "pending" THEN {} ELSE {a}
  BY <1>3, Few
<1>5. CASE calls # <<>>
  <2>1. calls' = s \o Rest
    BY <1>1, <1>3, <1>5
  <2>2. \A x \in ToSet(s), c \in Jobs \ {Top} : Key(x) # Key(c)
    BY <1>2, <1>4
  <2>3. CallsOK' /\ Jobs' = ToSet(s) \cup (Jobs \ {Top})
    BY <1>4, <1>5, <2>1, <2>2, Pushed DEF CallsOK, BatchTypeOK
  <2>4. QED
    BY <2>3, <1>0, <1>4, <1>5
<1>6. CASE calls = <<>>
  <2>1. calls' = s
    <3>1. calls' = s \o <<>>
      BY <1>1, <1>3, <1>6
    <3>2. QED
      BY <3>1, <1>4, ConcatEmptySeq
  <2>2. CallsOK' /\ Jobs' = ToSet(s)
    BY <2>1, <1>4 DEF CallsOK, OneCall, Jobs
  <2>3. QED
    BY <2>2, <1>0, <1>4, <1>6
<1>7. QED
  BY <1>5, <1>6

LEMMA HandlerIs ==
  ASSUME NEW cb, NEW next
  PROVE  LET h == [cb |-> cb, next |-> next] IN
         /\ h.cb = cb /\ h.next = next
         /\ Targets(h) = {next} \cup (IF cb.does = "rows" THEN {cb.of} ELSE {})
BY DEF Targets

LEMMA AwaitHangs ==
  ASSUME IInv, AwaitNext
  PROVE  \E p, h, gone : Hangs(p, h, gone)
<1>1. /\ BatchTypeOK /\ OneCall /\ Grouped /\ calls # <<>> /\ Top.do = "await"
  BY DEF IInv, AwaitNext, Calling
<1>2. Top \in Jobs /\ IsCall(Top)
  BY <1>1, WithoutTop DEF BatchTypeOK, OneCall, Jobs, Top
<1>3. PICK r, i : r = Top.of /\ i = Top.at
  OBVIOUS
<1>4. r \in 1..made /\ Top = AwaitCall(r, i) /\ i \in DOMAIN group[r].of
  BY <1>1, <1>2, <1>3, Kinds
<1>5. /\ r \in Deferreds /\ made \in Nat /\ made + 1 \in 0..MaxDeferreds /\ made + 1 \in Deferreds
      /\ made + 1 \in 1..(made + 1) /\ made + 1 > made
  BY <1>1, <1>4, MadeBound DEF AwaitNext, Room, Deferreds
<1>6. group[r].of \in Seq(Deferreds)
  BY <1>1, <1>5 DEF BatchTypeOK, IsGroup
<1>7. i \in Nat /\ group[r].of # <<>>
  BY <1>4, <1>6
<1>8. PICK p : p = group[r].of[i]
  OBVIOUS
<1>9. p \in 1..made
  BY <1>1, <1>4, <1>7, <1>8 DEF Grouped, GroupOf
<1>10. PICK cb, n : cb = AllCallback(r, i) /\ n = made + 1
  OBVIOUS
<1>11. PICK h : h = [cb |-> cb, next |-> n]
  OBVIOUS
<1>12. cb.does = "all" /\ cb.of = r /\ cb.index = i
  BY <1>10, AllFields
<1>13. h \in Handlers
  BY <1>5, <1>7, <1>10, <1>11 DEF Handlers, AllCallback
<1>14. h.cb = cb /\ h.next = n /\ Targets(h) = {n}
  BY <1>11, <1>12, HandlerIs
<1>15. Hang(p, cb, n) /\ made' = made + 1
  BY <1>3, <1>8, <1>10 DEF AwaitNext
<1>16. /\ CallsOK'
       /\ Jobs' = (IF state[p] = "pending" THEN {} ELSE {HandlerCall(p, Len(handlers[p]) + 1)}) \cup (Jobs \ {Top})
  BY <1>1, <1>9, <1>15, HangCalls
<1>17. handlers' = [handlers EXCEPT ![p] = Append(@, h)]
  BY <1>11, <1>15 DEF Hang
<1>18. Hangs(p, h, {Top})
  BY <1>2, <1>4, <1>5, <1>8, <1>9, <1>10, <1>12, <1>13, <1>14, <1>15, <1>16, <1>17 DEF Hangs, AwaitNext, collectorVars
<1>19. QED
  BY <1>18

LEMMA ClientHangs ==
  ASSUME IInv, NEW d \in 1..made, (\E does \in Callbacks : OnResult(d, does)) \/ FetchAll(d)
  PROVE  \E p, h, gone : Hangs(p, h, gone)
<1>1. BatchTypeOK /\ OneCall /\ made \in Nat /\ MaxDeferreds \in Nat
  BY MadeBound DEF IInv
<1>2. CASE \E does \in Callbacks : OnResult(d, does)
  <2>1. PICK does \in Callbacks : OnResult(d, does)
    BY <1>2
  <2>2. PICK cb, n : cb = ClientCallback(does) /\ n = made + 1
    OBVIOUS
  <2>3. PICK h : h = [cb |-> cb, next |-> n]
    OBVIOUS
  <2>4. /\ n \in 0..MaxDeferreds /\ n \in Deferreds /\ n \in 1..n /\ n > made
    BY <1>1, <2>1, <2>2 DEF OnResult, Room, Deferreds
  <2>5. cb.does = does /\ cb.does # "rows" /\ cb.does # "all"
    BY <2>2, BatchAssumption DEF ClientCallback
  <2>6. h \in Handlers
    BY <2>2, <2>3, <2>4 DEF Handlers, ClientCallback
  <2>7. h.cb = cb /\ h.next = n /\ Targets(h) = {n}
    BY <2>3, <2>5, HandlerIs
  <2>8. Hang(d, cb, n) /\ made' = n /\ calls = <<>>
    BY <2>1, <2>2 DEF OnResult, Quiet
  <2>9. Jobs = {}
    BY <2>8, Few DEF Jobs
  <2>10. /\ CallsOK'
         /\ Jobs' = (IF state[d] = "pending" THEN {} ELSE {HandlerCall(d, Len(handlers[d]) + 1)}) \cup (Jobs \ {})
    BY <1>1, <2>8, <2>9, HangCalls
  <2>11. handlers' = [handlers EXCEPT ![d] = Append(@, h)]
    BY <2>3, <2>8 DEF Hang
  <2>12. Hangs(d, h, {})
    BY <2>1, <2>4, <2>5, <2>6, <2>7, <2>8, <2>10, <2>11 DEF Hangs, OnResult, collectorVars
  <2>13. QED
    BY <2>12
<1>3. CASE FetchAll(d)
  <2>2. PICK cb, n, r : cb = RowsCallback(r) /\ n = made + 2 /\ r = made + 1
    OBVIOUS
  <2>3. PICK h : h = [cb |-> cb, next |-> n]
    OBVIOUS
  <2>4. /\ n \in 0..MaxDeferreds /\ n \in Deferreds /\ n \in 1..n /\ n > made
        /\ r \in Deferreds /\ r \in 1..n /\ r > made /\ r # n
    BY <1>1, <1>3, <2>2 DEF FetchAll, Room, Deferreds
  <2>5. cb.does = "rows" /\ cb.of = r
    BY <2>2 DEF RowsCallback
  <2>6. h \in Handlers
    BY <2>2, <2>3, <2>4 DEF Handlers, RowsCallback
  <2>7. h.cb = cb /\ h.next = n /\ Targets(h) = {n, r}
    BY <2>3, <2>5, HandlerIs
  <2>8. Hang(d, cb, n) /\ made' = n /\ calls = <<>>
    BY <1>3, <2>2 DEF FetchAll, Quiet
  <2>9. Jobs = {}
    BY <2>8, Few DEF Jobs
  <2>10. /\ CallsOK'
         /\ Jobs' = (IF state[d] = "pending" THEN {} ELSE {HandlerCall(d, Len(handlers[d]) + 1)}) \cup (Jobs \ {})
    BY <1>1, <2>8, <2>9, HangCalls
  <2>11. handlers' = [handlers EXCEPT ![d] = Append(@, h)]
    BY <2>3, <2>8 DEF Hang
  <2>12. Hangs(d, h, {})
    BY <1>3, <2>4, <2>5, <2>6, <2>7, <2>8, <2>10, <2>11 DEF Hangs, FetchAll, collectorVars
  <2>13. QED
    BY <2>12
<1>4. QED
  BY <1>2, <1>3

\* A callback that is hung keeps the invariant.
LEMMA HangsInv ==
  ASSUME IInv, NEW p, NEW h, NEW gone, Hangs(p, h, gone)
  PROVE  IInv'
<1>1. OneCall'
  BY DEF Hangs, CallsOK
<1>2. BatchTypeOK' /\ Fresh' /\ Linked' /\ SettledOnce' /\ Placed' /\ Answered' /\ Grouped'
  BY HangsTypeOK, HangsFresh, HangsLinked, HangsSettledOnce, HangsPlaced, HangsAnswered, HangsGrouped DEF IInv
<1>3. QED
  BY <1>1, <1>2 DEF IInv

-----------------------------------------------------------------------------
(* The steps of the collector, which leave the deferreds as they are.          *)

\* A step that leaves the deferreds alone, and all calls but the counting of errors.
LEMMA DeferredsKept ==
  ASSUME BatchTypeOK, Fresh, Linked, SettledOnce, Grouped, deferredVars' = deferredVars,
         \A c : c.do # "count" => (c \in Jobs' <=> c \in Jobs)
  PROVE  /\ Fresh' /\ Linked' /\ SettledOnce' /\ Grouped' /\ QueriesKept
         /\ \A e : Settling(e)' <=> Settling(e)
<1>1. /\ made' = made /\ query' = query /\ state' = state /\ value' = value
      /\ handlers' = handlers /\ group' = group
  BY DEF deferredVars
<1>2. \A e : Settling(e)' <=> Settling(e)
  BY DEF Settling
<1>3. \A p, i : Unrun(p, i)' <=> Unrun(p, i)
  BY <1>1, HandlerFields DEF Unrun
<1>4. Fresh' /\ Linked'
  BY <1>1, LinkedKept DEF Fresh
<1>5. QueriesKept
  BY <1>1, <1>2 DEF QueriesKept, Batched
<1>6. SettledOnce'
  <2>1. \A c \in Jobs' : c.do = "settle" => state[c.of] = "pending"
    BY DEF SettledOnce
  <2>2. \A c \in Jobs' : c.do = "handler" => state[c.of] # "pending"
    BY DEF SettledOnce
  <2>3. ASSUME NEW p \in Deferreds, NEW i \in DOMAIN handlers[p]
        PROVE  IF Unrun(p, i)' THEN \A t \in Targets(handlers[p][i]) : state[t] = "pending" /\ ~Settling(t)'
               ELSE \A t : t = handlers[p][i].next => state[t] # "pending" \/ Settling(t)'
    BY <1>2, <1>3, <2>3 DEF SettledOnce
  <2>4. QED
    BY <1>1, <2>1, <2>2, <2>3 DEF SettledOnce, Targets
<1>7. Grouped'
  <2>1. SUFFICES ASSUME NEW r \in 1..made, group[r].of # <<>> PROVE GroupOf(r)'
    BY <1>1 DEF Grouped
  <2>2. GroupOf(r)
    BY <2>1 DEF Grouped
  <2>3. \A i \in DOMAIN group[r].of : Passed(r, i)' <=> Passed(r, i)
    BY <1>1, <1>3 DEF Passed
  <2>4. \A i \in DOMAIN group[r].of : AwaitCall(r, i) \in Jobs' <=> ~Hung(r, i)'
    <3>1. \A i \in DOMAIN group[r].of : Hung(r, i)' <=> Hung(r, i)
      BY <1>1 DEF Hung
    <3>2. \A i \in DOMAIN group[r].of : AwaitCall(r, i) \in Jobs' <=> AwaitCall(r, i) \in Jobs
      BY AllFields
    <3>3. QED
      BY <3>1, <3>2, <2>2 DEF GroupOf
  <2>5. QED
    BY <1>1, <1>2, <2>2, <2>3, <2>4, GroupKept
<1>8. QED
  BY <1>2, <1>4, <1>5, <1>6, <1>7

LEMMA CountInv ==
  ASSUME IInv, CountErrors
  PROVE  IInv'
<1>1. /\ BatchTypeOK /\ OneCall /\ Fresh /\ Linked /\ SettledOnce /\ Placed /\ Answered /\ Grouped
      /\ deferredVars' = deferredVars /\ calls # <<>> /\ Top.do = "count" /\ calls' = Rest
      /\ queue' = queue /\ current' = current /\ evaluation' = evaluation /\ inserted' = inserted /\ lost' = lost
  BY DEF IInv, CountErrors, Calling
<1>2. CallsOK' /\ Jobs' = Jobs \ {Top}
  BY <1>1, Popped DEF BatchTypeOK, CallsOK
<1>3. \A c : c.do # "count" => (c \in Jobs' <=> c \in Jobs)
  BY <1>1, <1>2
<1>4. Fresh' /\ Linked' /\ SettledOnce' /\ Grouped' /\ QueriesKept /\ \A e : Settling(e)' <=> Settling(e)
  BY <1>1, <1>3, DeferredsKept
<1>5. Placed'
  BY <1>1, <1>2, <1>4, PlacedKept DEF Placed
<1>6. Answered'
  BY <1>1, <1>2, <1>4 DEF Answered, IsQuery, Right, Waiting, deferredVars
<1>7. BatchTypeOK'
  <2>1. failed' \in BOOLEAN
    BY DEF CountErrors
  <2>2. \A c \in Jobs' : IsCall(c)'
    BY <1>1, <1>2 DEF BatchTypeOK, Jobs, IsCall, deferredVars
  <2>3. QED
    BY <1>1, <1>2, <2>1, <2>2 DEF BatchTypeOK, CallsOK, Jobs, deferredVars
<1>8. QED
  BY <1>2, <1>4, <1>5, <1>6, <1>7 DEF IInv, CallsOK

\* The collector's steps but the database's answer.
Evaluation == Clear \/ StartEvaluation \/ DatabaseFails \/ EndQuery \/ RaiseErrors

LEMMA Empty ==
  /\ ResultsOf(<<>>) = {} /\ OnePlace(<<>>) /\ OfTheirQuery(<<>>)
  /\ \A s : s \in Seq(MultiQueries) => ResultsOf(s) \subseteq Deferreds
<1>1. DOMAIN <<>> = {}
  OBVIOUS
<1>2. ResultsOf(<<>>) = {} /\ OnePlace(<<>>) /\ OfTheirQuery(<<>>)
  BY <1>1, PlaceOfResult DEF OnePlace, OfTheirQuery
<1>3. ASSUME NEW s \in Seq(MultiQueries) PROVE ResultsOf(s) \subseteq Deferreds
  <2>1. SUFFICES ASSUME NEW i \in DOMAIN s, NEW j \in DOMAIN s[i].results PROVE s[i].results[j] \in Deferreds
    BY PlaceOfResult
  <2>2. s[i] \in MultiQueries
    OBVIOUS
  <2>3. s[i].results \in Seq(Deferreds)
    BY <2>2 DEF MultiQueries
  <2>4. QED
    BY <2>3
<1>4. QED
  BY <1>2, <1>3

\* What the collector's steps do to its map.
LEMMA EvaluationMoves ==
  ASSUME IInv, Evaluation
  PROVE  /\ deferredVars' = deferredVars /\ calls' = calls /\ inserted' = inserted /\ Jobs' = {} /\ Jobs = {}
         /\ failed' = failed
         /\ \/ queue' = queue /\ current' = current /\ lost' = lost
            \/ queue' = <<>> /\ current' = current /\ lost' = lost \cup ResultsOf(queue)
            \/ queue' = <<>> /\ current' = queue /\ lost' = lost /\ current = <<>>
            \/ queue' = queue /\ current' = <<>> /\ lost' = lost \cup ResultsOf(current)
         /\ evaluation' \in {"idle", "evaluating", "resolving"}
         /\ evaluation' = "evaluating" => current' # <<>>
         /\ evaluation' = "idle" => current' = <<>>
<1>1. calls = <<>> /\ Placed
  BY DEF IInv, Evaluation, Clear, StartEvaluation, DatabaseFails, EndQuery, RaiseErrors, Quiet, AllResolved
<1>2. Jobs = {}
  BY <1>1, Few DEF Jobs
<1>3. deferredVars' = deferredVars /\ calls' = calls /\ inserted' = inserted /\ failed' = failed
  BY DEF Evaluation, Clear, StartEvaluation, DatabaseFails, EndQuery, RaiseErrors, EndWithError
<1>4. Jobs' = {}
  BY <1>1, <1>3, Few DEF Jobs
<1>5. evaluation = "evaluating" => current # <<>>
  BY <1>1 DEF Placed
<1>6. evaluation = "idle" => current = <<>>
  BY <1>1 DEF Placed
<1>7. /\ \/ queue' = queue /\ current' = current /\ lost' = lost
         \/ queue' = <<>> /\ current' = current /\ lost' = lost \cup ResultsOf(queue)
         \/ queue' = <<>> /\ current' = queue /\ lost' = lost /\ current = <<>>
         \/ queue' = queue /\ current' = <<>> /\ lost' = lost \cup ResultsOf(current)
      /\ evaluation' \in {"idle", "evaluating", "resolving"}
      /\ evaluation' = "evaluating" => current' # <<>>
      /\ evaluation' = "idle" => current' = <<>>
  <2>1. CASE Clear
    BY <2>1, <1>5, <1>6 DEF Clear, IInv, BatchTypeOK
  <2>2. CASE StartEvaluation
    BY <2>2, <1>6 DEF StartEvaluation
  <2>3. CASE DatabaseFails \/ RaiseErrors
    BY <2>3 DEF DatabaseFails, RaiseErrors, EndWithError
  <2>4. CASE EndQuery
    BY <2>4 DEF EndQuery, SwapMap
  <2>5. QED
    BY <2>1, <2>2, <2>3, <2>4 DEF Evaluation
<1>8. QED
  BY <1>2, <1>3, <1>4, <1>7

LEMMA EvaluationInv ==
  ASSUME IInv, Evaluation
  PROVE  IInv'
<1>1. /\ BatchTypeOK /\ OneCall /\ Fresh /\ Linked /\ SettledOnce /\ Placed /\ Answered /\ Grouped
      /\ deferredVars' = deferredVars /\ calls' = calls /\ inserted' = inserted /\ Jobs' = {} /\ Jobs = {}
      /\ \/ queue' = queue /\ current' = current /\ lost' = lost
         \/ queue' = <<>> /\ current' = current /\ lost' = lost \cup ResultsOf(queue)
         \/ queue' = <<>> /\ current' = queue /\ lost' = lost /\ current = <<>>
         \/ queue' = queue /\ current' = <<>> /\ lost' = lost \cup ResultsOf(current)
  BY EvaluationMoves DEF IInv
<1>2. Fresh' /\ Linked' /\ SettledOnce' /\ Grouped' /\ QueriesKept /\ \A e : Settling(e)' <=> Settling(e)
  BY <1>1, DeferredsKept
<1>3. OneCall'
  BY <1>1 DEF OneCall
<1>4. BatchTypeOK'
  <2>1. \A c \in ToSet(calls') : IsCall(c)'
    BY <1>1 DEF BatchTypeOK, IsCall, deferredVars
  <2>2. <<>> \in Seq(MultiQueries)
    OBVIOUS
  <2>3. queue' \in Seq(MultiQueries) /\ current' \in Seq(MultiQueries) /\ lost' \subseteq Deferreds
    BY <1>1, <2>2, Empty DEF BatchTypeOK
  <2>4. QED
    BY <1>1, <2>1, <2>3, EvaluationMoves DEF BatchTypeOK, deferredVars
<1>5. Waiting' \subseteq Waiting /\ Waiting \subseteq Waiting' \cup lost' /\ lost \subseteq lost'
  BY <1>1, Empty DEF Waiting
<1>6. /\ ResultsOf(queue') \cap ResultsOf(current') = {}
      /\ OnePlace(queue') /\ OnePlace(current') /\ OneEntry'
  BY <1>1, Empty DEF Placed, OneEntry
<1>8. OfTheirQuery(queue)' /\ OfTheirQuery(current)'
  BY <1>1, <1>2, Empty DEF Placed, OfTheirQuery, Batched, deferredVars
<1>9. Placed'
  BY <1>1, <1>5, <1>6, <1>8, EvaluationMoves DEF Placed, Batched, deferredVars
<1>10. Answered'
  BY <1>1, <1>2, <1>5 DEF Answered, IsQuery, Right, deferredVars
<1>11. QED
  BY <1>2, <1>3, <1>4, <1>9, <1>10 DEF IInv

-----------------------------------------------------------------------------
(* A client's steps that make a deferred.                                      *)

LEMMA QuietJobs ==
  ASSUME calls = <<>>
  PROVE  Jobs = {} /\ \A e : ~Settling(e)
BY Few DEF Jobs, Settling

\* A new deferred leaves the others as they are.
LEMMA OthersKept ==
  ASSUME BatchTypeOK, Fresh, Linked, SettledOnce, calls = <<>>,
         NEW n, n = made + 1, made' = n, n \in Deferreds,
         \A e \in Deferreds : e # n => query'[e] = query[e] /\ state'[e] = state[e] /\ group'[e] = group[e],
         value' = value, handlers' = handlers,
         \A c \in Jobs' : c.of = n /\ c.do # "handler" /\ (c.do = "settle" => state'[n] = "pending")
  PROVE  /\ n \notin 1..made /\ 1..made' = 1..made \cup {n} /\ 1..made \subseteq Deferreds
         /\ Linked' /\ SettledOnce' /\ QueriesKept
         /\ \A e : e # n => ~Settling(e)'
<1>1. n \notin 1..made /\ 1..made' = 1..made \cup {n} /\ 1..made \subseteq Deferreds
  BY MadeBound
<1>2. Jobs = {} /\ \A e : ~Settling(e)
  BY QuietJobs
<1>3. \A e : e # n => ~Settling(e)'
  BY DEF Settling
<1>4. ASSUME NEW p \in Deferreds, NEW i \in DOMAIN handlers[p] PROVE HandlerOf(p, i)'
  <2>1. HandlerOf(p, i)
    BY DEF Linked
  <2>2. \A e \in 1..made : e \in 1..made' /\ query'[e] = query[e] /\ group'[e] = group[e]
    BY <1>1
  <2>3. QED
    BY <2>1, <2>2 DEF HandlerOf, Plain, Targets
<1>5. HandlersApart'
  BY ApartKept DEF Linked
<1>6. \A p \in Deferreds : \A i \in DOMAIN handlers'[p] : HandlerOf(p, i)'
  BY <1>4
<1>7. Linked'
  BY <1>5, <1>6 DEF Linked
<1>8. ASSUME NEW p \in Deferreds, NEW i \in DOMAIN handlers[p]
      PROVE  IF Unrun(p, i)' THEN \A t \in Targets(handlers[p][i]) : state'[t] = "pending" /\ ~Settling(t)'
             ELSE \A t : t = handlers[p][i].next => state'[t] # "pending" \/ Settling(t)'
  <2>1. p \in 1..made
    BY <1>8, MadeBound DEF Fresh, Deferreds
  <2>2. HandlerOf(p, i)
    BY <1>8 DEF Linked
  <2>3. \A t \in Targets(handlers[p][i]) : t \in 1..made
    BY <2>2 DEF HandlerOf
  <2>4. handlers[p][i].next \in Targets(handlers[p][i])
    BY DEF Targets
  <2>5. Unrun(p, i) <=> state[p] = "pending"
    BY <1>2 DEF Unrun
  <2>6. Unrun(p, i)' <=> state'[p] = "pending"
    BY HandlerFields DEF Unrun
  <2>7. \A e \in 1..made : e # n /\ state'[e] = state[e]
    BY <1>1
  <2>8. IF Unrun(p, i) THEN \A t \in Targets(handlers[p][i]) : state[t] = "pending"
        ELSE state[handlers[p][i].next] # "pending"
    BY <1>2, <1>8 DEF SettledOnce
  <2>9. QED
    BY <1>3, <2>1, <2>3, <2>4, <2>5, <2>6, <2>7, <2>8
<1>9. SettledOnce'
  <2>1. \A c \in Jobs' : c.do = "settle" => state'[c.of] = "pending"
    OBVIOUS
  <2>2. \A c \in Jobs' : c.do = "handler" => state'[c.of] # "pending"
    OBVIOUS
  <2>3. QED
    BY <1>8, <2>1, <2>2 DEF SettledOnce, Targets
<1>10. QueriesKept
  <2>1. ASSUME NEW d, Batched(d)
        PROVE  /\ Batched(d)' /\ query'[d] = query[d] /\ state'[d] = state[d] /\ ~Settling(d)'
    <3>1. d \in 1..made /\ d \in 1..made' /\ d # n /\ d \in Deferreds
      BY <1>1, <2>1 DEF Batched
    <3>2. QED
      BY <2>1, <3>1, <1>3 DEF Batched
  <2>2. QED
    BY <2>1 DEF QueriesKept
<1>11. QED
  BY <1>1, <1>3, <1>7, <1>9, <1>10

LEMMA OtherGroupsKept ==
  ASSUME BatchTypeOK, Fresh, Linked, SettledOnce, Grouped, calls = <<>>,
         NEW n, n = made + 1, made' = n, n \in Deferreds,
         \A e \in Deferreds : e # n => query'[e] = query[e] /\ state'[e] = state[e] /\ group'[e] = group[e],
         value' = value, handlers' = handlers,
         \A c \in Jobs' : c.of = n /\ c.do # "handler" /\ (c.do = "settle" => state'[n] = "pending"),
         NEW r \in 1..made, group[r].of # <<>>
  PROVE  GroupOf(r)'
<1>1. n \notin 1..made /\ 1..made' = 1..made \cup {n} /\ 1..made \subseteq Deferreds
  BY MadeBound
<1>2. Jobs = {} /\ \A e : ~Settling(e)
  BY QuietJobs
<1>3. GroupOf(r)
  BY DEF Grouped
<1>4. \A i \in DOMAIN group[r].of : group[r].of[i] \in 1..made
  BY <1>3 DEF GroupOf
<1>5. \A e \in 1..made : e # n /\ e \in Deferreds /\ state'[e] = state[e] /\ group'[e] = group[e]
  BY <1>1
<1>6. \A i \in DOMAIN group[r].of : Passed(r, i)' <=> Passed(r, i)
  <2>1. \A p \in 1..made : \A j : Unrun(p, j)' <=> Unrun(p, j)
    BY <1>2, <1>5, HandlerFields DEF Unrun
  <2>2. QED
    BY <2>1, <1>4, <1>5 DEF Passed
<1>7. \A i \in DOMAIN group[r].of : AwaitCall(r, i) \in Jobs' <=> ~Hung(r, i)'
  <2>1. \A i \in DOMAIN group[r].of : AwaitCall(r, i) \notin Jobs'
    BY <1>5, AllFields
  <2>2. \A i \in DOMAIN group[r].of : Hung(r, i)
    BY <1>2, <1>3 DEF GroupOf
  <2>3. \A i \in DOMAIN group[r].of : Hung(r, i)' <=> Hung(r, i)
    BY <1>5 DEF Hung
  <2>4. QED
    BY <2>1, <2>2, <2>3
<1>8. \A i \in AllPassed(r) : state'[group[r].of[i]] = state[group[r].of[i]]
  BY <1>4, <1>5 DEF AllPassed
<1>9. ~Settling(r)'
  BY <1>5 DEF Settling
<1>10. QED
  BY <1>1, <1>2, <1>3, <1>5, <1>6, <1>7, <1>8, <1>9, GroupKept

\* A query collected by a coroutine.
LEMMA ExecuteInv ==
  ASSUME IInv, NEW text \in DOMAIN Queries, Execute(text)
  PROVE  IInv'
<1>0. PICK n : n = made + 1
  OBVIOUS
<1>1. /\ BatchTypeOK /\ OneCall /\ Fresh /\ Linked /\ SettledOnce /\ Placed /\ Answered /\ Grouped
      /\ calls = <<>> /\ calls' = calls /\ CollectQuery(text)
      /\ value' = value /\ handlers' = handlers /\ raised' = raised /\ group' = group
      /\ current' = current /\ evaluation' = evaluation /\ failed' = failed /\ inserted' = inserted /\ lost' = lost
  BY DEF IInv, Execute, Quiet
<1>2. Jobs = {} /\ (\A e : ~Settling(e)) /\ Jobs' = {} /\ \A e : ~Settling(e)'
  <2>1. Jobs = {} /\ Jobs' = {}
    BY <1>1, Few DEF Jobs
  <2>2. QED
    BY <2>1 DEF Settling
<1>3. /\ made' = n /\ n \in Deferreds /\ made' \in 0..MaxDeferreds
      /\ query' \in [Deferreds -> DOMAIN Queries \cup {NoQuery}]
      /\ state' \in [Deferreds -> {"pending", "resolved", "rejected"}]
      /\ \A e \in Deferreds : e # n => query'[e] = query[e] /\ state'[e] = state[e]
  BY <1>0, <1>1, Collected
<1>4. /\ n \notin 1..made /\ 1..made' = 1..made \cup {n} /\ 1..made \subseteq Deferreds
      /\ Linked' /\ SettledOnce' /\ QueriesKept
  BY <1>0, <1>1, <1>2, <1>3, OthersKept
<1>5. Placed' /\ queue' \in Seq(MultiQueries)
  BY <1>1, <1>2, <1>4, PlacedCollected
<1>6. Answered'
  BY <1>1, <1>2, AnsweredCollected
<1>7. Grouped'
  <2>1. \A r \in 1..made : group[r].of # <<>> => GroupOf(r)'
    BY <1>0, <1>1, <1>2, <1>3, OtherGroupsKept
  <2>2. group[n].of = <<>>
    BY <1>0, <1>1, <1>3, MadeBound DEF Fresh, Deferreds
  <2>3. QED
    BY <1>1, <1>4, <2>1, <2>2 DEF Grouped
<1>8. Fresh'
  <2>1. \A e \in Deferreds : e > made' => e > made /\ e # n
    BY <1>0, <1>1, <1>3, MadeBound DEF Deferreds
  <2>2. QED
    BY <1>1, <1>3, <2>1 DEF Fresh
<1>9. BatchTypeOK'
  BY <1>1, <1>2, <1>3, <1>5 DEF BatchTypeOK, Jobs
<1>10. OneCall'
  BY <1>1 DEF OneCall
<1>11. QED
  BY <1>4, <1>5, <1>6, <1>7, <1>8, <1>9, <1>10 DEF IInv

LEMMA AwaitCalls ==
  ASSUME NEW r, NEW ds, NEW D, ds \in Seq(D), NEW s, s = [i \in DOMAIN ds |-> AwaitCall(r, i)]
  PROVE  s \in Seq(ToSet(s)) /\ Distinct(s) /\ ToSet(s) = {AwaitCall(r, i) : i \in DOMAIN ds}
<1>1. DOMAIN ds = 1..Len(ds) /\ Len(ds) \in Nat
  OBVIOUS
<1>2. s \in Seq(ToSet(s))
  BY <1>1, OfItsOwnElements
<1>3. Distinct(s)
  BY AllFields DEF Distinct, Key
<1>4. ToSet(s) = {AwaitCall(r, i) : i \in DOMAIN ds}
  BY DEF ToSet
<1>5. QED
  BY <1>2, <1>3, <1>4

\* all() of any deferreds.
LEMMA WaitInv ==
  ASSUME IInv, NEW k \in Nat, NEW ds \in [1..k -> 1..made], WaitForAll(ds)
  PROVE  IInv'
<1>0. PICK n, g : n = made + 1 /\ g = [of |-> ds, values |-> [i \in DOMAIN ds |-> NoRow], count |-> 0, rejected |-> FALSE]
  OBVIOUS
<1>1. /\ BatchTypeOK /\ OneCall /\ Fresh /\ Linked /\ SettledOnce /\ Placed /\ Answered /\ Grouped
      /\ calls = <<>> /\ made' = n /\ group' = [group EXCEPT ![n] = g] /\ made + 1 + Len(ds) <= MaxDeferreds + 1
      /\ calls' = IF ds = <<>> THEN <<ResolveCall(n, ListOf(<<>>))>> ELSE [i \in DOMAIN ds |-> AwaitCall(n, i)]
      /\ query' = query /\ state' = state /\ value' = value /\ handlers' = handlers /\ raised' = raised
      /\ queue' = queue /\ current' = current /\ evaluation' = evaluation /\ failed' = failed
      /\ inserted' = inserted /\ lost' = lost
  BY <1>0, MadeBound DEF IInv, WaitForAll, Quiet, Room, collectorVars
<1>2. /\ made \in Nat /\ MaxDeferreds \in Nat /\ 1..made \subseteq Deferreds /\ Len(ds) = k
      /\ ds \in Seq(Deferreds) /\ DOMAIN ds = 1..k
  BY <1>1, MadeBound
<1>3. n \in Deferreds /\ n \in 0..MaxDeferreds /\ n > made /\ n \notin 1..made /\ n \in 1..n
  BY <1>0, <1>1, <1>2 DEF WaitForAll, Room, Deferreds
<1>4. group'[n] = g /\ \A e \in Deferreds : e # n => group'[e] = group[e]
  BY <1>1, <1>3 DEF BatchTypeOK
<1>5. g.of = ds /\ g.values = [i \in DOMAIN ds |-> NoRow] /\ g.count = 0 /\ g.rejected = FALSE
  BY <1>0
<1>6. IsGroup(g)
  BY <1>0, <1>2, <1>5 DEF IsGroup
<1>7. /\ CallsOK'
      /\ Jobs' = IF ds = <<>> THEN {ResolveCall(n, ListOf(<<>>))} ELSE {AwaitCall(n, i) : i \in DOMAIN ds}
  <2>1. PICK s : s = [i \in DOMAIN ds |-> AwaitCall(n, i)]
    OBVIOUS
  <2>2. s \in Seq(ToSet(s)) /\ Distinct(s) /\ ToSet(s) = {AwaitCall(n, i) : i \in DOMAIN ds}
    BY <2>1, <1>2, AwaitCalls
  <2>3. PICK a : a = ResolveCall(n, ListOf(<<>>))
    OBVIOUS
  <2>4. <<a>> \in Seq(ToSet(<<a>>)) /\ ToSet(<<a>>) = {a} /\ Distinct(<<a>>)
    BY Few
  <2>5. calls' = IF ds = <<>> THEN <<a>> ELSE s
    BY <1>1, <2>1, <2>3
  <2>6. QED
    BY <2>2, <2>3, <2>4, <2>5 DEF CallsOK, OneCall, Jobs
<1>8. \A c \in Jobs' : c.of = n /\ (c.do = "settle" \/ c.do = "await") /\ (c.do = "settle" => ds = <<>>)
  BY <1>7, AllFields, SettleFields DEF ResolveCall
<1>9. state'[n] = "pending" /\ query'[n] = NoQuery /\ value'[n] = NoRow /\ handlers'[n] = <<>>
  BY <1>1, <1>3 DEF Fresh
<1>10. \A c \in Jobs' : c.of = n /\ c.do # "handler" /\ (c.do = "settle" => state'[n] = "pending")
  BY <1>8, <1>9
<1>11. /\ 1..made' = 1..made \cup {n} /\ Linked' /\ SettledOnce' /\ QueriesKept
       /\ \A e : e # n => ~Settling(e)'
  BY <1>0, <1>1, <1>3, <1>4, <1>10, OthersKept
<1>12. Fresh'
  <2>1. \A e \in Deferreds : e > made' => e > made /\ e # n
    BY <1>0, <1>1, <1>2 DEF Deferreds
  <2>2. QED
    BY <1>1, <1>4, <2>1 DEF Fresh
<1>13. Placed'
  BY <1>1, <1>8, <1>11, PlacedKept
<1>14. Answered'
  <2>1. \A e \in 1..made : e # n /\ e \in Deferreds /\ group'[e] = group[e] /\ ~Settling(e)
    BY <1>1, <1>2, <1>3, <1>4, QuietJobs
  <2>2. \A d \in 1..made' : query[d] # NoQuery => d \in 1..made
    BY <1>1, <1>9, <1>11
  <2>3. \A c \in Jobs' : query[c.of] = NoQuery
    BY <1>1, <1>8, <1>9
  <2>4. Waiting' = Waiting
    BY <1>1 DEF Waiting
  <2>5. QED
    BY <1>1, <2>1, <2>2, <2>3, <2>4 DEF Answered, IsQuery, Right
<1>15. Grouped'
  <2>1. \A r \in 1..made : group[r].of # <<>> => GroupOf(r)'
    BY <1>0, <1>1, <1>3, <1>4, <1>10, OtherGroupsKept
  <2>2. ASSUME ds # <<>> PROVE GroupOf(n)'
    <3>1. \A i \in DOMAIN ds : ds[i] \in 1..made' /\ AwaitCall(n, i) \in Jobs' /\ ds[i] \in Deferreds
      BY <1>2, <1>7, <1>11, <2>2
    <3>2. \A p \in Deferreds : \A j \in DOMAIN handlers[p] : \A i : handlers[p][j].cb # AllCallback(n, i)
      <4>1. SUFFICES ASSUME NEW p \in Deferreds, NEW j \in DOMAIN handlers[p], NEW i,
                            handlers[p][j].cb = AllCallback(n, i)
                     PROVE  FALSE
        OBVIOUS
      <4>2. handlers[p][j].cb.of \in 1..made
        BY <4>1, <1>1, AllFields DEF Linked, HandlerOf
      <4>3. QED
        BY <4>1, <4>2, <1>3, AllFields
    <3>3. \A i \in DOMAIN ds : ~Hung(n, i)' /\ ~Passed(n, i)'
      BY <1>1, <1>4, <1>5, <3>1, <3>2 DEF Hung, Passed
    <3>4. AllPassed(n)' = {}
      BY <1>4, <1>5, <3>3 DEF AllPassed
    <3>5. Cardinality({}) = 0
      BY FS_EmptySet
    <3>6. Len(ds) # 0
      BY <1>2, <2>2
    <3>7. ~Settling(n)'
      BY <1>8, <2>2 DEF Settling
    <3>8. QED
      BY <1>4, <1>5, <1>9, <3>1, <3>3, <3>4, <3>5, <3>6, <3>7 DEF GroupOf
  <2>3. SUFFICES ASSUME NEW r \in 1..made', group'[r].of # <<>> PROVE GroupOf(r)'
    BY DEF Grouped
  <2>4. CASE r = n
    BY <2>2, <2>3, <2>4, <1>4, <1>5
  <2>5. CASE r # n
    <3>1. r \in 1..made /\ group'[r] = group[r]
      BY <2>3, <2>5, <1>2, <1>4, <1>11
    <3>2. QED
      BY <3>1, <2>1, <2>3
  <2>6. QED
    BY <2>4, <2>5
<1>16. BatchTypeOK'
  <2>1. DOMAIN group' = Deferreds /\ \A r \in Deferreds : IsGroup(group'[r])
    BY <1>1, <1>4, <1>6 DEF BatchTypeOK
  <2>2. \A c \in Jobs' : IsCall(c)'
    <3>1. SUFFICES ASSUME NEW c \in Jobs' PROVE IsCall(c)'
      OBVIOUS
    <3>2. CASE ds = <<>>
      <4>1. c = ResolveCall(n, ListOf(<<>>))
        BY <3>1, <3>2, <1>7
      <4>2. c.of = n /\ c.how = "resolved" /\ c.value = ListOf(<<>>)
        BY <4>1, SettleFields DEF ResolveCall
      <4>3. c = SettleCall(c.of, c.how, c.value)
        BY <4>1, <4>2 DEF ResolveCall
      <4>4. QED
        BY <4>2, <4>3, <1>1, <1>3 DEF IsCall
    <3>3. CASE ds # <<>>
      <4>1. PICK i \in DOMAIN ds : c = AwaitCall(n, i)
        BY <3>1, <3>3, <1>7
      <4>2. c.of = n /\ c.at = i
        BY <4>1, AllFields
      <4>3. QED
        BY <4>1, <4>2, <1>1, <1>3, <1>4, <1>5 DEF IsCall
    <3>4. QED
      BY <3>2, <3>3
  <2>3. QED
    BY <1>1, <1>3, <1>7, <2>1, <2>2 DEF BatchTypeOK, CallsOK, Jobs
<1>17. QED
  BY <1>7, <1>11, <1>12, <1>13, <1>14, <1>15, <1>16 DEF IInv, CallsOK

-----------------------------------------------------------------------------
(* The database's answer.                                                     *)

\* What a deferred of the answered multi-query is resolved with.
AnswerTo(text, e) == ResolveCall(e, IF Queries[text] = "autoincrement" THEN Row(e) ELSE NoRow)

\* The calls of the answer: resolve() of each deferred, then its occurred_err().
LEMMA Halves ==
  ASSUME NEW n \in Nat
  PROVE  /\ \A k \in 1..(2 * n) : (k + 1) \div 2 \in 1..n
         /\ \A k, l \in 1..(2 * n) : (k + 1) \div 2 = (l + 1) \div 2 /\ (k % 2 = 0 <=> l % 2 = 0) => k = l
         /\ \A j \in 1..n : /\ 2 * j \in 1..(2 * n) /\ (2 * j + 1) \div 2 = j /\ (2 * j) % 2 = 0
                            /\ 2 * j - 1 \in 1..(2 * n) /\ (2 * j - 1 + 1) \div 2 = j /\ (2 * j - 1) % 2 # 0
<1>1. ASSUME NEW k \in 1..(2 * n) PROVE (k + 1) \div 2 \in 1..n
  OBVIOUS
<1>2. ASSUME NEW k \in Nat, NEW l \in Nat, (k + 1) \div 2 = (l + 1) \div 2, k % 2 = 0 <=> l % 2 = 0
      PROVE  k = l
  BY <1>2
<1>3. ASSUME NEW j \in 1..n
      PROVE  /\ 2 * j \in 1..(2 * n) /\ (2 * j + 1) \div 2 = j /\ (2 * j) % 2 = 0
             /\ 2 * j - 1 \in 1..(2 * n) /\ (2 * j - 1 + 1) \div 2 = j /\ (2 * j - 1) % 2 # 0
  OBVIOUS
<1>4. QED
  BY <1>1, <1>2, <1>3

LEMMA ResolveCalls ==
  ASSUME NEW multi, multi.results \in Seq(Deferreds),
         \A i, j \in DOMAIN multi.results : multi.results[i] = multi.results[j] => i = j,
         NEW s, s = ResolveAll(multi)
  PROVE  /\ s \in Seq(ToSet(s)) /\ Distinct(s)
         /\ ToSet(s) = {AnswerTo(multi.query, e) : e \in ToSet(multi.results)}
                       \cup {CountCall(e) : e \in ToSet(multi.results)}
<1>0. PICK es, n, text : es = multi.results /\ n = Len(es) /\ text = multi.query
  OBVIOUS
<1>1. DOMAIN es = 1..n /\ n \in Nat
  BY <1>0
<1>2. s = [k \in 1..(2 * n) |-> IF k % 2 = 0 THEN CountCall(es[(k + 1) \div 2]) ELSE AnswerTo(text, es[(k + 1) \div 2])]
  BY <1>0 DEF ResolveAll, AnswerTo
<1>3. DOMAIN s = 1..(2 * n) /\ 2 * n \in Nat
  BY <1>1, <1>2
<1>4. s \in Seq(ToSet(s))
  BY <1>2, <1>3, OfItsOwnElements
<1>5. \A k \in 1..(2 * n) :
        /\ s[k] = IF k % 2 = 0 THEN CountCall(es[(k + 1) \div 2]) ELSE AnswerTo(text, es[(k + 1) \div 2])
        /\ (k + 1) \div 2 \in 1..n
  BY <1>1, <1>2, Halves
<1>6. \A e : /\ CountCall(e).do = "count" /\ CountCall(e).of = e
             /\ AnswerTo(text, e).do = "settle" /\ AnswerTo(text, e).of = e
  BY SettleFields, Built DEF AnswerTo, ResolveCall
<1>7. Distinct(s)
  <2>1. SUFFICES ASSUME NEW k \in 1..(2 * n), NEW l \in 1..(2 * n), Key(s[k]) = Key(s[l])
                 PROVE  k = l
    BY <1>3 DEF Distinct
  <2>2. PICK a, b : a = (k + 1) \div 2 /\ b = (l + 1) \div 2
    OBVIOUS
  <2>3. /\ a \in 1..n /\ b \in 1..n
        /\ s[k] = IF k % 2 = 0 THEN CountCall(es[a]) ELSE AnswerTo(text, es[a])
        /\ s[l] = IF l % 2 = 0 THEN CountCall(es[b]) ELSE AnswerTo(text, es[b])
    BY <1>5, <2>2
  <2>4. s[k].of = es[a] /\ s[l].of = es[b] /\ (s[k].do = "count" <=> k % 2 = 0) /\ (s[l].do = "count" <=> l % 2 = 0)
    BY <1>6, <2>3
  <2>5. es[a] = es[b] /\ (k % 2 = 0 <=> l % 2 = 0)
    BY <2>1, <2>4 DEF Key
  <2>6. a = b
    BY <1>0, <1>1, <2>3, <2>5
  <2>7. QED
    BY <1>1, <2>2, <2>5, <2>6, Halves
<1>8. \A j \in 1..n : CountCall(es[j]) \in ToSet(s) /\ AnswerTo(text, es[j]) \in ToSet(s)
  <2>1. SUFFICES ASSUME NEW j \in 1..n PROVE CountCall(es[j]) \in ToSet(s) /\ AnswerTo(text, es[j]) \in ToSet(s)
    OBVIOUS
  <2>2. /\ 2 * j \in 1..(2 * n) /\ (2 * j + 1) \div 2 = j /\ (2 * j) % 2 = 0
        /\ 2 * j - 1 \in 1..(2 * n) /\ (2 * j - 1 + 1) \div 2 = j /\ (2 * j - 1) % 2 # 0
    BY <1>1, Halves
  <2>3. s[2 * j] = CountCall(es[j]) /\ s[2 * j - 1] = AnswerTo(text, es[j])
    BY <1>5, <2>2
  <2>4. QED
    BY <1>3, <2>2, <2>3 DEF ToSet
<1>9. \A x \in ToSet(s) : \E j \in 1..n : x = CountCall(es[j]) \/ x = AnswerTo(text, es[j])
  BY <1>3, <1>5 DEF ToSet
<1>10. ToSet(es) = {es[j] : j \in 1..n}
  BY <1>1 DEF ToSet
<1>11. ToSet(s) = {AnswerTo(text, e) : e \in ToSet(es)} \cup {CountCall(e) : e \in ToSet(es)}
  <2>1. ASSUME NEW x \in ToSet(s)
        PROVE  x \in {AnswerTo(text, e) : e \in ToSet(es)} \cup {CountCall(e) : e \in ToSet(es)}
    <3>1. PICK j \in 1..n : x = CountCall(es[j]) \/ x = AnswerTo(text, es[j])
      BY <1>9
    <3>2. es[j] \in ToSet(es)
      BY <1>10
    <3>3. QED
      BY <3>1, <3>2
  <2>2. ASSUME NEW e \in ToSet(es) PROVE AnswerTo(text, e) \in ToSet(s) /\ CountCall(e) \in ToSet(s)
    BY <1>8, <1>10
  <2>3. QED
    BY <2>1, <2>2
<1>12. QED
  BY <1>0, <1>4, <1>7, <1>11

\* The multi-query in front and those behind it.
LEMMA HeadAndTail ==
  ASSUME NEW s \in Seq(MultiQueries), s # <<>>, OnePlace(s), OfTheirQuery(s)
  PROVE  LET es == Head(s).results IN
         /\ Head(s) \in MultiQueries /\ es \in Seq(Deferreds)
         /\ Tail(s) \in Seq(MultiQueries) /\ OnePlace(Tail(s)) /\ OfTheirQuery(Tail(s))
         /\ \A i, j \in DOMAIN es : es[i] = es[j] => i = j
         /\ \A e \in ToSet(es) : Batched(e) /\ query[e] = Head(s).query /\ state[e] = "pending" /\ ~Settling(e)
         /\ ResultsOf(s) = ToSet(es) \cup ResultsOf(Tail(s))
         /\ ToSet(es) \cap ResultsOf(Tail(s)) = {}
<1>1. /\ Head(s) = s[1] /\ 1 \in DOMAIN s /\ DOMAIN s = 1..Len(s) /\ Len(s) \in Nat
      /\ Tail(s) \in Seq(MultiQueries) /\ DOMAIN Tail(s) = 1..(Len(s) - 1)
      /\ \A i \in 1..(Len(s) - 1) : Tail(s)[i] = s[i + 1] /\ i + 1 \in DOMAIN s /\ i + 1 # 1
      /\ s[1] \in MultiQueries
  OBVIOUS
<1>2. PICK m, t : m = s[1] /\ t = Tail(s)
  OBVIOUS
<1>3. m \in MultiQueries /\ m.results \in Seq(Deferreds)
  BY <1>1, <1>2 DEF MultiQueries
<1>4. OnePlace(t) /\ OfTheirQuery(t)
  <2>1. OnePlace(t)
    <3>1. SUFFICES ASSUME NEW i \in DOMAIN t, NEW k \in DOMAIN t, NEW j \in DOMAIN t[i].results, NEW l \in DOMAIN t[k].results,
                          t[i].results[j] = t[k].results[l]
                   PROVE  i = k /\ j = l
      BY DEF OnePlace
    <3>2. i + 1 = k + 1 /\ j = l
      BY <1>1, <1>2, <3>1 DEF OnePlace
    <3>3. QED
      BY <1>1, <1>2, <3>2
  <2>2. OfTheirQuery(t)
    BY <1>1, <1>2 DEF OfTheirQuery
  <2>3. QED
    BY <2>1, <2>2
<1>5. \A i, j \in DOMAIN m.results : m.results[i] = m.results[j] => i = j
  BY <1>1, <1>2 DEF OnePlace
<1>6. \A e \in ToSet(m.results) : Batched(e) /\ query[e] = m.query /\ state[e] = "pending" /\ ~Settling(e)
  BY <1>1, <1>2 DEF OfTheirQuery, ToSet
<1>7. ResultsOf(s) \subseteq ToSet(m.results) \cup ResultsOf(t)
  <2>1. SUFFICES ASSUME NEW i \in DOMAIN s, NEW j \in DOMAIN s[i].results
                 PROVE  s[i].results[j] \in ToSet(m.results) \cup ResultsOf(t)
    BY PlaceOfResult
  <2>2. CASE i = 1
    BY <2>1, <2>2, <1>2 DEF ToSet
  <2>3. CASE i # 1
    <3>1. i - 1 \in DOMAIN t /\ t[i - 1] = s[i]
      BY <1>1, <1>2, <2>1, <2>3
    <3>2. t[i - 1].results[j] \in ResultsOf(t)
      BY <3>1, <2>1, InResults
    <3>3. QED
      BY <3>1, <3>2
  <2>4. QED
    BY <2>2, <2>3
<1>8. ToSet(m.results) \subseteq ResultsOf(s) /\ ResultsOf(t) \subseteq ResultsOf(s)
  <2>1. ToSet(m.results) \subseteq ResultsOf(s)
    BY <1>1, <1>2, InResults DEF ToSet
  <2>2. ASSUME NEW i \in DOMAIN t, NEW j \in DOMAIN t[i].results PROVE t[i].results[j] \in ResultsOf(s)
    <3>1. i + 1 \in DOMAIN s /\ t[i] = s[i + 1]
      BY <1>1, <1>2
    <3>2. s[i + 1].results[j] \in ResultsOf(s)
      BY <3>1, InResults
    <3>3. QED
      BY <3>1, <3>2
  <2>3. QED
    BY <2>1, <2>2, PlaceOfResult
<1>9. ToSet(m.results) \cap ResultsOf(t) = {}
  <2>1. SUFFICES ASSUME NEW k \in DOMAIN m.results, NEW i \in DOMAIN t, NEW j \in DOMAIN t[i].results,
                        m.results[k] = t[i].results[j]
                 PROVE  FALSE
    BY PlaceOfResult DEF ToSet
  <2>2. i + 1 \in DOMAIN s /\ t[i] = s[i + 1] /\ i + 1 # 1
    BY <1>1, <1>2
  <2>3. QED
    BY <2>1, <2>2, <1>1, <1>2 DEF OnePlace
<1>10. QED
  BY <1>1, <1>2, <1>3, <1>4, <1>5, <1>6, <1>7, <1>8, <1>9

LEMMA AnswerFields ==
  ASSUME NEW text, NEW e
  PROVE  /\ AnswerTo(text, e).do = "settle" /\ AnswerTo(text, e).of = e
         /\ AnswerTo(text, e) = SettleCall(e, "resolved", AnswerTo(text, e).value)
         /\ AnswerTo(text, e).how = "resolved"
         /\ CountCall(e).do = "count" /\ CountCall(e).of = e
BY SettleFields, Built DEF AnswerTo, ResolveCall

\* What the answer does.
Answer(es, text) ==
  /\ calls = <<>> /\ CallsOK' /\ deferredVars' = deferredVars /\ queue' = queue /\ lost' = lost
  /\ Jobs' = {AnswerTo(text, e) : e \in ToSet(es)} \cup {CountCall(e) : e \in ToSet(es)}
  /\ text \in DOMAIN Queries /\ es \in Seq(Deferreds) /\ current' \in Seq(MultiQueries)
  /\ OnePlace(current') /\ OfTheirQuery(Tail(current)) /\ current' = Tail(current)
  /\ \A i, j \in DOMAIN es : es[i] = es[j] => i = j
  /\ \A e \in ToSet(es) : Batched(e) /\ query[e] = text /\ state[e] = "pending" /\ e \notin ResultsOf(queue)
                          /\ e \notin ResultsOf(current')
  /\ ResultsOf(current) = ToSet(es) \cup ResultsOf(current')
  /\ inserted' = inserted \o es /\ evaluation' = "resolving" /\ failed' = FALSE

LEMMA AnswerMoves ==
  ASSUME IInv, DatabaseAnswers
  PROVE  Answer(Head(current).results, Head(current).query)
<1>1. /\ BatchTypeOK /\ Placed /\ calls = <<>> /\ evaluation = "evaluating"
      /\ current \in Seq(MultiQueries)
  BY DEF IInv, DatabaseAnswers, Quiet, BatchTypeOK
<1>2. current # <<>> /\ OnePlace(current) /\ OfTheirQuery(current) /\ ResultsOf(queue) \cap ResultsOf(current) = {}
  BY <1>1 DEF Placed
<1>3. PICK m, t : m = Head(current) /\ t = Tail(current)
  OBVIOUS
<1>4. /\ m \in MultiQueries /\ m.results \in Seq(Deferreds)
      /\ t \in Seq(MultiQueries) /\ OnePlace(t) /\ OfTheirQuery(t)
      /\ \A i, j \in DOMAIN m.results : m.results[i] = m.results[j] => i = j
      /\ \A e \in ToSet(m.results) : Batched(e) /\ query[e] = m.query /\ state[e] = "pending" /\ ~Settling(e)
      /\ ResultsOf(current) = ToSet(m.results) \cup ResultsOf(t)
      /\ ToSet(m.results) \cap ResultsOf(t) = {}
  BY <1>1, <1>2, <1>3, HeadAndTail
<1>5. m.query \in DOMAIN Queries
  BY <1>4 DEF MultiQueries
<1>6. /\ current' = t /\ calls' = ResolveAll(m) /\ inserted' = inserted \o m.results
      /\ deferredVars' = deferredVars /\ queue' = queue /\ lost' = lost
      /\ evaluation' = "resolving" /\ failed' = FALSE
  BY <1>3 DEF DatabaseAnswers
<1>7. /\ CallsOK'
      /\ Jobs' = {AnswerTo(m.query, e) : e \in ToSet(m.results)} \cup {CountCall(e) : e \in ToSet(m.results)}
  <2>1. PICK s : s = ResolveAll(m)
    OBVIOUS
  <2>2. /\ s \in Seq(ToSet(s)) /\ Distinct(s)
        /\ ToSet(s) = {AnswerTo(m.query, e) : e \in ToSet(m.results)} \cup {CountCall(e) : e \in ToSet(m.results)}
    BY <2>1, <1>4, ResolveCalls
  <2>3. calls' = s
    BY <2>1, <1>6
  <2>4. QED
    BY <2>2, <2>3 DEF CallsOK, OneCall, Jobs
<1>8. Answer(m.results, m.query)
  <2>1. \A e \in ToSet(m.results) : /\ Batched(e) /\ query[e] = m.query /\ state[e] = "pending"
                                   /\ e \notin ResultsOf(queue) /\ e \notin ResultsOf(t)
    BY <1>2, <1>4
  <2>2. QED
    BY <2>1, <1>1, <1>3, <1>4, <1>5, <1>6, <1>7 DEF Answer
<1>9. QED
  BY <1>3, <1>8

\* Sequences without repetition.
Once(s) == \A i, j \in DOMAIN s : s[i] = s[j] => i = j
Apart(s, t) == \A i \in DOMAIN s : \A j \in DOMAIN t : s[i] # t[j]

LEMMA OnceJoined ==
  ASSUME NEW D, NEW s \in Seq(D), NEW t \in Seq(D), Once(s), Once(t), Apart(s, t)
  PROVE  /\ s \o t \in Seq(D) /\ Once(s \o t)
         /\ \A e \in ToSet(s \o t) : e \in ToSet(s) \cup ToSet(t)
         /\ ToSet(s) \cup ToSet(t) \subseteq ToSet(s \o t)
<1>0. PICK u : u = s \o t
  OBVIOUS
<1>10. /\ \A i, j \in DOMAIN s : s[i] = s[j] => i = j
       /\ \A i, j \in DOMAIN t : t[i] = t[j] => i = j
       /\ \A i \in DOMAIN s : \A j \in DOMAIN t : s[i] # t[j]
  BY DEF Once, Apart
<1>1. PICK m, n : m = Len(s) /\ n = Len(t)
  OBVIOUS
<1>2. /\ u \in Seq(D) /\ DOMAIN u = 1..(m + n) /\ m \in Nat /\ n \in Nat
      /\ DOMAIN s = 1..m /\ DOMAIN t = 1..n
      /\ \A i \in 1..m : u[i] = s[i]
      /\ \A i \in 1..n : u[m + i] = t[i]
  BY <1>0, <1>1
<1>3. \A i \in 1..(m + n) : \/ i \in 1..m /\ u[i] = s[i]
                            \/ i - m \in 1..n /\ u[i] = t[i - m]
  <2>1. SUFFICES ASSUME NEW i \in 1..(m + n), i \notin 1..m PROVE i - m \in 1..n /\ u[i] = t[i - m]
    BY <1>2
  <2>2. i - m \in 1..n /\ m + (i - m) = i
    BY <2>1, <1>2
  <2>3. u[m + (i - m)] = t[i - m]
    BY <2>2, <1>2
  <2>4. QED
    BY <2>2, <2>3
<1>4. ASSUME NEW i \in 1..(m + n), NEW j \in 1..(m + n), u[i] = u[j] PROVE i = j
  <2>1. CASE i \in 1..m /\ j \in 1..m
    BY <2>1, <1>2, <1>4, <1>10
  <2>2. CASE i \in 1..m /\ j \notin 1..m
    <3>1. PICK b : b = j - m
      OBVIOUS
    <3>2. i \in DOMAIN s /\ u[i] = s[i] /\ b \in DOMAIN t /\ u[j] = t[b]
      BY <2>2, <3>1, <1>2, <1>3
    <3>3. QED
      BY <3>2, <1>4, <1>10
  <2>3. CASE i \notin 1..m /\ j \in 1..m
    <3>1. PICK b : b = i - m
      OBVIOUS
    <3>2. j \in DOMAIN s /\ u[j] = s[j] /\ b \in DOMAIN t /\ u[i] = t[b]
      BY <2>3, <3>1, <1>2, <1>3
    <3>3. QED
      BY <3>2, <1>4, <1>10
  <2>4. CASE i \notin 1..m /\ j \notin 1..m
    <3>1. PICK a, b : a = i - m /\ b = j - m
      OBVIOUS
    <3>2. a \in DOMAIN t /\ u[i] = t[a] /\ b \in DOMAIN t /\ u[j] = t[b]
      BY <2>4, <3>1, <1>2, <1>3
    <3>3. a = b
      BY <3>2, <1>4, <1>10
    <3>4. QED
      BY <3>1, <3>3, <1>2
  <2>5. QED
    BY <2>1, <2>2, <2>3, <2>4
<1>5. \A i \in 1..(m + n) : u[i] \in ToSet(s) \cup ToSet(t)
  BY <1>2, <1>3 DEF ToSet
<1>6. ToSet(s) \cup ToSet(t) \subseteq ToSet(u)
  <2>1. \A i \in 1..m : s[i] \in ToSet(u)
    <3>1. \A i \in 1..m : i \in DOMAIN u /\ u[i] = s[i]
      BY <1>2
    <3>2. QED
      BY <3>1 DEF ToSet
  <2>2. \A i \in 1..n : t[i] \in ToSet(u)
    <3>1. \A i \in 1..n : m + i \in DOMAIN u /\ u[m + i] = t[i]
      BY <1>2
    <3>2. QED
      BY <3>1 DEF ToSet
  <2>3. ASSUME NEW x \in ToSet(s) PROVE x \in ToSet(u)
    <3>1. PICK i \in 1..m : x = s[i]
      BY <1>2 DEF ToSet
    <3>2. QED
      BY <3>1, <2>1
  <2>4. ASSUME NEW x \in ToSet(t) PROVE x \in ToSet(u)
    <3>1. PICK i \in 1..n : x = t[i]
      BY <1>2 DEF ToSet
    <3>2. QED
      BY <3>1, <2>2
  <2>5. QED
    BY <2>3, <2>4
<1>7. Once(u) /\ \A e \in ToSet(u) : e \in ToSet(s) \cup ToSet(t)
  <2>1. Once(u)
    BY <1>2, <1>4 DEF Once
  <2>2. ASSUME NEW e \in ToSet(u) PROVE e \in ToSet(s) \cup ToSet(t)
    <3>1. PICK i \in 1..(m + n) : e = u[i]
      BY <1>2 DEF ToSet
    <3>2. QED
      BY <3>1, <1>5
  <2>3. QED
    BY <2>1, <2>2
<1>8. u \in Seq(D)
  BY <1>2
<1>9. QED
  BY <1>0, <1>6, <1>7, <1>8

\* The answer keeps the invariant: what waited is executed, and about to be settled.
LEMMA AnswerInv ==
  ASSUME IInv, DatabaseAnswers
  PROVE  IInv'
<1>0. PICK es, text : es = Head(current).results /\ text = Head(current).query
  OBVIOUS
<1>17. BatchTypeOK /\ Fresh /\ Linked /\ SettledOnce /\ Placed /\ Answered /\ Grouped
  BY DEF IInv
<1>18. /\ calls = <<>> /\ CallsOK' /\ deferredVars' = deferredVars /\ queue' = queue /\ lost' = lost
       /\ Jobs' = {AnswerTo(text, e) : e \in ToSet(es)} \cup {CountCall(e) : e \in ToSet(es)}
       /\ text \in DOMAIN Queries /\ es \in Seq(Deferreds) /\ current' \in Seq(MultiQueries)
       /\ OnePlace(current') /\ OfTheirQuery(Tail(current)) /\ current' = Tail(current)
       /\ \A i, j \in DOMAIN es : es[i] = es[j] => i = j
       /\ \A e \in ToSet(es) : Batched(e) /\ query[e] = text /\ state[e] = "pending" /\ e \notin ResultsOf(queue)
                               /\ e \notin ResultsOf(current')
       /\ ResultsOf(current) = ToSet(es) \cup ResultsOf(current')
       /\ inserted' = inserted \o es /\ evaluation' = "resolving" /\ failed' = FALSE
  <2>1. Answer(es, text)
    BY <1>0, AnswerMoves
  <2>2. QED
    BY <2>1 DEF Answer
<1>1. /\ BatchTypeOK /\ Fresh /\ Linked /\ SettledOnce /\ Placed /\ Answered /\ Grouped
      /\ calls = <<>> /\ CallsOK' /\ deferredVars' = deferredVars /\ queue' = queue /\ lost' = lost
      /\ Jobs' = {AnswerTo(text, e) : e \in ToSet(es)} \cup {CountCall(e) : e \in ToSet(es)}
      /\ text \in DOMAIN Queries /\ es \in Seq(Deferreds) /\ current' \in Seq(MultiQueries)
      /\ OnePlace(current') /\ OfTheirQuery(Tail(current)) /\ current' = Tail(current)
      /\ \A i, j \in DOMAIN es : es[i] = es[j] => i = j
      /\ ResultsOf(current) = ToSet(es) \cup ResultsOf(current')
      /\ inserted' = inserted \o es /\ evaluation' = "resolving" /\ failed' = FALSE
  BY <1>17, <1>18
<1>2. \A e \in ToSet(es) : /\ Batched(e) /\ query[e] = text /\ state[e] = "pending"
                           /\ e \notin ResultsOf(queue) /\ e \notin ResultsOf(current')
  BY <1>18
<1>3. /\ made' = made /\ query' = query /\ state' = state /\ value' = value
      /\ handlers' = handlers /\ raised' = raised /\ group' = group
  BY <1>1 DEF deferredVars
<1>4. Jobs = {} /\ \A e : ~Settling(e)
  BY <1>1, QuietJobs
<1>5. /\ \A c \in Jobs' : /\ c.of \in ToSet(es) /\ (c.do = "settle" \/ c.do = "count")
                          /\ c.do = "settle" => c = AnswerTo(text, c.of)
                          /\ c.do = "count" => c = CountCall(c.of)
      /\ \A e : Settling(e)' <=> e \in ToSet(es)
  <2>1. \A c \in Jobs' : /\ c.of \in ToSet(es) /\ (c.do = "settle" \/ c.do = "count")
                         /\ c.do = "settle" => c = AnswerTo(text, c.of)
                         /\ c.do = "count" => c = CountCall(c.of)
    <3>1. SUFFICES ASSUME NEW c \in Jobs'
                   PROVE  /\ c.of \in ToSet(es) /\ (c.do = "settle" \/ c.do = "count")
                          /\ c.do = "settle" => c = AnswerTo(text, c.of)
                          /\ c.do = "count" => c = CountCall(c.of)
      OBVIOUS
    <3>2. PICK e \in ToSet(es) : c = AnswerTo(text, e) \/ c = CountCall(e)
      BY <1>1, <3>1
    <3>3. QED
      BY <3>2, AnswerFields
  <2>2. \A e \in ToSet(es) : AnswerTo(text, e) \in Jobs'
    BY <1>1
  <2>3. \A e : Settling(e)' <=> e \in ToSet(es)
    BY <2>1, <2>2, AnswerFields DEF Settling
  <2>4. QED
    BY <2>1, <2>3
<1>6. \A e \in ToSet(es) : query[e] # NoQuery /\ e \in 1..made
  BY <1>1, <1>2, NoQueryIsNone DEF Batched
<1>7. Fresh' /\ Linked'
  BY <1>1, <1>3, LinkedKept DEF Fresh
<1>8. \A p, i : Unrun(p, i)' <=> Unrun(p, i)
  BY <1>3, <1>4, <1>5, HandlerFields DEF Unrun
<1>9. SettledOnce'
  <2>1. \A c \in Jobs' : c.do = "settle" => state[c.of] = "pending"
    BY <1>2, <1>5
  <2>2. \A c \in Jobs' : c.do = "handler" => state[c.of] # "pending"
    BY <1>5
  <2>3. ASSUME NEW p \in Deferreds, NEW i \in DOMAIN handlers[p]
        PROVE  IF Unrun(p, i)' THEN \A t \in Targets(handlers[p][i]) : state[t] = "pending" /\ ~Settling(t)'
               ELSE \A t : t = handlers[p][i].next => state[t] # "pending" \/ Settling(t)'
    <3>1. \A t \in Targets(handlers[p][i]) : query[t] = NoQuery
      BY <1>1, <2>3 DEF Linked, HandlerOf, Plain
    <3>2. \A t \in Targets(handlers[p][i]) : ~Settling(t)'
      BY <3>1, <1>5, <1>6
    <3>3. IF Unrun(p, i) THEN \A t \in Targets(handlers[p][i]) : state[t] = "pending"
          ELSE state[handlers[p][i].next] # "pending"
      BY <1>1, <1>4, <2>3 DEF SettledOnce
    <3>4. QED
      BY <3>2, <3>3, <1>8
  <2>4. QED
    BY <1>3, <2>1, <2>2, <2>3 DEF SettledOnce, Targets
<1>10. /\ inserted' \in Seq(Deferreds) /\ Once(inserted')
       /\ \A e \in ToSet(inserted') : e \in ToSet(inserted) \cup ToSet(es)
       /\ ToSet(inserted) \cup ToSet(es) \subseteq ToSet(inserted')
  <2>1. inserted \in Seq(Deferreds)
    BY <1>1 DEF BatchTypeOK
  <2>2. Once(inserted) /\ Once(es)
    BY <1>1 DEF Placed, Once
  <2>3. Apart(inserted, es)
    <3>1. \A j \in DOMAIN es : es[j] \in Waiting
      BY <1>1 DEF Waiting, ToSet
    <3>2. QED
      BY <3>1, <1>1 DEF Placed, Apart
  <2>4. /\ inserted \o es \in Seq(Deferreds) /\ Once(inserted \o es)
        /\ \A e \in ToSet(inserted \o es) : e \in ToSet(inserted) \cup ToSet(es)
        /\ ToSet(inserted) \cup ToSet(es) \subseteq ToSet(inserted \o es)
    BY <2>1, <2>2, <2>3, <1>1, OnceJoined
  <2>5. QED
    BY <2>4, <1>1
<1>11. Waiting' = ResultsOf(queue) \cup ResultsOf(current') /\ Waiting = Waiting' \cup ToSet(es)
  BY <1>1 DEF Waiting
<1>12. Placed'
  <2>1. OneEntry' /\ OnePlace(queue') /\ ResultsOf(queue') \cap ResultsOf(current') = {}
    BY <1>1 DEF Placed, OneEntry
  <2>2. PICK t : t = Tail(current)
    OBVIOUS
  <2>3. OfTheirQuery(queue) /\ OfTheirQuery(t) /\ current' = t
    BY <1>1, <2>2 DEF Placed
  <2>4. \A i \in DOMAIN queue : \A j \in DOMAIN queue[i].results : \A e : e = queue[i].results[j] =>
          Batched(e) /\ query[e] = queue[i].query /\ state[e] = "pending" /\ ~Settling(e)'
    BY <2>3, <1>2, <1>5, InResults DEF OfTheirQuery
  <2>5. \A i \in DOMAIN t : \A j \in DOMAIN t[i].results : \A e : e = t[i].results[j] =>
          Batched(e) /\ query[e] = t[i].query /\ state[e] = "pending" /\ ~Settling(e)'
    BY <2>3, <1>2, <1>5, InResults DEF OfTheirQuery
  <2>6. OfTheirQuery(queue)' /\ OfTheirQuery(current)'
    BY <1>1, <1>3, <2>3, <2>4, <2>5 DEF OfTheirQuery, Batched
  <2>7. \A i \in DOMAIN inserted' : \A e : e = inserted'[i] => Batched(e) /\ e \notin Waiting'
    <3>1. \A e \in ToSet(inserted) : Batched(e) /\ e \notin Waiting
      BY <1>1 DEF Placed, ToSet
    <3>2. \A e \in ToSet(inserted') : Batched(e) /\ e \notin Waiting'
      BY <3>1, <1>2, <1>10, <1>11
    <3>3. QED
      BY <3>2 DEF ToSet
  <2>8. QED
    BY <1>1, <1>3, <1>10, <2>1, <2>6, <2>7 DEF Placed, Batched, Once
<1>13. Answered'
  <2>1. ASSUME NEW d \in 1..made, query[d] # NoQuery, Queries[query[d]] # "other"
        PROVE  d \in Waiting' \/ d \in lost \/ (d \in ToSet(inserted') /\ (state[d] # "pending" \/ Settling(d)'))
    BY <2>1, <1>1, <1>4, <1>5, <1>10, <1>11 DEF Answered, IsQuery
  <2>2. \A c \in Jobs' : c.do = "settle" => c = ResolveCall(c.of, IF Queries[query[c.of]] = "autoincrement" THEN Row(c.of) ELSE NoRow)
    BY <1>2, <1>5 DEF AnswerTo
  <2>3. QED
    BY <1>1, <1>3, <2>1, <2>2 DEF Answered, IsQuery, Right
<1>14. Grouped'
  <2>1. SUFFICES ASSUME NEW r \in 1..made, group[r].of # <<>> PROVE GroupOf(r)'
    BY <1>3 DEF Grouped
  <2>2. GroupOf(r) /\ query[r] = NoQuery
    BY <1>1, <2>1 DEF Grouped, Answered, IsQuery
  <2>3. \A i \in DOMAIN group[r].of : Passed(r, i)' <=> Passed(r, i)
    BY <1>3, <1>8 DEF Passed
  <2>4. \A i \in DOMAIN group[r].of : AwaitCall(r, i) \in Jobs' <=> ~Hung(r, i)'
    <3>1. \A i \in DOMAIN group[r].of : Hung(r, i)' <=> Hung(r, i)
      BY <1>3 DEF Hung
    <3>2. \A i \in DOMAIN group[r].of : AwaitCall(r, i) \notin Jobs' /\ AwaitCall(r, i) \notin Jobs
      BY <1>4, <1>5, AllFields
    <3>3. QED
      BY <3>1, <3>2, <2>2 DEF GroupOf
  <2>5. ~Settling(r)'
    BY <1>5, <1>6, <2>2
  <2>6. QED
    BY <1>3, <1>4, <2>2, <2>3, <2>4, <2>5, GroupKept
<1>15. BatchTypeOK'
  <2>1. \A c \in Jobs' : IsCall(c)'
    <3>1. SUFFICES ASSUME NEW c \in Jobs' PROVE IsCall(c)'
      OBVIOUS
    <3>2. c.of \in 1..made
      BY <3>1, <1>5, <1>6
    <3>3. CASE c.do = "settle"
      <4>1. c = AnswerTo(text, c.of)
        BY <3>1, <3>3, <1>5
      <4>2. AnswerTo(text, c.of) = SettleCall(c.of, "resolved", AnswerTo(text, c.of).value) /\ AnswerTo(text, c.of).how = "resolved"
        BY AnswerFields
      <4>3. c = SettleCall(c.of, c.how, c.value) /\ c.how = "resolved"
        BY <4>1, <4>2
      <4>4. QED
        BY <4>3, <3>2, <1>3 DEF IsCall
    <3>4. CASE c.do = "count"
      BY <3>1, <3>2, <3>4, <1>3, <1>5 DEF IsCall
    <3>5. QED
      BY <3>1, <3>3, <3>4, <1>5
  <2>2. QED
    BY <1>1, <1>3, <1>10, <2>1 DEF BatchTypeOK, CallsOK, Jobs
<1>16. QED
  BY <1>1, <1>7, <1>9, <1>12, <1>13, <1>14, <1>15 DEF IInv, CallsOK

-----------------------------------------------------------------------------
(* The theorems.                                                             *)

\* Every step keeps the invariant.
LEMMA StepInv ==
  ASSUME IInv, BatchNext
  PROVE  IInv'
<1>1. CASE RunHandler
  <2>1. /\ BatchTypeOK /\ OneCall /\ Fresh /\ Linked /\ SettledOnce /\ Calling("handler")
    BY <1>1 DEF IInv, RunHandler, Returns, Raises, Collects, ResolvesRows, Gathers, GathersError
  <2>2. PICK new : CallsOK' /\ Leaves /\ Settles(new)
    BY <1>1, HandlerRuns
  <2>3. Linked' /\ SettledOnce'
    BY <2>1, <2>2, HandlerLinked, HandlerSettledOnce
  <2>4. BatchTypeOK' /\ Fresh' /\ Placed' /\ Answered' /\ Grouped'
    BY <1>1, HandlerTypeOK, HandlerFresh, HandlerPlaced, HandlerAnswered, HandlerGrouped
  <2>5. QED
    BY <2>2, <2>3, <2>4 DEF IInv, CallsOK
<1>2. CASE SettleNext
  <2>1. BatchTypeOK /\ OneCall /\ Fresh /\ Linked /\ SettledOnce /\ Placed /\ Answered /\ Grouped
    BY DEF IInv
  <2>2. PICK d : d = Top.of
    OBVIOUS
  <2>3. CallsOK' /\ made' = made /\ query' = query /\ handlers' = handlers /\ group' = group
    BY <1>2, <2>1, <2>2, Settled
  <2>4. Linked'
    BY <2>1, <2>3, LinkedKept
  <2>5. BatchTypeOK' /\ Fresh' /\ SettledOnce' /\ Placed' /\ Answered' /\ Grouped'
    BY <1>2, <2>1, SettleTypeOK, SettleFresh, SettleSettledOnce, SettlePlaced, SettleAnswered, SettleGrouped
  <2>6. QED
    BY <2>3, <2>4, <2>5 DEF IInv, CallsOK
<1>3. CASE AwaitNext
  BY <1>3, AwaitHangs, HangsInv
<1>4. CASE CountErrors
  BY <1>4, CountInv
<1>5. CASE DatabaseAnswers
  BY <1>5, AnswerInv
<1>6. CASE Evaluation
  BY <1>6, EvaluationInv
<1>7. ASSUME NEW text \in DOMAIN Queries, Execute(text) PROVE IInv'
  BY <1>7, ExecuteInv
<1>8. ASSUME NEW d \in 1..made, (\E does \in Callbacks : OnResult(d, does)) \/ FetchAll(d) PROVE IInv'
  <2>1. PICK p, h, gone : Hangs(p, h, gone)
    BY <1>8, ClientHangs
  <2>2. QED
    BY <2>1, HangsInv
<1>9. ASSUME NEW n \in 0..MaxAwaited, NEW ds \in [1..n -> 1..made], WaitForAll(ds) PROVE IInv'
  <2>3. MaxAwaited \in Nat
    BY BatchAssumption
  <2>4. n \in Nat
    BY <2>3
  <2>2. QED
    BY <1>9, <2>4, WaitInv
<1>10. \/ RunHandler \/ SettleNext \/ AwaitNext \/ CountErrors \/ DatabaseAnswers \/ Evaluation
       \/ \E text \in DOMAIN Queries : Execute(text)
       \/ \E d \in 1..made : (\E does \in Callbacks : OnResult(d, does)) \/ FetchAll(d)
       \/ \E n \in 0..MaxAwaited : \E ds \in [1..n -> 1..made] : WaitForAll(ds)
  BY DEF BatchNext, Client, Evaluate, Evaluation
<1>11. QED
  BY <1>1, <1>2, <1>3, <1>4, <1>5, <1>6, <1>7, <1>8, <1>9, <1>10

LEMMA StutterInv ==
  ASSUME IInv, UNCHANGED batchVars
  PROVE  IInv'
<1>1. BatchTypeOK /\ OneCall /\ Fresh /\ Linked /\ SettledOnce /\ Placed /\ Answered /\ Grouped
  BY DEF IInv
<1>2. /\ deferredVars' = deferredVars /\ calls' = calls /\ queue' = queue /\ current' = current
      /\ evaluation' = evaluation /\ failed' = failed /\ inserted' = inserted /\ lost' = lost
  BY DEF batchVars, collectorVars
<1>3. Jobs' = Jobs /\ OneCall'
  BY <1>1, <1>2 DEF Jobs, OneCall, Distinct
<1>4. Fresh' /\ Linked' /\ SettledOnce' /\ Grouped' /\ QueriesKept /\ \A e : Settling(e)' <=> Settling(e)
  BY <1>1, <1>2, <1>3, DeferredsKept
<1>5. Placed'
  BY <1>1, <1>2, <1>3, <1>4, PlacedKept DEF Placed
<1>6. Answered'
  BY <1>1, <1>2, <1>3, <1>4 DEF Answered, IsQuery, Right, Waiting, deferredVars
<1>7. BatchTypeOK'
  BY <1>1, <1>2 DEF BatchTypeOK, IsCall, deferredVars
<1>8. QED
  BY <1>3, <1>4, <1>5, <1>6, <1>7 DEF IInv

LEMMA InitInv ==
  ASSUME BatchInit
  PROVE  IInv
<1>1. /\ made = 0 /\ query = [d \in Deferreds |-> NoQuery]
      /\ state = [d \in Deferreds |-> "pending"] /\ value = [d \in Deferreds |-> NoRow]
      /\ handlers = [d \in Deferreds |-> <<>>] /\ raised = [d \in Deferreds |-> FALSE]
      /\ group = [d \in Deferreds |-> NoGroup] /\ calls = <<>>
      /\ queue = <<>> /\ current = <<>> /\ evaluation = "idle" /\ failed = FALSE
      /\ inserted = <<>> /\ lost = {}
  BY DEF BatchInit
<1>2. <<>> \in Seq({}) /\ DOMAIN <<>> = {} /\ Jobs = {} /\ ToSet(calls) = {}
  BY <1>1 DEF Jobs, ToSet
<1>3. \A r \in Deferreds : group[r].of = <<>> /\ IsGroup(group[r])
  <2>1. NoGroup.of = <<>> /\ NoGroup.values = <<>> /\ NoGroup.count = 0 /\ NoGroup.rejected = FALSE
    BY DEF NoGroup
  <2>2. DOMAIN NoGroup = {"of", "values", "count", "rejected"}
    BY DEF NoGroup
  <2>3. <<>> \in Seq(Deferreds) /\ <<>> = [i \in DOMAIN <<>> |-> <<>>[i]] /\ 0 \in 0..Len(<<>>)
    OBVIOUS
  <2>4. IsGroup(NoGroup)
    BY <2>1, <2>2, <2>3 DEF IsGroup
  <2>5. QED
    BY <1>1, <2>1, <2>4
<1>4. 1..made = {}
  BY <1>1
<1>5. BatchTypeOK
  <2>1. MaxDeferreds \in Nat
    BY BatchAssumption
  <2>2. made \in 0..MaxDeferreds
    BY <1>1, <2>1
  <2>3. <<>> \in Seq(Handlers) /\ <<>> \in Seq(MultiQueries) /\ <<>> \in Seq(Deferreds)
    OBVIOUS
  <2>4. QED
    BY <1>1, <1>2, <1>3, <2>2, <2>3 DEF BatchTypeOK
<1>6. OneCall
  BY <1>1 DEF OneCall, Distinct
<1>7. Fresh
  BY <1>1, <1>3 DEF Fresh
<1>8. \A p \in Deferreds : DOMAIN handlers[p] = {}
  BY <1>1
<1>9. Linked /\ SettledOnce
  BY <1>2, <1>8 DEF Linked, HandlersApart, SettledOnce
<1>10. Placed
  <2>1. OnePlace(queue) /\ OnePlace(current) /\ OfTheirQuery(queue) /\ OfTheirQuery(current) /\ ResultsOf(queue) = {}
    BY <1>1, Empty
  <2>2. QED
    BY <1>1, <1>2, <2>1 DEF Placed, OneEntry
<1>11. Answered /\ Grouped
  BY <1>2, <1>4 DEF Answered, Grouped
<1>12. QED
  BY <1>5, <1>6, <1>7, <1>9, <1>10, <1>11 DEF IInv

\* With no call left, each query that waits for nothing has its own answer,
LEMMA QueriesAreAnswered ==
  ASSUME IInv, calls = <<>>
  PROVE  QueriesAnswered
<1>1. BatchTypeOK /\ SettledOnce /\ Placed /\ Answered
  BY DEF IInv
<1>2. Jobs = {} /\ \A e : ~Settling(e)
  BY QuietJobs
<1>3. SUFFICES ASSUME NEW d \in 1..made, IsQuery(d), d \notin Waiting, d \notin lost
               PROVE  HasItsAnswer(d)
  BY DEF QueriesAnswered
<1>4. d \in Deferreds
  BY <1>1, MadeBound DEF BatchTypeOK
<1>5. PICK kind : kind = Queries[query[d]]
  OBVIOUS
<1>6. /\ kind = "other" => state[d] = "resolved"
      /\ kind # "other" => d \in ToSet(inserted) /\ state[d] # "pending"
      /\ state[d] # "pending" => state[d] = "resolved" /\ value[d] = Right(d)
  BY <1>1, <1>2, <1>3, <1>5 DEF Answered
<1>7. state[d] = "resolved" /\ value[d] = IF kind = "autoincrement" THEN Row(d) ELSE NoRow
  BY <1>5, <1>6 DEF Right
<1>8. Cardinality({i \in DOMAIN inserted : inserted[i] = d}) = IF kind = "other" THEN 0 ELSE 1
  <2>1. CASE kind = "other"
    <3>1. \A i \in DOMAIN inserted : inserted[i] # d
      BY <2>1, <1>1, <1>5 DEF Placed, Batched
    <3>2. {i \in DOMAIN inserted : inserted[i] = d} = {}
      BY <3>1
    <3>3. QED
      BY <2>1, <3>2, FS_EmptySet
  <2>2. CASE kind # "other"
    <3>1. PICK i \in DOMAIN inserted : inserted[i] = d
      BY <2>2, <1>6 DEF ToSet
    <3>2. \A j \in DOMAIN inserted : inserted[j] = d => j = i
      BY <3>1, <1>1 DEF Placed
    <3>3. {j \in DOMAIN inserted : inserted[j] = d} = {i}
      BY <3>1, <3>2
    <3>4. QED
      BY <2>2, <3>3, FS_Singleton
  <2>3. QED
    BY <2>1, <2>2
<1>9. \A i \in DOMAIN handlers[d] : state[handlers[d][i].next] # "pending"
  BY <1>1, <1>2, <1>4, <1>7 DEF SettledOnce, Unrun
<1>10. QED
  BY <1>5, <1>7, <1>8, <1>9 DEF HasItsAnswer

\* and each all() is settled as its deferreds are.
LEMMA AllAreGathered ==
  ASSUME IInv, calls = <<>>, NEW r \in 1..made, group[r].of # <<>>
  PROVE  AllOfGroup(r)
<1>1. BatchTypeOK /\ Linked /\ Grouped
  BY DEF IInv
<1>2. Jobs = {} /\ \A e : ~Settling(e)
  BY QuietJobs
<1>3. PICK g, of : g = group[r] /\ of = group[r].of
  OBVIOUS
<1>4. GroupOf(r) /\ r \in Deferreds /\ \A p \in 1..made : p \in Deferreds
  BY <1>1, MadeBound DEF Grouped
<1>5. /\ DOMAIN of = 1..Len(of) /\ Len(of) \in Nat
      /\ g.values = [i \in DOMAIN of |-> g.values[i]] /\ g.of = of
  <2>1. IsGroup(g)
    BY <1>1, <1>3, <1>4 DEF BatchTypeOK
  <2>2. of \in Seq(Deferreds) /\ g.of = of
    BY <1>3, <2>1 DEF IsGroup
  <2>3. QED
    BY <2>1, <2>2 DEF IsGroup
<1>6. \A i \in DOMAIN of : of[i] \in Deferreds /\ Hung(r, i)
  BY <1>2, <1>3, <1>4 DEF GroupOf
<1>7. \A i \in DOMAIN of : Passed(r, i) <=> state[of[i]] # "pending"
  <2>1. \A p, i : Unrun(p, i) <=> state[p] = "pending"
    BY <1>2 DEF Unrun
  <2>2. QED
    BY <1>3, <1>6, <2>1 DEF Passed, Hung
<1>8. AllPassed(r) \subseteq DOMAIN of /\ \A i \in DOMAIN of : i \in AllPassed(r) <=> state[of[i]] # "pending"
  BY <1>3, <1>7 DEF AllPassed
<1>9. PICK passed : passed = AllPassed(r)
  OBVIOUS
<1>10. /\ g.rejected <=> (\E i \in passed : state[of[i]] = "rejected")
       /\ ~g.rejected => g.count = Cardinality(passed) /\ \A i \in passed : g.values[i] = value[of[i]]
       /\ g.rejected => state[r] = "rejected"
       /\ ~g.rejected /\ g.count = Len(of) => state[r] = "resolved" /\ value[r] = ListOf(g.values)
       /\ ~g.rejected /\ g.count # Len(of) => state[r] = "pending"
  BY <1>2, <1>3, <1>4, <1>9 DEF GroupOf
<1>11. \A i \in DOMAIN of : state[of[i]] \in {"pending", "resolved", "rejected"}
  BY <1>1, <1>6 DEF BatchTypeOK
<1>12. /\ IsFiniteSet(DOMAIN of) /\ Cardinality(DOMAIN of) = Len(of)
       /\ Cardinality(passed) = Len(of) => passed = DOMAIN of
  <2>1. PICK n \in Nat : n = Len(of)
    BY <1>5
  <2>4. IsFiniteSet(1..n) /\ Cardinality(1..n) = n
    BY FS_Interval
  <2>2. passed \in SUBSET DOMAIN of
    BY <1>8, <1>9
  <2>3. QED
    BY <1>5, <2>1, <2>4, <2>2, FS_Subset
<1>13. state[r] = "rejected" <=> \E i \in DOMAIN of : state[of[i]] = "rejected"
  BY <1>8, <1>9, <1>10
<1>14. state[r] = "resolved" => ~g.rejected /\ g.count = Len(of) /\ passed = DOMAIN of
  BY <1>10, <1>12
<1>15. state[r] = "resolved" => \A i \in DOMAIN of : state[of[i]] = "resolved"
  BY <1>8, <1>9, <1>10, <1>11, <1>14
<1>16. ASSUME \A i \in DOMAIN of : state[of[i]] = "resolved" PROVE state[r] = "resolved"
  <2>1. passed = DOMAIN of
    BY <1>8, <1>9, <1>16
  <2>2. ~g.rejected
    BY <1>10, <1>16, <2>1
  <2>3. QED
    BY <1>10, <1>12, <2>1, <2>2
<1>17. ASSUME state[r] = "resolved" PROVE value[r] = ListOf([i \in DOMAIN of |-> value[of[i]]])
  <2>1. \A i \in DOMAIN of : g.values[i] = value[of[i]]
    BY <1>10, <1>14, <1>17
  <2>2. g.values = [i \in DOMAIN of |-> value[of[i]]]
    BY <1>5, <2>1
  <2>3. value[r] = ListOf(g.values)
    BY <1>10, <1>14, <1>17
  <2>4. QED
    BY <2>2, <2>3
<1>18. QED
  BY <1>3, <1>13, <1>15, <1>16, <1>17 DEF AllOfGroup

\* The invariant holds of every behaviour.
LEMMA InvIsInductive ==
  BatchSpec => []IInv
<1>1. BatchInit => IInv
  BY InitInv
<1>2. IInv /\ [BatchNext]_batchVars => IInv'
  BY StepInv, StutterInv
<1>3. QED
  BY <1>1, <1>2, PTL DEF BatchSpec

\* Every variable of the query collector keeps its type: a call on the stack is for a deferred,
\* a handler or a member of an all() that exists, whatever callbacks collect meanwhile.
THEOREM TypeCorrect == BatchSpec => []BatchTypeOK
<1>1. IInv => BatchTypeOK
  BY DEF IInv
<1>2. QED
  BY <1>1, InvIsInductive, PTL

\* Whenever no callback is running, each query collected, by a coroutine while evaluate() awaits
\* the database or by a callback, waits in the map or in what evaluate() took out, or an error
\* or a clear() forgot it, or it was executed once and its deferred has its own row; and an
\* all() has settled exactly as its deferreds have.
THEOREM EachAnsweredOnce == BatchSpec => []AnsweredOnce
<1>1. IInv => AnsweredOnce
  BY QueriesAreAnswered, AllAreGathered DEF AnsweredOnce
<1>2. QED
  BY <1>1, InvIsInductive, PTL
=============================================================================
