---------------------------- MODULE QueryBackends ----------------------------
(***************************************************************************)
(* What a query means: in memory (EvaluateWalker, EvaluateVisitor) and in    *)
(* PostgreSQL (PgQueryCompiler).  db[a] maps the ids of the rows of           *)
(* aggregate a to their states; n is the node a resolver stands on.           *)
(***************************************************************************)
EXTENDS Query

\* Evaluation yields "true", "false", or "error" for a TypeError.
Truth(b) == IF b THEN "true" ELSE "false"
Not(t)   == CASE t = "true" -> "false" [] t = "false" -> "true" [] OTHER -> t

\* Operands and elements are visited in order, up to the first that decides.
UpTo(ts, goOn) ==
  LET stops == {i \in DOMAIN ts : ts[i] # goOn}
  IN IF stops = {} THEN goOn ELSE ts[CHOOSE i \in stops : \A j \in stops : i <= j]

\* Fields have no order here: an error in one of them counts first.
AllOf(ts) == IF "error" \in ts THEN "error" ELSE Truth("false" \notin ts)

Compare(op, a, b) ==
  CASE op = "$ne"                -> Truth(a # b)
    [] a[1] # "num" \/ b[1] # "num" -> "error"
    [] op = "$gt"                -> Truth(a[2] > b[2])
    [] op = "$gte"               -> Truth(a[2] >= b[2])
    [] op = "$lt"                -> Truth(a[2] < b[2])
    [] op = "$lte"               -> Truth(a[2] <= b[2])

-----------------------------------------------------------------------------
(***************************************************************************)
(* ProviderObjectResolver.  A context is <<>> or <<field, value of it>>.      *)
(***************************************************************************)
Related(n, ctx) ==
  CASE ctx = <<>> -> n
    [] ctx # <<>> /\ ctx[1] \in DOMAIN Child[n] /\ Kind[Child[n][ctx[1]]] = "reference"
         -> Target[Child[n][ctx[1]]]
    [] OTHER -> NoNode

Resolves(db, n, ctx, fk) == fk # Null /\ Related(n, ctx) # NoNode /\ fk \in DOMAIN db[Related(n, ctx)]

Descend(n, f) ==
  IF n = NoNode \/ f \notin DOMAIN Child[n] THEN n
  ELSE LET c == Child[n][f]
           p == IF Kind[c] = "reference" THEN Child[Target[c]][IdAttr[Target[c]]] ELSE c
       IN IF Kind[p] = "value" THEN n ELSE p

(***************************************************************************)
(* Evaluation of op on v under the context ctx.  keep tells whether the      *)
(* elements of a list keep the context of the list.                          *)
(***************************************************************************)
RECURSIVE Eval(_, _, _, _, _, _)
Eval(keep, db, n, op, v, ctx) ==
  LET Meets(o)    == Eval(keep, db, n, o, v, ctx)
      inner    == IF keep THEN ctx ELSE <<>>
      In(w)    == Eval(keep, db, n, op[2], w, inner)
      Field_(f) == LET w == Field(v, f)
                       m == IF op[2][f][1] = "rel" THEN n ELSE Descend(n, f)
                   IN Eval(keep, db, m, op[2][f], w, <<f, w>>)
  IN
  CASE op[1] = "eq"      -> Truth(v = op[2])
    [] op[1] = "cmp"     -> Compare(op[2], v, op[3])
    [] op[1] = "in"      -> Truth(v \in Elements(op[2]))
    [] op[1] = "is_null" -> Truth((v = Null) = op[2])
    [] op[1] = "and"     -> UpTo(All(op[2], Meets), "true")
    [] op[1] = "or"      -> UpTo(All(op[2], Meets), "false")
    [] op[1] = "not"     -> Not(Meets(op[2]))
    [] op[1] \in {"any", "all", "len"} /\ v[1] # "list" -> "false"
    [] op[1] = "any"     -> UpTo(All(v[2], In), "false")
    [] op[1] = "all"     -> UpTo(All(v[2], In), "true")
    [] op[1] = "len"     -> In(Num(Len(v[2])))
    [] op[1] = "composite" ->
         IF v[1] # "dict" THEN "false" ELSE AllOf({Field_(f) : f \in DOMAIN op[2]})
    [] op[1] = "rel" ->
         LET fk == IF ctx = <<>> THEN v ELSE ctx[2] IN
           CASE n = NoNode -> Eval(keep, db, n, op[2], v, <<>>)
             [] n # NoNode /\ Resolves(db, n, ctx, fk) ->
                  LET a == Related(n, ctx) IN Eval(keep, db, a, op[2], db[a][fk], <<>>)
             [] OTHER -> "false"

Evaluate(db, n, op, v)        == Eval(TRUE, db, n, op, v, <<>>)
EvaluateVisitor(db, n, op, v) == Eval(FALSE, db, n, op, v, <<>>)

\* evaluate_sync(), as require() calls it: without a resolver.
EvaluateSync(op, v) == Eval(TRUE, <<>>, NoNode, op, v, <<>>)

-----------------------------------------------------------------------------
(***************************************************************************)
(* PgQueryCompiler: a query becomes a set of conditions to be joined by AND; *)
(* the empty set is no WHERE at all.  path is _field_path, t the expression   *)
(* the conditions are about.                                                 *)
(***************************************************************************)
Nested(path, v) ==
  LET step[i \in 1..(Len(path) + 1)] ==
        IF i > Len(path) THEN v ELSE Dict([f \in {path[i]} |-> step[i + 1]])
  IN step[1]

RECURSIVE DictOf(_)
\* _to_dict(): only equalities survive.
DictOf(op) ==
  CASE op[1] = "eq" -> op[2]
    [] op[1] = "composite" ->
         LET kept == {f \in DOMAIN op[2] : DictOf(op[2][f]) # Null}
         IN IF kept = {} THEN Null ELSE Dict([f \in kept |-> DictOf(op[2][f])])
    [] OTHER -> Null

\* A TypeError, or no sensible SQL: visit_rel() pops the field from the path and does not
\* put it back, so that what follows it in a conjunction is compiled one level up.
Raise == {<<"raise">>}

RECURSIVE Compile(_, _, _)

\* Bug: a subquery with no conditions of its own to add is about every related row.
ExistsAnywhere(n, ctx, path, op) ==
  IF n = NoNode \/ Related(n, ctx) = NoNode THEN Raise
  ELSE {<<"exists", Related(n, ctx), path, Compile(Related(n, ctx), <<>>, op[2])>>}

Exists(n, ctx, path, op) ==
  IF n = NoNode THEN Raise
  ELSE LET a == Related(n, ctx) IN
    CASE a # NoNode ->
           LET inner == Compile(a, <<>>, op[2]) IN
             IF inner = {} THEN {} ELSE {<<"exists", a, path \o (IF ctx = <<>> THEN <<>> ELSE <<ctx[1]>>), inner>>}
      [] a = NoNode /\ ctx # <<>> /\ DictOf(op[2]) # Null ->
           {<<"contains", Dict([f \in {ctx[1]} |-> DictOf(op[2])])>>}
      [] OTHER -> {}

Compile(n, path, op) ==
  CASE op[1] = "eq"      -> {<<"contains", Nested(path, op[2])>>}
    [] op[1] = "cmp"     -> IF op[2] = "$ne" THEN {<<"not", {<<"contains", Nested(path, op[3])>>}>>}
                            ELSE {<<"cmp", op[2], path, op[3]>>}
    [] op[1] = "in"      -> {<<"or", {{<<"contains", Nested(path, w)>>} : w \in Elements(op[2])}>>}
    [] op[1] = "is_null" -> {<<"null", path, op[2]>>}
    [] op[1] = "and"     ->
         IF path # <<>> /\ \E o \in Elements(op[2]) : o[1] = "rel" THEN Raise
         ELSE UNION {Compile(n, path, o) : o \in Elements(op[2])}
    [] op[1] = "or"      ->
         LET parts == {Compile(n, path, o) : o \in Elements(op[2])} \ {{}}
         IN IF parts = {} THEN {} ELSE {<<"or", parts>>}
    [] op[1] = "not"     -> LET inner == Compile(n, path, op[2])
                            IN IF inner = {} THEN {} ELSE {<<"not", inner>>}
    [] op[1] \in {"any", "all"} ->
         LET inner == Compile(n, <<>>, op[2])
         IN IF inner = {} THEN {} ELSE {<<op[1], path, inner>>}
    [] op[1] = "len"     -> {<<"len", path, op[2]>>}
    [] op[1] = "composite" ->
         UNION {LET o == op[2][f] IN
                  IF o[1] = "rel" THEN Exists(n, <<f>>, path, o)
                  ELSE Compile(Descend(n, f), Append(path, f), o) : f \in DOMAIN op[2]}
    [] op[1] = "rel" ->
         IF path = <<>> THEN Exists(n, <<>>, <<>>, op)
         ELSE Exists(n, <<path[Len(path)]>>, SubSeq(path, 1, Len(path) - 1), op)

-----------------------------------------------------------------------------
(***************************************************************************)
(* What PostgreSQL makes of the conditions on a jsonb value v: "true",        *)
(* "false", "null", or "error".                                              *)
(***************************************************************************)
SqlNull == <<"sql null">>

At(v, path) ==
  LET to[i \in 0..Len(path)] ==
        IF i = 0 THEN v
        ELSE LET w == to[i - 1] IN
             IF w[1] = "dict" /\ path[i] \in DOMAIN w[2] THEN w[2][path[i]] ELSE SqlNull
  IN to[Len(path)]

RECURSIVE JsonContains(_, _)
JsonContains(a, b) ==
  CASE a[1] = "dict" /\ b[1] = "dict" ->
         \A f \in DOMAIN b[2] : f \in DOMAIN a[2] /\ JsonContains(a[2][f], b[2][f])
    [] a[1] = "list" /\ b[1] = "list" ->
         \A x \in Elements(b[2]) : \E y \in Elements(a[2]) : JsonContains(y, x)
    [] OTHER -> a = b

\* At the top, and nowhere else, a list contains the primitives that are its elements.
Contained(a, b) == JsonContains(a, b) \/ (a[1] = "list" /\ b[1] \notin {"list", "dict"} /\ b \in Elements(a))

Sql3(ts, all, some) ==
  CASE "error" \in ts -> "error" [] some \in ts -> some [] "null" \in ts -> "null" [] OTHER -> all

\* ScalarPgQueryCompiler on a number or on SQL NULL.
RECURSIVE SqlScalar(_, _)
SqlScalar(op, v) ==
  LET Meets(o) == SqlScalar(o, v) IN
  CASE op[1] = "is_null" -> Truth((v = SqlNull) = op[2])
    [] op[1] = "and"     -> Sql3({Meets(o) : o \in Elements(op[2])}, "true", "false")
    [] op[1] = "or"      -> Sql3({Meets(o) : o \in Elements(op[2])}, "false", "true")
    [] op[1] = "not"     -> Not(Meets(op[2]))
    [] op[1] \in {"eq", "cmp", "in"} /\ v = SqlNull -> "null"
    [] op[1] = "eq"      -> Truth(v = op[2])
    [] op[1] = "cmp"     -> Compare(op[2], v, op[3])
    [] op[1] = "in"      -> Truth(v \in Elements(op[2]))
    [] OTHER             -> "error"

RECURSIVE Sql(_, _, _)
Holds(db, c, v) ==
  LET w == At(v, c[2])
      Rows == {Sql(db, c[3], x) : x \in Elements(w[2])}
  IN
  CASE c[1] = "contains" -> IF v = SqlNull THEN "null" ELSE Truth(Contained(v, c[2]))
    [] c[1] = "not"      -> Not(Sql(db, c[2], v))
    [] c[1] = "or"       -> Sql3({Sql(db, s, v) : s \in c[2]}, "false", "true")
    [] c[1] = "null"     -> Truth((w = SqlNull) = c[3])
    [] c[1] \in {"any", "all", "len"} /\ w[1] \notin {"list", "sql null"} -> "error"
    [] c[1] = "any"      -> IF w = SqlNull THEN "false" ELSE Sql3(Rows \ {"null"}, "false", "true")
    [] c[1] = "all"      -> IF w = SqlNull THEN "true" ELSE Sql3(Rows \ {"null"}, "true", "false")
    [] c[1] = "len"      -> SqlScalar(c[3], IF w = SqlNull THEN w ELSE Num(Len(w[2])))
    [] c[1] = "exists"   -> LET k == At(v, c[3])
                            IN Truth(k \in DOMAIN db[c[2]] /\ Sql(db, c[4], db[c[2]][k]) = "true")
    [] OTHER -> "error" \* raised, or jsonb compared with a number

Sql(db, cs, v) == Sql3({Holds(db, c, v) : c \in cs}, "true", "false")

Select(db, n, op, v) == Sql(db, Compile(n, <<>>, op), v)

-----------------------------------------------------------------------------
\* find() of the repositories: the rows a query selects, and those it is satisfied by.  A
\* query without conditions leaves "WHERE" with nothing behind it.
Find(db, a, op) ==
  IF Compile(a, <<>>, op) = {} THEN Raise
  ELSE {k \in DOMAIN db[a] : Select(db, a, op, db[a][k]) = "true"}
FindInMemory(db, a, op) == {k \in DOMAIN db[a] : Evaluate(db, a, op, db[a][k]) = "true"}
=============================================================================
