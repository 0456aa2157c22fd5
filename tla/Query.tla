--------------------------------- MODULE Query --------------------------------
(***************************************************************************)
(* The query language of the faker: parser, operators, merge, the two        *)
(* evaluators and the SQL compiler (faker/domain/query/,                     *)
(* faker/infrastructure/query/).                                             *)
(*                                                                         *)
(* Values, queries and operators are tuples that start with their kind, so   *)
(* that any two of them can be compared.  A value is <<"null">>, <<"num", n>>, *)
(* <<"list", seq>> or <<"dict", f>>; a query that is not a value is            *)
(* <<"ops", seq>>, seq of <<name, argument>>, or <<"fields", f>>.              *)
(***************************************************************************)
EXTENDS Integers, Sequences, FiniteSets

CONSTANTS
  Node,    \* providers and repositories, the resolvers' view of them
  NoNode,
  Kind,    \* Kind[n]: "value", "composite", "reference" or "aggregate"
  Child,   \* Child[n]: names of n's nested providers -> their nodes
  Target,  \* Target[n]: the aggregate a reference refers to
  IdAttr   \* IdAttr[a]: the field that identifies aggregate a

Null    == <<"null">>
Num(n)  == <<"num", n>>
List(s) == <<"list", s>>
Dict(f) == <<"dict", f>>

IsQuery(q) == q[1] \in {"ops", "fields"}
Field(d, f) == IF f \in DOMAIN d[2] THEN d[2][f] ELSE Null \* dict.get()
All(f, Op(_)) == [k \in DOMAIN f |-> Op(f[k])]
Elements(s) == {s[i] : i \in DOMAIN s}

-----------------------------------------------------------------------------
(***************************************************************************)
(* QueryParser and normalize_query().                                       *)
(***************************************************************************)
Comparisons == {"$ne", "$gt", "$gte", "$lt", "$lte"}

RECURSIVE Parse(_)

\* {'$rel': ...} takes its argument for fields whatever their names are.
ParseFields(q) == <<"composite", All(q[2], Parse)>>

ParseSingleOperator(name, arg) ==
  CASE name = "$eq"          -> <<"eq", IF IsQuery(arg) THEN Parse(arg) ELSE arg>>
    [] name \in Comparisons  -> <<"cmp", name, arg>>
    [] name = "$in"          -> <<"in", arg>>
    [] name = "$or"          -> <<"or", All(arg, Parse)>>
    [] name = "$is_null"     -> <<"is_null", arg>>
    [] name = "$not"         -> <<"not", Parse(arg)>>
    [] name = "$any"         -> <<"any", Parse(arg)>>
    [] name = "$all"         -> <<"all", Parse(arg)>>
    [] name = "$len"         -> <<"len", Parse(arg)>>
    [] name = "$rel"         -> <<"rel", ParseFields(arg)>>

Parse(q) ==
  CASE q[1] = "fields" -> ParseFields(q)
    [] q[1] = "ops" /\ Len(q[2]) = 1 -> ParseSingleOperator(q[2][1][1], q[2][1][2])
    [] q[1] = "ops" /\ Len(q[2]) # 1 ->
         <<"and", [i \in DOMAIN q[2] |-> ParseSingleOperator(q[2][i][1], q[2][i][2])]>>
    [] OTHER -> <<"eq", q>>

\* The ValueErrors of the parser: an empty dict, operators twice or too few operands.
RECURSIVE Parses(_)
Parses(q) ==
  CASE q[1] = "fields" -> DOMAIN q[2] # {} /\ \A f \in DOMAIN q[2] : Parses(q[2][f])
    [] q[1] = "ops" ->
         /\ q[2] # <<>>
         /\ \A i \in DOMAIN q[2] :
              LET name == q[2][i][1]
                  arg  == q[2][i][2]
              IN CASE name = "$or" -> Len(arg) >= 2 /\ \A j \in DOMAIN arg : Parses(arg[j])
                   [] name = "$in" -> Len(arg) >= 1
                   [] name \in {"$any", "$all"} -> IsQuery(arg) /\ Parses(arg)
                   [] name = "$rel" -> \A f \in DOMAIN arg[2] : Parses(arg[2][f])
                   [] name \in {"$not", "$len"} -> Parses(arg)
                   [] name = "$eq" -> IsQuery(arg) => Parses(arg)
                   [] OTHER -> TRUE
    [] OTHER -> TRUE

Unary == {"not", "any", "all", "len", "rel"}
Nary  == {"and", "or"}
Operators == {"eq", "cmp", "in", "is_null", "composite"} \cup Unary \cup Nary

RECURSIVE NormalizeQuery(_)
NormalizeQuery(op) ==
  CASE op[1] = "eq" /\ op[2][1] \in Operators -> NormalizeQuery(op[2])
    [] op[1] \in Unary                        -> <<op[1], NormalizeQuery(op[2])>>
    [] op[1] \in Nary \cup {"composite"}      -> <<op[1], All(op[2], NormalizeQuery)>>
    [] OTHER                                  -> op

ParseQuery(q) == NormalizeQuery(Parse(q))

-----------------------------------------------------------------------------
(***************************************************************************)
(* query_to_dict(): a conjunction becomes one dict, later keys win.          *)
(***************************************************************************)
\* Bug: a conjunction keeps one operator.
UpdateWithLast(ops) == <<ops[Len(ops)]>>

\* dict.update() of the operators of ops, in order.
Update(ops) ==
  LET Last(name) == CHOOSE i \in DOMAIN ops :
                      ops[i][1] = name /\ \A j \in DOMAIN ops : ops[j][1] = name => j <= i
      First(i)   == \A j \in 1..(i - 1) : ops[j][1] # ops[i][1]
      kept       == SelectSeq([i \in DOMAIN ops |-> i], First)
  IN [k \in DOMAIN kept |-> ops[Last(ops[kept[k]][1])]]

RECURSIVE QueryToDict(_)
QueryToDict(op) ==
  CASE op[1] = "eq"      -> <<"ops", <<<<"$eq", op[2]>>>>>>
    [] op[1] = "cmp"     -> <<"ops", <<<<op[2], op[3]>>>>>>
    [] op[1] = "in"      -> <<"ops", <<<<"$in", op[2]>>>>>>
    [] op[1] = "is_null" -> <<"ops", <<<<"$is_null", op[2]>>>>>>
    [] op[1] = "not"     -> <<"ops", <<<<"$not", QueryToDict(op[2])>>>>>>
    [] op[1] = "any"     -> <<"ops", <<<<"$any", QueryToDict(op[2])>>>>>>
    [] op[1] = "all"     -> <<"ops", <<<<"$all", QueryToDict(op[2])>>>>>>
    [] op[1] = "len"     -> <<"ops", <<<<"$len", QueryToDict(op[2])>>>>>>
    [] op[1] = "rel"     -> <<"ops", <<<<"$rel", QueryToDict(op[2])>>>>>>
    [] op[1] = "or"      -> <<"ops", <<<<"$or", All(op[2], QueryToDict)>>>>>>
    [] op[1] = "composite" -> <<"fields", All(op[2], QueryToDict)>>
    [] op[1] = "and"     -> <<"ops", Update([i \in DOMAIN op[2] |-> QueryToDict(op[2][i])[2][1]])>>

-----------------------------------------------------------------------------
(***************************************************************************)
(* IQueryOperator.__add__().  Conflict stands for MergeConflict and for the  *)
(* TypeError of operators of different classes.                             *)
(***************************************************************************)
Conflict == <<"conflict">>

\* Bug: of two operators of one class the later one wins.
RECURSIVE MergeLastWins(_, _)
MergeLastWins(a, b) ==
  CASE a[1] # b[1] -> Conflict
    [] a[1] = "rel" -> <<"rel", MergeLastWins(a[2], b[2])>>
    [] a[1] = "composite" ->
         <<"composite", [f \in DOMAIN a[2] \cup DOMAIN b[2] |->
              IF f \in DOMAIN b[2] THEN b[2][f] ELSE a[2][f]]>>
    [] OTHER -> b

RECURSIVE Merge(_, _)
Merge(a, b) ==
  CASE a[1] # b[1] -> Conflict
    [] a[1] = "rel" -> LET q == Merge(a[2], b[2]) IN IF q = Conflict THEN q ELSE <<"rel", q>>
    [] a[1] = "composite" ->
         LET m == [f \in DOMAIN a[2] \cup DOMAIN b[2] |->
                     CASE f \notin DOMAIN b[2] -> a[2][f]
                       [] f \notin DOMAIN a[2] -> b[2][f]
                       [] OTHER                -> Merge(a[2][f], b[2][f])]
         IN IF \E f \in DOMAIN m : m[f] = Conflict THEN Conflict ELSE <<"composite", m>>
    [] OTHER -> IF a = b THEN a ELSE Conflict
=============================================================================
