-------------------------- MODULE SpecificationSql --------------------------
(***************************************************************************)
(* A specification compiled to a WHERE clause                               *)
(* (specification/infrastructure/): the transformation of domain fields and *)
(* values to columns and parameters, and the visitor that writes the SQL.   *)
(*                                                                         *)
(* SQL is a sequence of tokens: columns, parameters, operators, parentheses *)
(* and EXISTS subqueries.  How PostgreSQL reads it back is at the end.      *)
(***************************************************************************)
EXTENDS Specification

CONSTANTS
  Columns,    \* ITransformContext.attr_node: a field path -> the column, or the tree of columns of a composite
  Schema,     \* SchemaRegistry: a relational collection -> [table, foreign_keys]
  ParentRef   \* SchemaRegistry.get_parent_ref(): the parent table's alias or name

-----------------------------------------------------------------------------
(* CompositeExpression and TransformVisitor.  A composite value is a tuple.     *)

Composite(nodes) == [node |-> "composite", nodes |-> nodes]
Failed           == [node |-> "error"]

Tuple(values) == <<"tuple", values>>

RECURSIVE AttrNode(_)
AttrNode(columns) ==
  IF columns[1] = "column" THEN Field(GlobalScope, columns[2])
  ELSE Composite([i \in DOMAIN columns[2] |-> AttrNode(columns[2][i])])

RECURSIVE ValueNode(_)
ValueNode(v) ==
  IF v[1] # "tuple" THEN Value(v)
  ELSE Composite([i \in DOMAIN v[2] |-> ValueNode(v[2][i])])

\* And() of the pairs; a composite of one has no right operand, and And() raises.
Conjunction(operands) == IF Len(operands) > 1 THEN And(Head(operands), Tail(operands)) ELSE Failed

RECURSIVE CompositeEqual(_, _), CompositeNotEqual(_, _)

CompositeEqual(left, right) ==
  LET Pair(i) == IF left.nodes[i].node = "composite" THEN CompositeEqual(left.nodes[i], right.nodes[i])
                 ELSE Infix(left.nodes[i], "=", right.nodes[i])
  IN  IF right.node # "composite" \/ Len(left.nodes) # Len(right.nodes) THEN Failed
      ELSE Conjunction([i \in DOMAIN left.nodes |-> Pair(i)])

\* NOT of the conjunction of the inequalities.
CompositeNotEqual(left, right) ==
  LET Pair(i) == IF left.nodes[i].node = "composite" THEN CompositeNotEqual(left.nodes[i], right.nodes[i])
                 ELSE Infix(left.nodes[i], "!=", right.nodes[i])
  IN  IF right.node # "composite" \/ Len(left.nodes) # Len(right.nodes) THEN Failed
      ELSE Not(Conjunction([i \in DOMAIN left.nodes |-> Pair(i)]))

TransformedInfix(left, op, right) ==
  CASE left.node # "composite" -> Infix(left, op, right)
    [] left.node = "composite" /\ op = "="  -> CompositeEqual(left, right)
    [] left.node = "composite" /\ op = "!=" -> CompositeNotEqual(left, right)
    [] OTHER -> Failed

\* current is _current_node, which the visit of a collection leaves as it was.
RECURSIVE TransformFrom(_, _)
TransformFrom(node, current) ==
  CASE node.node = "field"   -> AttrNode(Columns[ExtractFieldPath(node)])
    [] node.node = "value"   -> ValueNode(node.value)
    [] node.node = "prefix"  -> Prefix(node.operator, TransformFrom(node.operand, current))
    [] node.node = "postfix" -> Postfix(TransformFrom(node.operand, current), node.operator)
    [] node.node = "infix"   -> LET left == TransformFrom(node.left, current)
                                IN  TransformedInfix(left, node.operator, TransformFrom(node.right, left))
    [] OTHER                 -> current

Transform(node) == TransformFrom(node, Failed)

-----------------------------------------------------------------------------
(* PostgresqlVisitor: the text so far, the parameters, the precedence of the    *)
(* operator around, and the wildcard around.                                  *)

PrecedenceMapping ==
  [k \in {"* LEFT"} |-> 120] @@ [k \in {"+ LEFT", "- LEFT"} |-> 110]
    @@ [k \in {"(any other operator) LEFT"} |-> 100]
    @@ [k \in {"< NON", "> NON", "= NON", "<= NON", ">= NON", "!= NON"} |-> 80]
    @@ [k \in {"IS NON"} |-> 70] @@ [k \in {"NOT RIGHT"} |-> 60]
    @@ [k \in {"AND LEFT"} |-> 50] @@ [k \in {"OR LEFT"} |-> 40]

\* The key is an f-string of two members of (str, Enum) classes.  Since Python 3.11,
\* and the package asks for 3.14, that is "OPERATOR.AND ASSOCIATIVITY.LEFT_ASSOCIATIVE",
\* the names of the members and not their values.
MemberName ==
  ("*" :> "MUL") @@ ("+" :> "ADD") @@ ("-" :> "SUB") @@ ("<" :> "LT") @@ (">" :> "GT") @@ ("=" :> "EQ")
    @@ ("<=" :> "LTE") @@ (">=" :> "GTE") @@ ("!=" :> "NE") @@ ("IS" :> "IS") @@ ("NOT" :> "NOT")
    @@ ("AND" :> "AND") @@ ("OR" :> "OR") @@ ("IS NULL" :> "IS_NULL") @@ ("IS NOT NULL" :> "IS_NOT_NULL")

Associativity(op) ==
  CASE op \in {"AND", "OR", "+", "-", "*"} -> "LEFT_ASSOCIATIVE"
    [] op = "NOT"                          -> "RIGHT_ASSOCIATIVE"
    [] OTHER                               -> "NON_ASSOCIATIVE"

PrecedenceKey(op) == "OPERATOR." \o MemberName[op] \o " ASSOCIATIVITY." \o Associativity(op)

Precedence(op) ==
  IF PrecedenceKey(op) \in DOMAIN PrecedenceMapping THEN PrecedenceMapping[PrecedenceKey(op)]
  ELSE PrecedenceMapping["(any other operator) LEFT"]

Op(op)       == <<"op", op>>
Column(path) == <<"column", path>>
Param(n)     == <<"param", n>>
Open         == <<"(">>
Close        == <<")">>
Exists(source, alias, condition) == <<"exists", source, alias, condition>>

Write(st, tokens) == [st EXCEPT !.sql = @ \o tokens]

RECURSIVE Compile(_, _)

\* _visit(): parentheses when the operator binds less than the one around.
CompileOperator(node, st) ==
  LET inner  == Precedence(node.operator)
      less   == inner < st.precedence
      opened == [Write(st, IF less THEN <<Open>> ELSE <<>>) EXCEPT !.precedence = inner]
      body   == CASE node.node = "prefix"  -> Compile(node.operand, Write(opened, <<Op(node.operator)>>))
                  [] node.node = "postfix" -> Write(Compile(node.operand, opened), <<Op(node.operator)>>)
                  [] node.node = "infix"   ->
                       Compile(node.right, Write(Compile(node.left, opened), <<Op(node.operator)>>))
  IN  [Write(body, IF less THEN <<Close>> ELSE <<>>) EXCEPT !.precedence = st.precedence]

\* A field of the item itself is qualified; one below it is not.
CompileField(node, st) ==
  Write(st, <<Column(IF st.alias # "" /\ node.object.node = "item"
                     THEN <<st.alias, node.name>>
                     ELSE ExtractFieldPath(node))>>)

CompileValue(node, st) ==
  Write([st EXCEPT !.params = Append(@, node.value)], <<Param(Len(st.params) + 1)>>)

CollectionPath(node, alias) ==
  IF alias # "" /\ RootOf(node.parent).node = "item" THEN <<alias>> \o ObjectPath(node.parent)
  ELSE ObjectPath(node.parent)

NewAlias(node, st) == node.parent.name \o "_" \o ToString(st.counter + 1)

\* What a subquery is written with, and the visitor after it.
Subquery(node, st, alias, source, keys) ==
  LET inner == Compile(node.predicate,
                       [st EXCEPT !.sql = keys, !.alias = alias, !.counter = @ + 1])
  IN  [inner EXCEPT !.sql = Append(st.sql, Exists(source, alias, inner.sql)), !.alias = st.alias]

\* The inner path is taken before the visitor enters the wildcard, as is the parent row.
CompileEmbedded(node, st) ==
  Subquery(node, st, NewAlias(node, st), <<"unnest", CollectionPath(node, st.alias)>>, <<>>)

ParentOf(st) == IF st.alias # "" THEN st.alias ELSE ParentRef

\* Bug: the foreign key of a nested collection is compared with the root table.
CompileRelationalToRoot(node, st) ==
  LET mapping == Schema[node.parent.name]
      alias   == NewAlias(node, st)
      Key(fk) == <<Column(<<alias, fk.child>>), Op("="), Column(<<ParentRef, fk.parent>>), Op("AND")>>
  IN  Subquery(node, st, alias, <<"table", mapping.table>>,
               FlattenSeq([i \in DOMAIN mapping.foreign_keys |-> Key(mapping.foreign_keys[i])]))

CompileRelational(node, st) ==
  LET mapping == Schema[node.parent.name]
      alias   == NewAlias(node, st)
      Key(fk) == <<Column(<<alias, fk.child>>), Op("="), Column(<<ParentOf(st), fk.parent>>), Op("AND")>>
  IN  Subquery(node, st, alias, <<"table", mapping.table>>,
               FlattenSeq([i \in DOMAIN mapping.foreign_keys |-> Key(mapping.foreign_keys[i])]))

IsRelational(node) == node.parent.node = "object" /\ node.parent.name \in DOMAIN Schema

Compile(node, st) ==
  CASE node.node = "field" -> CompileField(node, st)
    [] node.node = "value" -> CompileValue(node, st)
    [] node.node \in {"prefix", "infix", "postfix"} -> CompileOperator(node, st)
    [] node.node = "collection" -> IF IsRelational(node) THEN CompileRelational(node, st)
                                   ELSE CompileEmbedded(node, st)
    [] OTHER -> st

CompileToSql(node) ==
  Compile(node, [sql |-> <<>>, params |-> <<>>, precedence |-> 0, alias |-> "", counter |-> 0])

CompileSpecification(node) == CompileToSql(Transform(node))

-----------------------------------------------------------------------------
(* PostgreSQL: the precedence of its manual, comparisons that do not chain, and  *)
(* columns looked up from the innermost row outwards.                          *)

BindingOf(op) ==
  CASE op = "OR" -> 40 [] op = "AND" -> 50 [] op = "NOT" -> 60
    [] op \in {"IS", "IS NULL", "IS NOT NULL"} -> 70
    [] op \in {"<", ">", "=", "<=", ">=", "!="} -> 80
    [] op \in {"+", "-"} -> 110 [] op = "*" -> 120

IsOp(tokens, i) == i <= Len(tokens) /\ tokens[i][1] = "op"

Read(tree, at) == [tree |-> tree, at |-> at]

RECURSIVE ReadExpression(_, _, _), ReadAfter(_, _, _)
ReadOperand(tokens, i) ==
  CASE i > Len(tokens) -> Read(<<"error">>, i)
    [] tokens[i][1] = "(" -> LET inner == ReadExpression(tokens, i + 1, 0) IN [inner EXCEPT !.at = @ + 1]
    [] tokens[i] = Op("NOT") ->
         LET operand == ReadExpression(tokens, i + 1, BindingOf("NOT"))
         IN  [operand EXCEPT !.tree = <<"not", @>>]
    [] tokens[i][1] \in {"column", "param", "exists"} -> Read(tokens[i], i + 1)
    [] OTHER -> Read(<<"error">>, i + 1)

ReadExpression(tokens, i, least) == ReadAfter(tokens, ReadOperand(tokens, i), least)

ReadAfter(tokens, left, least) ==
  IF ~IsOp(tokens, left.at) \/ BindingOf(tokens[left.at][2]) < least THEN left
  ELSE LET op == tokens[left.at][2] IN
       IF op \in {"IS NULL", "IS NOT NULL"}
       THEN ReadAfter(tokens, Read(<<"postfix", op, left.tree>>, left.at + 1), least)
       ELSE LET right  == ReadExpression(tokens, left.at + 1, BindingOf(op) + 1)
                chains == BindingOf(op) = 80 /\ IsOp(tokens, right.at)
                            /\ BindingOf(tokens[right.at][2]) = 80
            IN  ReadAfter(tokens,
                          Read(IF chains THEN <<"error">> ELSE <<"infix", op, left.tree, right.tree>>, right.at),
                          least)

\* rows: the rows in scope, the innermost last, each with its alias.
RowsNamed(rows, name)  == {i \in DOMAIN rows : rows[i].alias = name}
RowsHaving(rows, name) == {i \in DOMAIN rows : name \in DOMAIN rows[i].row[2]}

Lookup(rows, path) ==
  LET Follow(context, names) == FoldLeft(Get, context, names)
  IN  CASE RowsNamed(rows, path[1]) # {}  -> Follow(rows[Max(RowsNamed(rows, path[1]))].row, Tail(path))
        [] RowsNamed(rows, path[1]) = {} /\ RowsHaving(rows, path[1]) # {} ->
             Follow(rows[Max(RowsHaving(rows, path[1]))].row, path)
        [] OTHER -> Raised

SourceRows(source, rows, tables) ==
  IF source[1] = "table" THEN tables[source[2]] ELSE Lookup(rows, Append(source[2], "*"))[2]

RECURSIVE Select(_, _, _, _)
Select(tree, rows, tables, params) ==
  CASE tree[1] = "column"  -> Lookup(rows, tree[2])
    [] tree[1] = "param"   -> params[tree[2]]
    [] tree[1] = "not"     -> ApplyNot(Select(tree[2], rows, tables, params))
    [] tree[1] = "postfix" -> ApplyPostfix(tree[2], Select(tree[3], rows, tables, params))
    [] tree[1] = "infix"   -> Apply(tree[2], Select(tree[3], rows, tables, params),
                                             Select(tree[4], rows, tables, params))
    [] tree[1] = "exists"  ->
         LET found     == SourceRows(tree[2], rows, tables)
             condition == ReadExpression(tree[4], 1, 0).tree
             Holds(r)  == Select(condition, Append(rows, [alias |-> tree[3], row |-> r]), tables, params)
         IN  IF \E i \in DOMAIN found : Holds(found[i])[1] # "bool" THEN Raised
             ELSE Boolean(\E i \in DOMAIN found : Holds(found[i])[2])
    [] OTHER -> Raised

\* Whether the row of the document is selected by a compiled clause.
Selected(compiled, document, tables) ==
  Select(ReadExpression(compiled.sql, 1, 0).tree, <<[alias |-> ParentRef, row |-> document]>>,
         tables, compiled.params)
=============================================================================
