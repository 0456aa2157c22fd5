---------------------------- MODULE Specification ---------------------------
(***************************************************************************)
(* The expression tree of a specification (specification/domain/nodes.py)   *)
(* and the visitor that evaluates it over a domain object                   *)
(* (specification/domain/evaluate_visitor.py).                              *)
(*                                                                         *)
(* A node is a record tagged by "node".  A value is a pair of its type and  *)
(* itself; a Context is the function of its fields.  An exception is the    *)
(* value Raised, which every node above it passes on.                       *)
(***************************************************************************)
EXTENDS Integers, Sequences, SequencesExt

Number(n)  == <<"int", n>>
Boolean(b) == <<"bool", b>>
Context(f) == <<"context", f>>
List(s)    == <<"list", s>>
Raised     == <<"raised">>

-----------------------------------------------------------------------------
(* Nodes.  And and Or take any number of right operands and nest to the left. *)

Value(v)            == [node |-> "value", value |-> v]
Prefix(op, x)       == [node |-> "prefix", operator |-> op, operand |-> x]
Infix(l, op, r)     == [node |-> "infix", left |-> l, operator |-> op, right |-> r]
Postfix(x, op)      == [node |-> "postfix", operand |-> x, operator |-> op]
GlobalScope         == [node |-> "global"]
Item                == [node |-> "item"]
Object(parent, n)   == [node |-> "object", parent |-> parent, name |-> n]
Field(object, n)    == [node |-> "field", object |-> object, name |-> n]
Wildcard(parent, p) == [node |-> "collection", parent |-> parent, predicate |-> p]

Not(x) == Prefix("NOT", x)

FoldRights(op, left, rights) == FoldLeft(LAMBDA l, r : Infix(l, op, r), left, rights)
And(left, rights) == FoldRights("AND", left, rights)
Or(left, rights)  == FoldRights("OR", left, rights)

IsRoot(object) == object.node \in {"global", "item"}

\* The names from the root of an object to it, and of a field.
RECURSIVE ObjectPath(_)
ObjectPath(object) ==
  IF IsRoot(object) THEN <<>> ELSE Append(ObjectPath(object.parent), object.name)

ExtractFieldPath(field) == Append(ObjectPath(field.object), field.name)

RECURSIVE RootOf(_)
RootOf(object) == IF IsRoot(object) THEN object ELSE RootOf(object.parent)

\* object_() and field() of the public adapters: the parts of a dotted name.
ObjectChain(parent, names) == FoldLeft(Object, parent, names)
FieldOf(root, names)       == Field(ObjectChain(root, Front(names)), Last(names))

-----------------------------------------------------------------------------
(* OPERATOR_MAPPING: what an operator does to the values of its operands.     *)

BothAre(type, l, r) == l[1] = type /\ r[1] = type

Compare(op, a, b) ==
  CASE op = ">"  -> a > b
    [] op = "<"  -> a < b
    [] op = ">=" -> a >= b
    [] op = "<=" -> a <= b

Arithmetic(op, a, b) ==
  CASE op = "+" -> a + b
    [] op = "-" -> a - b
    [] op = "*" -> a * b

\* and_ and or_ are & and |: both sides are evaluated and both are booleans.
Apply(op, l, r) ==
  CASE l = Raised \/ r = Raised -> Raised
    [] op \in {"=", "IS"}       -> Boolean(l = r)
    [] op = "!="                -> Boolean(l # r)
    [] op = "AND" /\ BothAre("bool", l, r) -> Boolean(l[2] /\ r[2])
    [] op = "OR" /\ BothAre("bool", l, r)  -> Boolean(l[2] \/ r[2])
    [] op \in {">", "<", ">=", "<="} /\ BothAre("int", l, r) -> Boolean(Compare(op, l[2], r[2]))
    [] op \in {"+", "-", "*"} /\ BothAre("int", l, r) -> Number(Arithmetic(op, l[2], r[2]))
    [] OTHER                    -> Raised

ApplyNot(v) == IF v[1] = "bool" THEN Boolean(~v[2]) ELSE Raised

NoneValue == <<"none">>

ApplyPostfix(op, v) ==
  CASE v = Raised          -> Raised
    [] op = "IS NULL"      -> Boolean(v = NoneValue)
    [] op = "IS NOT NULL"  -> Boolean(v # NoneValue)

-----------------------------------------------------------------------------
(* EvaluateVisitor.  The context stack is balanced around every visit, so what *)
(* a visit leaves behind is the value and _current_item, which is set for     *)
(* every item of a collection and put back by nobody.                         *)

Get(context, name) ==
  IF context[1] = "context" /\ name \in DOMAIN context[2] THEN context[2][name] ELSE Raised

RECURSIVE Reach(_, _, _)
Reach(object, context, item) ==
  CASE object.node = "global" -> context
    [] object.node = "item"   -> item
    [] object.node = "object" ->
         LET reached == Get(Reach(object.parent, context, item), object.name)
         IN  IF reached[1] = "context" THEN reached ELSE Raised
    [] OTHER -> Raised

RECURSIVE Visit(_, _, _)

VisitInfix(node, context, item) ==
  LET left  == Visit(node.left, context, item)
      right == Visit(node.right, context, left.item)
  IN  [value |-> Apply(node.operator, left.value, right.value), item |-> right.item]

\* Every item is visited, whatever the earlier ones gave.
VisitItem(node, context, found, item) ==
  LET seen == Visit(node.predicate, context, item)
  IN  [value |-> IF item[1] = "context" /\ BothAre("bool", found.value, seen.value)
                 THEN Boolean(found.value[2] \/ seen.value[2])
                 ELSE Raised,
       item |-> seen.item]

VisitCollection(node, context, item) ==
  LET items == Get(Reach(node.parent, context, item), "*")
  IN  IF items[1] # "list"
      THEN [value |-> Raised, item |-> item]
      ELSE FoldLeft(LAMBDA found, each : VisitItem(node, context, found, each),
                    [value |-> Boolean(FALSE), item |-> item], items[2])

Visit(node, context, item) ==
  CASE node.node = "value" -> [value |-> node.value, item |-> item]
    [] node.node = "field" -> [value |-> Get(Reach(node.object, context, item), node.name), item |-> item]
    [] node.node = "prefix" ->
         LET operand == Visit(node.operand, context, item)
         IN  [operand EXCEPT !.value = ApplyNot(@)]
    [] node.node = "postfix" ->
         LET operand == Visit(node.operand, context, item)
         IN  [operand EXCEPT !.value = ApplyPostfix(node.operator, @)]
    [] node.node = "infix"      -> VisitInfix(node, context, item)
    [] node.node = "collection" -> VisitCollection(node, context, item)
    [] OTHER -> [value |-> Raised, item |-> item]

\* accept() and result(): no current item yet, and the answer is a boolean.
Evaluate(node, context) ==
  LET value == Visit(node, context, Raised).value
  IN  IF value[1] = "bool" THEN value ELSE Raised
=============================================================================
