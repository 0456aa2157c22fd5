------------------------ MODULE SpecificationParsers ------------------------
(***************************************************************************)
(* The four ways to write a specification: a JSONPath template read by the  *)
(* native parser (domain/jsonpath/jsonpath_parser.py), by the converters of *)
(* the trees of jsonpath2 and jsonpath-rfc9535, and a lambda.               *)
(*                                                                         *)
(* A template is the filter its writer had in mind:                         *)
(*   [is |-> "test", path, operator, operand]    @.a.b > operand            *)
(*   [is |-> "some", path, filter]               @.a[*][?filter]            *)
(*   [is |-> "null", path, operator]             a.b.IsNull(), lambdas only *)
(*   [is |-> "not", filter], [is |-> "and"/"or", filters]                   *)
(* and where it is written: root is the collection of $.root[*][?filter],   *)
(* or <<>> for $[?filter].  The native parser gets the tokens that spell it; *)
(* the libraries' trees and Python's ast have its shape, and are not built  *)
(* apart.                                                                   *)
(***************************************************************************)
EXTENDS Specification

Test(path, op, operand) == [is |-> "test", path |-> path, operator |-> op, operand |-> operand]
NullTest(path, op)      == [is |-> "null", path |-> path, operator |-> op]
Some(path, filter)      == [is |-> "some", path |-> path, filter |-> filter]
NotThat(filter)         == [is |-> "not", filter |-> filter]
AllOf(filters)          == [is |-> "and", filters |-> filters]
AnyOf(filters)          == [is |-> "or", filters |-> filters]

\* Operands.  A positional placeholder's name is its number among the positional
\* ones, from "0".  Parameters are a function of names: a tuple's are "0", "1", ...
Literal(n)         == [is |-> "literal", value |-> Number(n)]
Positional(n, fmt) == [is |-> "placeholder", positional |-> TRUE, name |-> n, format |-> fmt]
Named(n, fmt)      == [is |-> "placeholder", positional |-> FALSE, name |-> n, format |-> fmt]
Other(path)        == [is |-> "field", path |-> path]
Sum(l, op, r)      == [is |-> "arithmetic", left |-> l, operator |-> op, right |-> r]

Template(root, filter, parens) == [root |-> root, filter |-> filter, parens |-> parens]

RECURSIVE Operands(_)
Operands(f) ==
  CASE f.is = "test" -> <<f.operand>>
    [] f.is = "null" -> <<>>
    [] f.is \in {"some", "not"} -> Operands(f.filter)
    [] OTHER -> FlattenSeq([i \in DOMAIN f.filters |-> Operands(f.filters[i])])

-----------------------------------------------------------------------------
(* What a template says: the placeholders stand for their parameters and @ is  *)
(* the innermost collection's item.  params is a sequence, or a function of     *)
(* names.                                                                     *)

At(context, path) == FoldLeft(Get, context, path)

RECURSIVE OperandValue(_, _, _)
OperandValue(operand, at, params) ==
  CASE operand.is = "literal"     -> operand.value
    [] operand.is = "placeholder" -> params[operand.name]
    [] operand.is = "field"       -> At(at, operand.path)
    [] operand.is = "arithmetic"  ->
         Apply(operand.operator, OperandValue(operand.left, at, params), OperandValue(operand.right, at, params))

RECURSIVE Says(_, _, _)
Says(f, at, params) ==
  CASE f.is = "test" -> Apply(f.operator, At(at, f.path), OperandValue(f.operand, at, params))[2]
    [] f.is = "null" -> ApplyPostfix(f.operator, At(at, f.path))[2]
    [] f.is = "some" -> \E i \in DOMAIN At(at, f.path \o <<"*">>)[2] :
                          Says(f.filter, At(at, f.path \o <<"*">>)[2][i], params)
    [] f.is = "not"  -> ~Says(f.filter, at, params)
    [] f.is = "and"  -> \A i \in DOMAIN f.filters : Says(f.filters[i], at, params)
    [] f.is = "or"   -> \E i \in DOMAIN f.filters : Says(f.filters[i], at, params)

TemplateSays(template, document, params) ==
  Says(IF template.root = <<>> THEN template.filter ELSE Some(template.root, template.filter),
       document, params)

-----------------------------------------------------------------------------
(* Placeholders, the same in the three JSONPath parsers: the named ones are     *)
(* listed first, then the positional ones, and the parser binds the n-th it     *)
(* meets to the n-th of the list.                                             *)

IsPlaceholder(operand) == operand.is = "placeholder"

PlaceholderInfo(template) ==
  LET all == SelectSeq(Operands(template.filter), IsPlaceholder)
  IN  SelectSeq(all, LAMBDA p : ~p.positional) \o SelectSeq(all, LAMBDA p : p.positional)

\* What stands for a placeholder until it is bound.
Marker(format) == <<"marker", format>>

HasParam(p, params) == p.name \in DOMAIN params

Fits(template, params) ==
  \A i \in DOMAIN PlaceholderInfo(template) : HasParam(PlaceholderInfo(template)[i], params)

-----------------------------------------------------------------------------
(* The native parser: the tokens of a template, and recursive descent.          *)

Token(type, value) == <<type, value>>
Sign(type)         == <<type, "">>

TokenOfOperator(op) ==
  Sign(CASE op = "="  -> "EQ"  [] op = "!=" -> "NE"  [] op = ">"  -> "GT"
         [] op = "<"  -> "LT"  [] op = ">=" -> "GTE" [] op = "<=" -> "LTE")

TokenOfOperand(operand) ==
  IF IsPlaceholder(operand) THEN Token("PLACEHOLDER", operand.format) ELSE Token("NUMBER", operand.value)

PathTokens(path) == FlattenSeq([i \in DOMAIN path |-> <<Sign("DOT"), Token("IDENTIFIER", path[i])>>])
WildcardTokens   == <<Sign("LBRACKET"), Sign("WILDCARD"), Sign("RBRACKET")>>
FilterTokens(inner) == <<Sign("LBRACKET"), Sign("QUESTION")>> \o inner \o <<Sign("RBRACKET")>>

Parenthesised(inner, parens) ==
  [i \in 1..parens |-> Sign("LPAREN")] \o inner \o [i \in 1..parens |-> Sign("RPAREN")]

\* The writer puts parentheses around an or inside an and, and around what ! negates.
RECURSIVE Spell(_, _)
SpellJoined(filters, parens, sign) ==
  FlattenSeq([i \in DOMAIN filters |->
    (IF i = 1 THEN <<>> ELSE <<Sign(sign)>>)
      \o (IF sign = "AND" /\ filters[i].is = "or"
          THEN Parenthesised(Spell(filters[i], parens), parens)
          ELSE Spell(filters[i], parens))])
Spell(f, parens) ==
  CASE f.is = "test" -> <<Sign("AT")>> \o PathTokens(f.path)
                          \o <<TokenOfOperator(f.operator), TokenOfOperand(f.operand)>>
    [] f.is = "some" -> <<Sign("AT")>> \o PathTokens(f.path) \o WildcardTokens
                          \o FilterTokens(Spell(f.filter, parens))
    [] f.is = "not"  -> <<Sign("NOT")>> \o Parenthesised(Spell(f.filter, parens), 1)
    [] f.is = "and"  -> SpellJoined(f.filters, parens, "AND")
    [] f.is = "or"   -> SpellJoined(f.filters, parens, "OR")

TemplateTokens(template) ==
  <<Sign("DOLLAR")>> \o PathTokens(template.root)
    \o (IF template.root = <<>> THEN <<>> ELSE WildcardTokens)
    \o FilterTokens(Spell(template.filter, template.parens))

\* Where the parser stands: the node read, the position after it and _ParseContext.
Parsed(node, at, ctx) == [node |-> node, at |-> at, ctx |-> ctx]
SyntaxError           == [node |-> "error"]

TypeAt(tokens, i)     == IF i <= Len(tokens) THEN tokens[i][1] ELSE "END"
Skip(tokens, i, type) == IF TypeAt(tokens, i) = type THEN i + 1 ELSE i

IsWildcardPattern(tokens, i) ==
  \A k \in 0..2 : TypeAt(tokens, i + k) = <<"LBRACKET", "WILDCARD", "RBRACKET">>[k + 1]

\* The names of a dotted chain, and the position after it.
RECURSIVE ParseIdentifierChain(_, _)
ParseIdentifierChain(tokens, i) ==
  IF TypeAt(tokens, i) # "IDENTIFIER" THEN [names |-> <<>>, at |-> i]
  ELSE IF TypeAt(tokens, i + 1) = "DOT" /\ TypeAt(tokens, i + 2) = "IDENTIFIER"
       THEN LET rest == ParseIdentifierChain(tokens, i + 2)
            IN  [rest EXCEPT !.names = <<tokens[i][2]>> \o @]
       ELSE [names |-> <<tokens[i][2]>>, at |-> i + 1]

\* _create_placeholder_value numbers the placeholder; a literal is itself.
ParseValue(tokens, ctx, i) ==
  CASE TypeAt(tokens, i) = "NUMBER" -> Parsed(Value(tokens[i][2]), i + 1, ctx)
    [] TypeAt(tokens, i) = "PLACEHOLDER" ->
         Parsed([node |-> "placeholder", index |-> ctx.bound + 1], i + 1, [ctx EXCEPT !.bound = @ + 1])
    [] OTHER -> Parsed(SyntaxError, i, ctx)

ComparisonOf == [EQ |-> "=", NE |-> "!=", GT |-> ">", LT |-> "<", GTE |-> ">=", LTE |-> "<="]

ComparisonNode(sign, left, right) ==
  IF sign \in DOMAIN ComparisonOf THEN Infix(left, ComparisonOf[sign], right) ELSE SyntaxError

RECURSIVE ParseExpression(_, _, _)

\* The filter's closing bracket is left to the caller, which does not skip it.
OverCollection(collection, wildcard, inner) ==
  Parsed(Wildcard(collection, inner.node), inner.at, [inner.ctx EXCEPT !.wildcard = wildcard])

ParseNestedWildcard(tokens, ctx, i, collection) ==
  OverCollection(collection, ctx.wildcard, ParseExpression(tokens, [ctx EXCEPT !.wildcard = TRUE], i + 3))

ParseFieldAccess(tokens, ctx, start) ==
  LET root  == IF TypeAt(tokens, start) = "AT" /\ ctx.wildcard THEN Item ELSE GlobalScope
      chain == ParseIdentifierChain(tokens, Skip(tokens, Skip(tokens, start, "AT"), "DOT"))
  IN  CASE chain.names = <<>> -> Parsed(SyntaxError, chain.at, ctx)
        [] chain.names # <<>> /\ IsWildcardPattern(tokens, chain.at)
                              /\ TypeAt(tokens, chain.at + 3) = "LBRACKET" ->
             ParseNestedWildcard(tokens, ctx, chain.at, ObjectChain(root, chain.names))
        [] OTHER -> Parsed(FieldOf(root, chain.names), chain.at, ctx)

\* A comparison, which also takes the parenthesis after it.
ComparedWith(tokens, left, right) ==
  Parsed(ComparisonNode(TypeAt(tokens, left.at), left.node, right.node),
         Skip(tokens, right.at, "RPAREN"), right.ctx)

ComparisonAfter(tokens, left) ==
  CASE left.node.node = "collection" -> [left EXCEPT !.at = Skip(tokens, @, "RPAREN")]
    [] left.node.node # "collection" /\ left.at > Len(tokens) -> left
    [] OTHER -> ComparedWith(tokens, left, ParseValue(tokens, left.ctx, left.at + 1))

ParseComparison(tokens, ctx, start) == ComparisonAfter(tokens, ParseFieldAccess(tokens, ctx, start))

ParseParenthesised(tokens, ctx, start) ==
  [ParseExpression(tokens, ctx, start) EXCEPT !.at = Skip(tokens, @, "RPAREN")]

ParseOperand(tokens, ctx, start) ==
  IF TypeAt(tokens, start) = "LPAREN" THEN ParseParenthesised(tokens, ctx, start + 1)
  ELSE ParseComparison(tokens, ctx, start)

NotIf(negated, parsed) == IF negated THEN [parsed EXCEPT !.node = Not(@)] ELSE parsed

ParsePrimary(tokens, ctx, start) ==
  LET first == Skip(tokens, Skip(tokens, start, "LBRACKET"), "QUESTION")
  IN  NotIf(TypeAt(tokens, first) = "NOT", ParseOperand(tokens, ctx, Skip(tokens, first, "NOT")))

\* && binds tighter than ||, and both nest to the left.
RECURSIVE ParseAndAfter(_, _), ParseOrAfter(_, _)
ParseAndAfter(tokens, left) ==
  IF TypeAt(tokens, left.at) # "AND" THEN left
  ELSE ParseAndAfter(tokens, [ParsePrimary(tokens, left.ctx, left.at + 1)
                                EXCEPT !.node = And(left.node, <<@>>)])

ParseAndExpression(tokens, ctx, start) == ParseAndAfter(tokens, ParsePrimary(tokens, ctx, start))

ParseOrAfter(tokens, left) ==
  IF TypeAt(tokens, left.at) # "OR" THEN left
  ELSE ParseOrAfter(tokens, [ParseAndExpression(tokens, left.ctx, left.at + 1)
                               EXCEPT !.node = Or(left.node, <<@>>)])

ParseExpression(tokens, ctx, start) == ParseOrAfter(tokens, ParseAndExpression(tokens, ctx, start))

\* $.a.b[*][?filter] and $[?filter]; what follows the filter is not looked at.
PathOver(names, predicate) ==
  IF names = <<>> THEN predicate ELSE Wildcard(ObjectChain(GlobalScope, names), predicate)

ParsePath(tokens) ==
  LET chain     == ParseIdentifierChain(tokens, Skip(tokens, Skip(tokens, 1, "DOLLAR"), "DOT"))
      wildcard  == chain.names # <<>> /\ IsWildcardPattern(tokens, chain.at)
      filter    == IF wildcard THEN chain.at + 3 ELSE chain.at
  IN  IF TypeAt(tokens, filter) # "LBRACKET" THEN SyntaxError
      ELSE PathOver(IF wildcard THEN chain.names ELSE <<>>,
                    ParseExpression(tokens, [bound |-> 0, wildcard |-> wildcard], filter).node)

\* match() binds a copy of the tree: a placeholder without a parameter keeps its marker.
BoundValue(index, template, params) ==
  LET info == PlaceholderInfo(template)[index]
  IN  IF HasParam(info, params) THEN params[info.name] ELSE Marker(info.format)

RECURSIVE BindValues(_, _, _)
BindValues(node, template, params) ==
  CASE node.node = "placeholder" -> Value(BoundValue(node.index, template, params))
    [] node.node = "prefix" -> [node EXCEPT !.operand = BindValues(@, template, params)]
    [] node.node = "infix"  -> [node EXCEPT !.left = BindValues(@, template, params),
                                            !.right = BindValues(@, template, params)]
    [] node.node = "collection" -> [node EXCEPT !.predicate = BindValues(@, template, params)]
    [] OTHER -> node

NativeTree(template, params) == BindValues(ParsePath(TemplateTokens(template)), template, params)

-----------------------------------------------------------------------------
(* The converters of the libraries' trees bind while they convert: ctx holds the *)
(* number of placeholders bound and whether @ is a collection's item.          *)

Converted(node, ctx) == [node |-> node, ctx |-> ctx]

ScopeOf(ctx) == IF ctx.inItem THEN Item ELSE GlobalScope

\* The literals of the trees: markers where the text had placeholders.
MarkedValue(operand) == IF IsPlaceholder(operand) THEN Marker(operand.format) ELSE operand.value

GetPlaceholderValue(p, params, ctx) ==
  IF HasParam(p, params) THEN Converted(Value(params[p.name]), [ctx EXCEPT !.bound = @ + 1])
  ELSE Converted(SyntaxError, ctx)

\* jsonpath2: a marker of the next placeholder's kind is bound to it, any other
\* literal is itself.
IsPlaceholderMarker(value, format) ==
  value \in (IF format = "s" THEN {Marker("s")} ELSE {Marker("d"), Marker("f")})

ConvertNodeOrValue(operand, template, params, ctx) ==
  LET info  == PlaceholderInfo(template)
      Due   == ctx.bound < Len(info) /\ IsPlaceholderMarker(MarkedValue(operand), info[ctx.bound + 1].format)
  IN  CASE operand.is = "field"          -> Converted(FieldOf(ScopeOf(ctx), operand.path), ctx)
        [] operand.is # "field" /\ Due  -> GetPlaceholderValue(info[ctx.bound + 1], params, ctx)
        [] operand.is # "field" /\ ~Due -> Converted(Value(MarkedValue(operand)), ctx)

\* jsonpath-rfc9535: a marker that cannot be bound raises; an integer's marker may
\* stand for a float.
AllowedTypes == [d |-> {"d", "f"}, f |-> {"f"}, s |-> {"s"}]

TryBindPlaceholder(template, params, ctx, allowed) ==
  LET info == PlaceholderInfo(template)
  IN  IF ctx.bound < Len(info) /\ info[ctx.bound + 1].format \in allowed
      THEN GetPlaceholderValue(info[ctx.bound + 1], params, ctx)
      ELSE Converted(SyntaxError, ctx)

ConvertFieldAccess(path, ctx) == Converted(FieldOf(ScopeOf(ctx), path), ctx)

ConvertOperandToSpec(operand, template, params, ctx) ==
  CASE operand.is = "field"       -> ConvertFieldAccess(operand.path, ctx)
    [] operand.is = "placeholder" -> TryBindPlaceholder(template, params, ctx, AllowedTypes[operand.format])
    [] operand.is = "literal"     -> Converted(Value(operand.value), ctx)

RECURSIVE ConvertPath2(_, _, _, _), ConvertRfc(_, _, _, _)

\* jsonpath2 hands ctx on as a value: what a nested wildcard bound is not counted.
ConvertSome2(f, template, params, ctx) ==
  LET inner == ConvertPath2(f.filter, template, params, [ctx EXCEPT !.inItem = TRUE])
  IN  Converted(IF Len(f.path) = 1 THEN Wildcard(Object(ScopeOf(ctx), f.path[1]), inner.node)
                ELSE SyntaxError, ctx)

\* Bug: each operand of && and || starts from the context of the first.
ConvertJoined2SameCtx(f, template, params, ctx) ==
  LET first == ConvertPath2(f.filters[1], template, params, ctx)
      Join(left, g) ==
        Converted(Infix(left.node, IF f.is = "and" THEN "AND" ELSE "OR",
                        ConvertPath2(g, template, params, ctx).node), ctx)
  IN  FoldLeft(Join, first, Tail(f.filters))

ConvertJoined2(f, template, params, ctx) ==
  LET Join(left, g) ==
        LET right == ConvertPath2(g, template, params, left.ctx)
        IN  Converted(Infix(left.node, IF f.is = "and" THEN "AND" ELSE "OR", right.node), right.ctx)
  IN  FoldLeft(Join, ConvertPath2(f.filters[1], template, params, ctx), Tail(f.filters))

ConvertPath2(f, template, params, ctx) ==
  CASE f.is = "test" ->
         LET right == ConvertNodeOrValue(f.operand, template, params, ctx)
         IN  Converted(Infix(FieldOf(ScopeOf(ctx), f.path), f.operator, right.node), right.ctx)
    [] f.is = "not"  ->
         LET operand == ConvertPath2(f.filter, template, params, ctx)
         IN  [operand EXCEPT !.node = Not(@)]
    [] f.is = "some" -> ConvertSome2(f, template, params, ctx)
    [] OTHER         -> ConvertJoined2(f, template, params, ctx)

\* jsonpath-rfc9535 keeps ctx in one object: every placeholder met is counted, and
\* each expression says anew whether it is about an item.
ConvertSomeRfc(f, template, params, ctx) ==
  LET inner == ConvertRfc(f.filter, template, params, [ctx EXCEPT !.inItem = TRUE])
  IN  Converted(Wildcard(Object(ScopeOf(ctx), Last(f.path)), inner.node),
                [inner.ctx EXCEPT !.inItem = ctx.inItem])

ConvertRfc(f, template, params, ctx) ==
  CASE f.is = "test" ->
         LET right == ConvertOperandToSpec(f.operand, template, params, ctx)
         IN  Converted(Infix(FieldOf(ScopeOf(ctx), f.path), f.operator, right.node), right.ctx)
    [] f.is = "not"  ->
         LET operand == ConvertRfc(f.filter, template, params, ctx)
         IN  [operand EXCEPT !.node = Not(@)]
    [] f.is = "some" -> ConvertSomeRfc(f, template, params, ctx)
    [] OTHER ->
         LET Join(left, g) ==
               LET right == ConvertRfc(g, template, params, left.ctx)
               IN  Converted(Infix(left.node, IF f.is = "and" THEN "AND" ELSE "OR", right.node), right.ctx)
         IN  FoldLeft(Join, ConvertRfc(f.filters[1], template, params, ctx), Tail(f.filters))

\* Both take the last name before the filter for the collection.
FirstContext == [bound |-> 0, inItem |-> FALSE]

CreateWildcard2(template, params, collection) ==
  Wildcard(Object(GlobalScope, collection),
           ConvertPath2(template.filter, template, params, [FirstContext EXCEPT !.inItem = TRUE]).node)

ExtractFilter2(template, params) ==
  IF template.root = <<>> THEN ConvertPath2(template.filter, template, params, FirstContext).node
  ELSE CreateWildcard2(template, params, Last(template.root))

CreateWildcardRfc(template, params, collection) ==
  Wildcard(Object(GlobalScope, collection),
           ConvertRfc(template.filter, template, params, [FirstContext EXCEPT !.inItem = TRUE]).node)

ExtractFilterRfc(template, params) ==
  IF template.root = <<>> THEN ConvertRfc(template.filter, template, params, FirstContext).node
  ELSE CreateWildcardRfc(template, params, Last(template.root))

-----------------------------------------------------------------------------
(* The lambda: lambda x: ... for a filter of $, any(... for v in x.root) for a    *)
(* collection's, with the parameters in place of the placeholders; operands may *)
(* be sums, and a field may be asked whether it is null.  The writer            *)
(* names the variable of the innermost comprehension; the parser remembers one  *)
(* name, arg, and whether it stands for an item.                              *)

VariableAt(depth) == <<"variable", depth>>

AttributeRoot(variable, st) ==
  IF variable # st.arg THEN SyntaxError ELSE IF st.inItem THEN Item ELSE GlobalScope

ConvertAttribute(path, variable, st) ==
  IF AttributeRoot(variable, st) = SyntaxError THEN SyntaxError ELSE FieldOf(AttributeRoot(variable, st), path)

RECURSIVE ConvertTerm(_, _, _, _)

ConvertBinOp(term, params, variable, st) ==
  Infix(ConvertTerm(term.left, params, variable, st), term.operator,
        ConvertTerm(term.right, params, variable, st))

ConvertTerm(term, params, variable, st) ==
  CASE term.is = "field"       -> ConvertAttribute(term.path, variable, st)
    [] term.is = "arithmetic"  -> ConvertBinOp(term, params, variable, st)
    [] term.is = "literal"     -> Value(term.value)
    [] term.is = "placeholder" -> Value(params[term.name])

ConvertCompare(f, params, variable, st) ==
  Infix(ConvertAttribute(f.path, variable, st), f.operator, ConvertTerm(f.operand, params, variable, st))

ConvertMethodPostfix(f, variable, st) == Postfix(ConvertAttribute(f.path, variable, st), f.operator)

ExtractCollectionPath(path, variable, st) ==
  IF AttributeRoot(variable, st) = SyntaxError THEN SyntaxError ELSE ObjectChain(AttributeRoot(variable, st), path)

RECURSIVE ConvertLambda(_, _, _, _)

\* A list comprehension is converted by the same steps.
ConvertGeneratorToWildcard(f, params, depth, st) ==
  LET inner == ConvertLambda(f.filter, params, depth + 1, [arg |-> VariableAt(depth + 1), inItem |-> TRUE])
  IN  Converted(Wildcard(ExtractCollectionPath(f.path, VariableAt(depth), st), inner.node), st)

\* any(...) and field.IsNull().
ConvertCall(f, params, depth, st) ==
  IF f.is = "some" THEN ConvertGeneratorToWildcard(f, params, depth, st)
  ELSE Converted(ConvertMethodPostfix(f, VariableAt(depth), st), st)

ConvertBoolOp(f, params, depth, st) ==
  LET Join(left, g) ==
        LET right == ConvertLambda(g, params, depth, left.ctx)
        IN  Converted(Infix(left.node, IF f.is = "and" THEN "AND" ELSE "OR", right.node), right.ctx)
  IN  FoldLeft(Join, ConvertLambda(f.filters[1], params, depth, st), Tail(f.filters))

ConvertLambda(f, params, depth, st) ==
  CASE f.is = "test" -> Converted(ConvertCompare(f, params, VariableAt(depth), st), st)
    [] f.is = "not"  ->
         LET operand == ConvertLambda(f.filter, params, depth, st)
         IN  [operand EXCEPT !.node = Not(@)]
    [] f.is \in {"some", "null"} -> ConvertCall(f, params, depth, st)
    [] OTHER         -> ConvertBoolOp(f, params, depth, st)

LambdaTree(template, params) ==
  ConvertLambda(IF template.root = <<>> THEN template.filter ELSE Some(template.root, template.filter),
                params, 0, [arg |-> VariableAt(0), inItem |-> FALSE]).node

-----------------------------------------------------------------------------
Parsers == {"native", "jsonpath2", "rfc9535", "lambda"}

\* What each of them has no syntax for.
Unknown(parser) ==
  CASE parser = "lambda" -> {}
    [] parser = "native" -> {"field", "arithmetic", "null"}
    [] OTHER             -> {"arithmetic", "null"}

RECURSIVE Uses(_)
Uses(f) ==
  CASE f.is = "test" -> {f.operand.is}
    [] f.is = "null" -> {"null"}
    [] f.is \in {"some", "not"} -> Uses(f.filter)
    [] OTHER -> UNION {Uses(f.filters[i]) : i \in DOMAIN f.filters}

Tree(parser, template, params) ==
  CASE parser = "native"    -> NativeTree(template, params)
    [] parser = "jsonpath2" -> ExtractFilter2(template, params)
    [] parser = "rfc9535"   -> ExtractFilterRfc(template, params)
    [] parser = "lambda"    -> LambdaTree(template, params)
=============================================================================
