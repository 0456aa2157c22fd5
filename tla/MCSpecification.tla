--------------------------- MODULE MCSpecification --------------------------
EXTENDS SpecificationUse

\* Documents: a shop with items and with categories of goods.
Goods(price, qty) == Context([price |-> Number(price), qty |-> Number(qty)])
CollectionOf(contexts) == Context([x \in {"*"} |-> List(contexts)])

Keyed(good, key) == Context(good[2] @@ [category |-> Number(key)])

Category(key, rank, shop, goods) ==
  Context([id |-> Number(key), rank |-> Number(rank), shop |-> Number(shop),
           goods |-> CollectionOf([i \in DOMAIN goods |-> Keyed(goods[i], key)])])

Shop(key, a, b, items, categories) ==
  Context([id |-> Tuple(<<Number(7), Number(key)>>), tenant |-> Number(7), number |-> Number(key),
           a |-> Number(a), b |-> Number(b),
           profile |-> Context([level |-> Number(a)]),
           items |-> CollectionOf(items), categories |-> CollectionOf(categories)])

MCCategories == <<
  Category(1, 1, 1, <<Goods(5, 1), Goods(1, 2)>>), Category(2, 2, 1, <<Goods(3, 3)>>),
  Category(3, 2, 2, <<Goods(5, 2)>>)>>

MCDocuments == {
  Shop(1, 1, 2, <<Goods(5, 1), Goods(2, 3)>>, <<MCCategories[1], MCCategories[2]>>),
  Shop(2, 2, 1, <<Goods(3, 2)>>, <<MCCategories[3]>>),
  Shop(3, 2, 2, <<>>, <<>>)}

MCTables ==
  [categories |-> MCCategories,
   goods |-> FlattenSeq([i \in DOMAIN MCCategories |-> MCCategories[i][2].goods[2]["*"][2]])]

Three(a, b, c) == ("0" :> Number(a)) @@ ("1" :> Number(b)) @@ ("2" :> Number(c))

MCParams ==
  {Three(1, 1, 1), Three(1, 2, 3), Three(2, 3, 1)}
    \cup {[low |-> Number(1), high |-> Number(n)] : n \in {1, 2}}

A(op, operand)     == Test(<<"a">>, op, operand)
B(op, operand)     == Test(<<"b">>, op, operand)
Price(op, operand) == Test(<<"price">>, op, operand)
Qty(op, operand)   == Test(<<"qty">>, op, operand)
Rank(op, operand)  == Test(<<"rank">>, op, operand)
P(i) == Positional(<<"0", "1", "2">>[i], "d")

\* The shapes the documentation shows.
DocumentedTemplates == {
  Template(<<>>, A(">=", P(1)), 1),
  Template(<<>>, AllOf(<<A(">", Literal(1)), B("=", P(1)), A("<", P(2))>>), 1),
  Template(<<>>, AnyOf(<<A("=", P(1)), AllOf(<<B("=", P(2)), A("!=", P(3))>>)>>), 1),
  Template(<<>>, NotThat(AnyOf(<<A("=", P(1)), B("<=", P(2))>>)), 1),
  Template(<<>>, AllOf(<<AnyOf(<<A("=", P(1)), B("=", P(2))>>), A("=", P(3))>>), 2),
  Template(<<>>, Test(<<"profile", "level">>, "=", P(1)), 1),
  Template(<<"items">>, AllOf(<<Price(">", P(1)), Qty("<", P(2))>>), 1),
  Template(<<"categories">>, Some(<<"goods">>, AllOf(<<Price(">", P(1)), Qty("=", P(2))>>)), 1),
  Template(<<"categories">>, AllOf(<<Rank(">=", P(1)), Some(<<"goods">>, Price(">", P(2)))>>), 1),
  Template(<<>>, AllOf(<<B("=", P(1)), Some(<<"items">>, Price(">", P(2)))>>), 1),
  Template(<<>>, AllOf(<<A("<=", Named("high", "d")), B(">", Named("low", "f"))>>), 1),
  Template(<<>>, AllOf(<<A(">", Positional("0", "f")), B("<=", Positional("1", "d"))>>), 1),
  Template(<<"items">>, AllOf(<<Price(">", Other(<<"qty">>)), Price("<", P(1))>>), 1),
  Template(<<>>, AnyOf(<<A("=", Sum(Other(<<"b">>), "-", Literal(1))), NullTest(<<"b">>, "IS NULL")>>), 1)}

GroupedTemplates == {
  Template(<<>>, AllOf(<<AnyOf(<<A("=", P(1)), B("=", P(2))>>), A("=", P(3))>>), 1)}

F(path) == FieldOf(GlobalScope, path)
I(path) == FieldOf(Item, path)
N(n)    == Value(Number(n))
In(root, name, predicate) == Wildcard(Object(root, name), predicate)
By(by, expressions) == {[by |-> by, expression |-> e] : e \in expressions}

MCExpressions ==
  By("context", {
    Infix(F(<<"id">>), "=", Value(Tuple(<<Number(7), Number(2)>>))),
    And(Infix(F(<<"id">>), "=", Value(Tuple(<<Number(7), Number(1)>>))), <<Infix(F(<<"a">>), ">", N(0))>>),
    Postfix(F(<<"a">>), "IS NOT NULL")})
  \cup
  By("schema", {
    Or(And(Infix(F(<<"a">>), "=", N(1)), <<Infix(F(<<"b">>), "=", N(2))>>), <<Infix(F(<<"a">>), ">", N(1))>>),
    Not(Infix(Infix(F(<<"a">>), "+", F(<<"b">>)), "<", N(4))),
    Infix(Infix(F(<<"a">>), "-", F(<<"b">>)), ">=", Infix(N(0), "*", F(<<"profile", "level">>))),
    In(GlobalScope, "items", And(Infix(I(<<"price">>), ">", N(2)), <<Infix(I(<<"qty">>), "<", N(2))>>)),
    In(GlobalScope, "categories", In(Item, "goods", Infix(I(<<"price">>), "=", N(5)))),
    And(Infix(F(<<"a">>), "=", N(2)),
        <<In(GlobalScope, "categories",
             And(Infix(I(<<"rank">>), "=", N(2)), <<In(Item, "goods", Infix(I(<<"qty">>), "=", N(3)))>>))>>)})

NestedExpressions ==
  By("schema", {
    And(Or(Infix(F(<<"a">>), "=", N(2)), <<Infix(F(<<"b">>), "=", N(2))>>), <<Infix(F(<<"b">>), "=", N(1))>>)})

MCColumns ==
  (<<"id">> :> <<"composite", <<<<"column", "tenant">>, <<"column", "number">>>>>>)
    @@ (<<"a">> :> <<"column", "a">>)

MCSchema ==
  [categories |-> [table |-> "categories", foreign_keys |-> <<[child |-> "shop", parent |-> "number"]>>],
   goods |-> [table |-> "goods", foreign_keys |-> <<[child |-> "category", parent |-> "id"]>>]]
=============================================================================
