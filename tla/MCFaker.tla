------------------------------- MODULE MCFaker -------------------------------
(***************************************************************************)
(* Orders of customers of tenants: an order refers to its tenant directly    *)
(* and through its customer.  Definitions only, for MCLibrary.                *)
(***************************************************************************)
EXTENDS Query

OrderAttrs == <<"id", "status", "addr", "customer", "payer", "tenant">>

MCNode == {"order", "o.id", "o.status", "o.addr", "o.addr.city", "o.customer",
           "o.payer", "o.tenant", "customer", "c.id", "c.tenant", "tenant", "t.id", "t.status"}
MCKind == [n \in MCNode |->
  CASE n \in {"order", "customer", "tenant"} -> "aggregate"
    [] n \in {"o.customer", "o.payer", "o.tenant", "c.tenant"} -> "reference"
    [] n = "o.addr" -> "composite"
    [] OTHER -> "value"]
MCChild == [n \in MCNode |->
  CASE n = "order" -> [id |-> "o.id", status |-> "o.status", addr |-> "o.addr",
                       customer |-> "o.customer", payer |-> "o.payer", tenant |-> "o.tenant"]
    [] n = "o.addr" -> [city |-> "o.addr.city"]
    [] n = "customer" -> [id |-> "c.id", tenant |-> "c.tenant"]
    [] n = "tenant" -> [id |-> "t.id", status |-> "t.status"]
    [] OTHER -> <<>>]
MCAttrs == [n \in MCNode |->
  CASE n = "order" -> OrderAttrs [] n = "o.addr" -> <<"city">>
    [] n = "customer" -> <<"id", "tenant">> [] n = "tenant" -> <<"id", "status">> [] OTHER -> <<>>]
MCTarget == [r \in {"o.customer", "o.payer", "o.tenant", "c.tenant"} |->
               IF r \in {"o.customer", "o.payer"} THEN "customer" ELSE "tenant"]
MCIdAttr == [a \in {"order", "customer", "tenant"} |-> "id"]
MCMaxRows == [a \in {"order", "customer", "tenant"} |-> 2]
MCDependent == [n \in MCNode |-> NoNode]
MCGenerated == [n \in MCNode |->
  CASE n \in {"o.status", "o.addr.city"} -> {Num(1)}
    [] n = "t.status" -> {Num(1), Num(2)} [] OTHER -> {}]

Op(name, arg) == <<"ops", <<<<name, arg>>>>>>
F(f, q)  == <<"fields", [g \in {f} |-> q]>>
Rel(q)   == Op("$rel", q)
Between  == <<"ops", <<<<"$gt", Num(0)>>, <<"$lte", Num(1)>>>>>>

MCQueries == {
  F("status", Between),
  F("tenant", Num(1)),
  F("customer", Rel(F("tenant", Rel(F("status", Num(2)))))),
  F("customer", Rel(F("tenant", Num(2))))
}

MCProbes == {
  <<"order", F("status", Op("$or", <<Num(2), Op("$eq", Num(1))>>))>>,
  <<"order", F("status", Op("$not", Num(2)))>>,
  <<"order", F("status", Op("$ne", Num(2)))>>,
  <<"order", F("status", Op("$in", <<Num(2), Num(3)>>))>>,
  <<"order", F("addr", F("city", Num(1)))>>,
  <<"order", F("tenant", Rel(F("status", Op("$ne", Num(1)))))>>,
  <<"order", F("customer", Rel(F("tenant", Rel(F("status", Num(2))))))>>,
  <<"order", F("customer", Op("$not", Rel(F("tenant", Num(1)))))>>,
  <<"order", F("payer", Op("$or", <<Num(1), Rel(F("id", Num(2)))>>))>>,
  <<"customer", F("tenant", Op("$eq", Num(1)))>>,
  <<"customer", Op("$or", <<F("id", Num(1)), F("tenant", Rel(F("status", Num(1))))>>)>>
}
=============================================================================
