----------------------------- MODULE MCScaffold -----------------------------
\* Domain models for the scaffold: one with everything, one that takes some of it back, and one
\* that is refused.
EXTENDS ScaffoldParser

Vo(name, how, fields, import) ==
  [name |-> <<name>>, identity |-> how = "identity", enum |-> how = "enum", base |-> <<"int">>,
   fields |-> fields, import |-> import, unknown |-> {}]
Field(param, type) == [param |-> param, private |-> TRUE, type |-> type]
Public(param, type) == [Field(param, type) EXCEPT !.private = FALSE]
T(name) == TypeStr(<<name>>)

OrderValues == <<Here, <<"Order">>, <<"values">>>>
Shared      == <<<<"shared">>>>

Line == [name |-> <<"Line">>, unknown |-> {}, entities |-> <<>>,
         value_objects |-> <<Vo("Quantity", "simple", <<>>, NoImport)>>,
         fields |-> <<Public("order_id", Dotted(OrderValues, <<"OrderId">>)), Public("quantity", T("Quantity"))>>]

OrderWith(vos, fields, entities, events) ==
  [name |-> <<"Order">>, unknown |-> {}, value_objects |-> vos, fields |-> fields, entities |-> entities, domain_events |-> events]

OrderId == Vo("OrderId", "identity", <<>>, NoImport)
Amount  == Vo("Amount", "simple", <<>>, NoImport)
Price   == Vo("Price", "composite", <<Field("total", T("Total")), Field("currency", T("Currency"))>>, NoImport)
Total   == Vo("Total", "composite", <<Field("amount", T("Amount"))>>, NoImport)
Currency == Vo("Currency", "enum", <<>>, NoImport)

Yaml(aggregates) == [unknown |-> {}, external_references |-> <<>>, aggregates |-> aggregates]

Placed(fields) == [name |-> <<"Order", "Created">>, fields |-> fields]

\* A composite of a composite, an entity, an event, and a second aggregate.
Grown == Yaml(<<
  OrderWith(<<OrderId, Price, Total, Amount, Currency>>,
            <<Field("id", T("OrderId")), Field("price", T("Price")), Field("lines", Collection("list", T("Line"))),
              Field("created_at", T("datetime"))>>,
            <<Line>>, <<Placed(<<Public("aggregate_id", T("OrderId")), Public("price", T("Price"))>>)>>),
  [name |-> <<"Customer">>, unknown |-> {}, entities |-> <<>>, domain_events |-> <<>>,
   value_objects |-> <<Vo("CustomerId", "identity", <<>>, NoImport)>>,
   fields |-> <<Field("id", T("CustomerId")), Field("order_ids", Collection("list", Dotted(OrderValues, <<"OrderId">>)))>>]>>)

\* Amount is shared now, and what was a price is a simple value.
Shrunk == Yaml(<<
  OrderWith(<<OrderId, Vo("Amount", "simple", <<>>, Shared), Vo("Price", "simple", <<>>, NoImport)>>,
            <<Field("id", T("OrderId")), Field("price", T("Price")), Field("amount", T("Amount")),
              Field("fee", Dotted(Shared, <<"Fee">>))>>, <<>>, <<>>)>>)

Circular == Yaml(<<OrderWith(<<OrderId, Vo("Price", "composite", <<Field("total", T("Total"))>>, NoImport),
                               Vo("Total", "composite", <<Field("price", T("Price"))>>, NoImport)>>,
                             <<Field("id", T("OrderId"))>>, <<>>, <<>>)>>)

MCModels == {Grown, Shrunk, Circular}
MCEdited == {<<"Price">>}
=============================================================================
