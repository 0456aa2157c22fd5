--------------------------- MODULE MCFakerChildren ---------------------------
(***************************************************************************)
(* An order and the lines that depend on it.  Definitions only, for MCLibrary *)
(* and MCFakerReset.                                                         *)
(***************************************************************************)
EXTENDS Query

MCNode == {"order", "o.id", "o.status", "line", "l.id", "l.order", "l.info", "l.info.tags"}
MCKind == [n \in MCNode |->
  CASE n \in {"order", "line"} -> "aggregate" [] n = "l.info" -> "composite" [] OTHER -> "value"]
MCChild == [n \in MCNode |->
  CASE n = "order" -> [id |-> "o.id", status |-> "o.status"]
    [] n = "line" -> [id |-> "l.id", order |-> "l.order", info |-> "l.info"]
    [] n = "l.info" -> [tags |-> "l.info.tags"]
    [] OTHER -> <<>>]
MCAttrs == [n \in MCNode |->
  CASE n = "order" -> <<"id", "status">> [] n = "line" -> <<"id", "order", "info">>
    [] n = "l.info" -> <<"tags">> [] OTHER -> <<>>]
MCIdAttr == [a \in {"order", "line"} |-> "id"]
MCMaxRows == [a \in {"order", "line"} |-> 3]
MCDependent == [n \in MCNode |-> IF n = "order" THEN "line" ELSE NoNode]
MCParentField == [n \in {"line"} |-> "order"]
MCGenerated == [n \in MCNode |->
  CASE n = "o.status" -> {Num(1), Num(2)} [] n = "l.info.tags" -> {List(<<Num(1), Num(2)>>)} [] OTHER -> {}]

Op(name, arg) == <<"ops", <<<<name, arg>>>>>>
F(f, q)  == <<"fields", [g \in {f} |-> q]>>
Between  == <<"ops", <<<<"$gt", Num(0)>>, <<"$lte", Num(1)>>>>>>

MCQueries == {F("status", Num(1)), F("status", Num(2))}
Tags(q) == F("info", F("tags", q))
MCChildQueries == {Tags(List(<<>>)), Tags(List(<<Num(2)>>))}

MCProbes == {
  <<"line", Tags(Op("$any", Op("$eq", Num(2))))>>,
  <<"line", Tags(Op("$all", Op("$in", <<Num(1), Num(2)>>)))>>,
  <<"line", Tags(Op("$all", Op("$ne", Num(1))))>>,
  <<"line", Tags(Op("$len", Between))>>,
  <<"line", Tags(Op("$len", Op("$or", <<Op("$eq", Num(0)), Op("$gt", Num(2))>>)))>>
}
=============================================================================
