-------------------------- MODULE SpecificationUse --------------------------
(***************************************************************************)
(* Specifications in use: a template is parsed by one of the parsers and     *)
(* matched against documents, with other parameters each time; an           *)
(* expression is compiled, through a context or against a schema, and its    *)
(* clause selects rows.                                                      *)
(***************************************************************************)
EXTENDS SpecificationParsers, SpecificationSql

CONSTANTS
  Templates,    \* the templates written
  Params,       \* the parameters they are matched with
  Documents,    \* the domain objects, which are also the rows of the parent table
  Expressions,  \* the expressions compiled, each with "context" or "schema"
  Tables        \* the rows of the relational collections' tables

VARIABLES
  spec,    \* the specification in hand
  answer   \* the last answer, and what it was asked about

specificationVars == <<spec, answer>>

NoSpec   == [kind |-> "none"]
NoAnswer == [asked |-> FALSE]

Init == spec = NoSpec /\ answer = NoAnswer

Parse(parser, template) ==
  /\ Uses(template.filter) \cap Unknown(parser) = {}
  /\ spec' = [kind |-> "template", parser |-> parser, template |-> template]
  /\ answer' = NoAnswer

Match(document, params) ==
  /\ spec.kind = "template" /\ Fits(spec.template, params)
  /\ answer' = [asked |-> TRUE, document |-> document, params |-> params,
                value |-> Evaluate(Tree(spec.parser, spec.template, params), document)]
  /\ UNCHANGED spec

CompileExpression(e) ==
  /\ spec' = [kind |-> "clause", expression |-> e.expression,
              clause |-> IF e.by = "context" THEN CompileSpecification(e.expression)
                         ELSE CompileToSql(e.expression)]
  /\ answer' = NoAnswer

SelectRow(document) ==
  /\ spec.kind = "clause"
  /\ answer' = [asked |-> TRUE, document |-> document,
                value |-> Selected(spec.clause, document, Tables)]
  /\ UNCHANGED spec

Next ==
  \/ \E parser \in Parsers, template \in Templates : Parse(parser, template)
  \/ \E document \in Documents, params \in Params : Match(document, params)
  \/ \E e \in Expressions : CompileExpression(e)
  \/ \E document \in Documents : SelectRow(document)

Spec == Init /\ [][Next]_specificationVars

-----------------------------------------------------------------------------
(* Whichever parser read it and whichever parameters it was last matched with,  *)
(* a specification matches the documents its template describes.              *)
MatchesTemplate ==
  answer.asked /\ spec.kind = "template" =>
    answer.value = Boolean(TemplateSays(spec.template, answer.document, answer.params))

(* The clause an expression is compiled to selects the rows of the documents for *)
(* which the expression evaluates to true: through composite keys, embedded and *)
(* relational collections, and however the operators nest.                    *)
SelectsWhatMatches ==
  answer.asked /\ spec.kind = "clause" =>
    answer.value = Evaluate(spec.expression, answer.document) /\ answer.value # Raised
=============================================================================
