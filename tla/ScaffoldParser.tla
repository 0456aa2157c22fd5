--------------------------- MODULE ScaffoldParser ---------------------------
(***************************************************************************)
(* The domain model of a bounded context, as it is read from its YAML        *)
(* (cli/scaffold/parser.py, model.py, naming.py).  A name is the sequence of  *)
(* its words, which a class name and its snake name share; a package is a    *)
(* sequence of names, and begins with Here if it is relative.  The YAML is   *)
(* given with its lists in order and with the unknown keys it has.           *)
(***************************************************************************)
EXTENDS Integers, Sequences, SequencesExt, FiniteSetsExt

Here == <<"">>
NoImport == <<>>

PrimitiveTypes == {<<"bool">>, <<"int">>, <<"str">>, <<"float">>, <<"datetime">>, <<"Decimal">>}

\* A type as it is written: its collection, the package of a dotted reference, its name.
TypeStr(name)           == [kind |-> "", package |-> NoImport, name |-> name]
Dotted(package, name)   == [kind |-> "", package |-> package, name |-> name]
Collection(kind, type)  == [type EXCEPT !.kind = kind]

PrimitiveType(name) == [ref |-> "primitive", name |-> name, primitive |-> name]
VoRef(vo)           == [ref |-> "vo", name |-> vo.name, primitive |-> vo.primitive, vo |-> vo]
EntityRef(entity)   == [ref |-> "entity", name |-> entity.name, primitive |-> <<"dict">>]

-----------------------------------------------------------------------------
(* _resolve_type(): the maps of the scope are read and, by a dotted reference,   *)
(* written.                                                                   *)

ImportPath(package, name) == IF package = NoImport THEN NoImport ELSE Append(package, name)

\* The name is imported from here on, whether it is declared or made up.
ResolveImportRef(scope, type) ==
  LET vo == IF type.name \in DOMAIN scope.vos THEN scope.vos[type.name]
            ELSE [name |-> type.name, kind |-> "simple", primitive |-> <<"str">>, fields |-> <<>>, import |-> NoImport]
      imported == [vo EXCEPT !.import = ImportPath(type.package, type.name)]
  IN  [scope EXCEPT !.vos = (type.name :> imported) @@ @]

ScopeAfter(scope, type) == IF type.package = NoImport THEN scope ELSE ResolveImportRef(scope, type)

\* An unknown type is taken for a primitive one.
ResolveElementType(scope, type) ==
  CASE type.package = NoImport /\ type.name \in PrimitiveTypes -> PrimitiveType(type.name)
    [] type.name \in DOMAIN scope.entities -> EntityRef(scope.entities[type.name])
    [] type.name \in DOMAIN scope.vos -> VoRef(scope.vos[type.name])
    [] OTHER -> PrimitiveType(type.name)

\* Each field is resolved in the scope the fields before it left.
ParseFields(scope, raws) ==
  FoldLeft(LAMBDA done, raw :
             LET after == ScopeAfter(done.scope, raw.type)
                 field == [param |-> raw.param, private |-> raw.private, kind |-> raw.type.kind,
                           type |-> ResolveElementType(after, raw.type)]
             IN  [scope |-> after, fields |-> Append(done.fields, field)],
           [scope |-> scope, fields |-> <<>>], raws)

-----------------------------------------------------------------------------
ClassifyVo(raw) ==
  CASE raw.identity -> "identity"
    [] ~raw.identity /\ raw.enum -> "enum"
    [] ~raw.identity /\ ~raw.enum /\ raw.fields # <<>> -> "composite"
    [] OTHER -> "simple"

PrimitiveOf(raw) ==
  CASE ClassifyVo(raw) = "identity" -> raw.base
    [] ClassifyVo(raw) = "composite" -> <<"dict">>
    [] ClassifyVo(raw) = "simple" /\ raw.base \in PrimitiveTypes -> raw.base
    [] OTHER -> <<"str">>

\* The fields of a composite are resolved in a copy of the scope.
ParseValueObject(scope, raw) ==
  [name |-> raw.name, kind |-> ClassifyVo(raw), primitive |-> PrimitiveOf(raw),
   import |-> ImportPath(raw.import, raw.name),
   fields |-> IF ClassifyVo(raw) = "composite" THEN ParseFields(scope, raw.fields).fields ELSE <<>>]

AddVo(done, vo) ==
  [scope |-> [done.scope EXCEPT !.vos = (vo.name :> vo) @@ @], vos |-> Append(done.vos, vo)]

ParseValueObjects(scope, raws) ==
  FoldLeft(LAMBDA done, raw : AddVo(done, ParseValueObject(done.scope, raw)),
           [scope |-> scope, vos |-> <<>>], raws)

IsComposite(raw) == ClassifyVo(raw) = "composite"
Composites(raws) == SelectSeq(raws, IsComposite)
NamesIn(raws)    == {raws[i].name : i \in DOMAIN raws}

\* The composites that the fields of this one name.
Needs(raw, composites) ==
  {raw.fields[i].type.name : i \in {j \in DOMAIN raw.fields : raw.fields[j].type.package = NoImport}}
    \cap NamesIn(composites)

\* Kahn's algorithm; what it returns is shorter than composites if they are circular.
RECURSIVE SortedComposites(_, _, _)
SortedComposites(composites, queue, result) ==
  LET done == Append(result, Head(queue))
      Freed(raw) == Head(queue).name \in Needs(raw, composites) /\ Needs(raw, composites) \subseteq NamesIn(done)
  IN  IF queue = <<>> THEN result
      ELSE SortedComposites(composites, Tail(queue) \o SelectSeq(composites, Freed), done)

TopoSortComposites(raws) ==
  LET composites == Composites(raws)
  IN  SortedComposites(composites, SelectSeq(composites, LAMBDA raw : Needs(raw, composites) = {}), <<>>)

TwoPasses(raws) == SelectSeq(raws, LAMBDA raw : ~IsComposite(raw)) \o TopoSortComposites(raws)

\* The parts of an aggregate or an entity, one after the other: each sees the scope that the
\* ones before it leave.
RECURSIVE ParseEntities(_, _)
AndFields(part, raws)   == ParseFields(part.scope, raws) @@ part
AndEntities(part, raws) == ParseEntities(part.scope, raws) @@ part

Entity(name, part) ==
  [name |-> name, fields |-> part.fields, value_objects |-> part.vos, entities |-> part.entities]

\* The entities of an entity are parsed after its fields.
ParseEntity(scope, raw) ==
  Entity(raw.name,
         AndEntities(AndFields(ParseValueObjects([vos |-> scope.vos, entities |-> <<>>], raw.value_objects),
                               raw.fields),
                     raw.entities))

AddEntity(done, entity) ==
  [scope |-> [done.scope EXCEPT !.entities = (entity.name :> entity) @@ @],
   entities |-> Append(done.entities, entity)]

ParseEntities(scope, raws) ==
  FoldLeft(LAMBDA done, raw : AddEntity(done, ParseEntity(done.scope, raw)),
           [scope |-> scope, entities |-> <<>>], raws)

AddEvent(done, name, parsed) ==
  [scope |-> parsed.scope, events |-> Append(done.events, [name |-> name, fields |-> parsed.fields])]

ParseDomainEvents(scope, raws) ==
  FoldLeft(LAMBDA done, raw : AddEvent(done, raw.name, ParseFields(done.scope, raw.fields)),
           [scope |-> scope, events |-> <<>>], raws)

AndEvents(part, raws) == ParseDomainEvents(part.scope, raws) @@ part

\* CreateOrder from OrderCreated; the fields take their primitive types.
Verbs == [Created |-> "Create", Updated |-> "Update", Deleted |-> "Delete"]

CommandName(name) == IF Last(name) \in DOMAIN Verbs THEN <<Verbs[Last(name)]>> \o Front(name) ELSE name

DeriveCommands(events) ==
  [i \in DOMAIN events |->
     [name |-> CommandName(events[i].name),
      fields |-> [j \in DOMAIN events[i].fields |->
                    LET f == events[i].fields[j]
                    IN  [f EXCEPT !.private = FALSE, !.type = PrimitiveType(f.type.primitive)]]]]

AggregateOf(name, part) ==
  [name |-> name, fields |-> part.fields, value_objects |-> part.vos, entities |-> part.entities,
   domain_events |-> part.events, commands |-> DeriveCommands(part.events)]

ParseAggregate(raw) ==
  LET vos == ParseValueObjects([vos |-> <<>>, entities |-> <<>>], TwoPasses(raw.value_objects))
  IN  AggregateOf(raw.name,
                  AndEvents(AndFields(AndEntities(vos, raw.entities), raw.fields), raw.domain_events))

-----------------------------------------------------------------------------
(* Nothing is rendered unless all of the model is accepted: the keys are known and *)
(* no composites need each other.                                             *)

AllKnown(raws) == \A i \in DOMAIN raws : raws[i].unknown = {}

RECURSIVE AcceptsEntity(_)
AcceptsEntity(raw) ==
  raw.unknown = {} /\ AllKnown(raw.value_objects) /\ \A i \in DOMAIN raw.entities : AcceptsEntity(raw.entities[i])

Accepts(yaml) ==
  /\ yaml.unknown = {} /\ AllKnown(yaml.external_references)
  /\ \A i \in DOMAIN yaml.aggregates :
       LET raw == yaml.aggregates[i] IN
       /\ raw.unknown = {} /\ AllKnown(raw.value_objects)
       /\ Len(TopoSortComposites(raw.value_objects)) = Len(Composites(raw.value_objects))
       /\ \A j \in DOMAIN raw.entities : AcceptsEntity(raw.entities[j])

Parse(yaml) == [i \in DOMAIN yaml.aggregates |-> ParseAggregate(yaml.aggregates[i])]
=============================================================================
