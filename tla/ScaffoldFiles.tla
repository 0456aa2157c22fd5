---------------------------- MODULE ScaffoldFiles ---------------------------
(***************************************************************************)
(* The modules that the scaffold renders of a parsed model                  *)
(* (cli/scaffold/renderer.py with its templates) and their merge into the     *)
(* modules that are there (cli/scaffold/ast_merge.py).                       *)
(*                                                                         *)
(* A module is its imports, its classes and its __all__; a class its         *)
(* annotations, its methods each with what its body is about, and the        *)
(* parameters and attributes of its __init__.  Left out are the imports of     *)
(* the framework and the members of an enum, which the merge does not look at. *)
(***************************************************************************)
EXTENDS ScaffoldParser

Attribute(f)  == <<IF f.private THEN "_" ELSE "", f.param>>
Attributes(fields) == [i \in DOMAIN fields |-> Attribute(fields[i])]
ParamNames(fields) == [i \in DOMAIN fields |-> fields[i].param]
Setter(f)     == <<IF f.kind = "" THEN "set" ELSE "add", f.param>>
Setters(fields) == [i \in DOMAIN fields |-> [name |-> Setter(fields[i]), body |-> <<fields[i].param>>]]
Getters(fields) == [i \in DOMAIN fields |-> [name |-> <<fields[i].param>>, body |-> <<fields[i].param>>]]
Method(name, fields) == [name |-> <<name>>, body |-> ParamNames(fields)]

PyClass(name, annotations, methods, params, attrs) ==
  [name |-> name, annotations |-> annotations, methods |-> methods, params |-> params, attrs |-> attrs]
PyModule(imports, classes) == [imports |-> imports, classes |-> classes, all |-> {}]
From(package, names)       == [from |-> package, names |-> names]

Exporter(name)       == name \o <<"Exporter">>
Reconstitutor(name)  == name \o <<"Reconstitutor">>
Interface(name)      == <<"I">> \o name
ExporterFile(dir, name)      == Append(dir, name \o <<"exporter">>)
ReconstitutorFile(dir, name) == Append(dir, name \o <<"reconstitutor">>)
InitFile(dir)        == Append(dir, <<"__init__">>)
ValuesDir(dir)       == Append(dir, <<"values">>)
EventsDir(dir)       == Append(dir, <<"events">>)
DomainDir            == <<<<"domain">>>>
ApplicationDir       == <<<<"application">>>>
CommandsDir          == Append(ApplicationDir, <<"commands">>)

File(path, module)   == [path |-> path, module |-> module]
Empty                == PyModule(<<>>, <<>>)

-----------------------------------------------------------------------------
(* RenderWalker: the files of a model, in the order in which they are written.   *)

\* A relative import is one of the domain package.
ResolvedImport(vo) ==
  IF vo.import # NoImport /\ Head(vo.import) = Here THEN [vo EXCEPT !.import = DomainDir \o Tail(@)] ELSE vo
ResolveVoImports(vos) == [i \in DOMAIN vos |-> ResolvedImport(vos[i])]

\* The value objects of the fields, the first of each name.
CollectUsedVos(fields) ==
  FoldLeft(LAMBDA vos, f : IF f.type.ref = "vo" /\ ~\E i \in DOMAIN vos : vos[i].name = f.type.name
                           THEN Append(vos, f.type.vo) ELSE vos,
           <<>>, fields)
UsedVos(fields) == ResolveVoImports(CollectUsedVos(fields))

DatetimeImport(fields) ==
  IF \E i \in DOMAIN fields : fields[i].type.name = <<"datetime">> THEN <<From(<<<<"datetime">>>>, {<<"datetime">>})>> ELSE <<>>

VoImport(vo, package)  == From(IF vo.import # NoImport THEN vo.import ELSE ValuesDir(package), {vo.name})
VoExporterImport(vo, package) ==
  From(IF vo.import # NoImport THEN Append(Front(vo.import), Last(vo.import) \o <<"exporter">>) ELSE ValuesDir(package), {Exporter(vo.name)})

VoImports(vos, package, with_exporters) ==
  FlattenSeq([i \in DOMAIN vos |->
    <<VoImport(vos[i], package)>>
      \o (IF with_exporters /\ vos[i].kind = "composite" THEN <<VoExporterImport(vos[i], package)>> ELSE <<>>)])

SimpleMethods == <<Method("__init__", <<>>), Method("value", <<>>), Method("export", <<>>)>>

VoClasses(vo) ==
  CASE vo.kind = "identity" -> <<PyClass(vo.name, <<>>, <<>>, <<>>, <<>>)>>
    [] vo.kind = "enum"     -> <<PyClass(vo.name, <<>>, <<Method("export", <<>>)>>, <<>>, <<>>)>>
    [] vo.kind = "simple"   -> <<PyClass(vo.name, <<<<"_", "value">>>>, SimpleMethods, <<"value">>, <<<<"_", "value">>>>)>>
    [] vo.kind = "composite" ->
         <<PyClass(Interface(Exporter(vo.name)), <<>>,
                   [i \in DOMAIN vo.fields |-> [name |-> <<"set", vo.fields[i].param>>, body |-> <<vo.fields[i].param>>]], <<>>, <<>>),
           PyClass(vo.name, <<>>, <<Method("__init__", vo.fields), Method("export", vo.fields)>>,
                   ParamNames(vo.fields), Attributes(vo.fields))>>

\* _visit_value_object(): a composite has an exporter of its own.
VisitValueObject(vo, dir) ==
  <<File(Append(ValuesDir(dir), vo.name), PyModule(<<>>, VoClasses(vo)))>>
    \o IF vo.kind # "composite" THEN <<>>
       ELSE <<File(ExporterFile(ValuesDir(dir), vo.name),
                   PyModule(<<From(Append(ValuesDir(dir), vo.name), {Interface(Exporter(vo.name))})>>,
                            <<PyClass(Exporter(vo.name), <<>>,
                                      <<Method("__init__", <<>>)>> \o
                                        [i \in DOMAIN vo.fields |-> [name |-> <<"set", vo.fields[i].param>>, body |-> <<vo.fields[i].param>>]],
                                      <<>>, <<>>)>>))>>

ValuesNames(vo) == IF vo.kind = "composite" THEN {vo.name, Interface(Exporter(vo.name))} ELSE {vo.name}

ValuesInit(vos, dir) ==
  LET Module(vo) == IF vo.import # NoImport THEN vo.import ELSE Append(ValuesDir(dir), vo.name)
      Imports(vo) == <<From(Module(vo), ValuesNames(vo))>>
                       \o IF vo.kind = "composite" THEN <<From(Append(Front(Module(vo)), Last(Module(vo)) \o <<"exporter">>), {Exporter(vo.name)})>>
                          ELSE <<>>
  IN  File(InitFile(ValuesDir(dir)),
           [PyModule(FlattenSeq([i \in DOMAIN vos |-> Imports(vos[i])]), <<>>) EXCEPT
              !.all = UNION {ValuesNames(vos[i]) \cup (IF vos[i].kind = "composite" THEN {Exporter(vos[i].name)} ELSE {}) : i \in DOMAIN vos}])

Local(vos) == SelectSeq(vos, LAMBDA vo : vo.import = NoImport)
VisitValueObjects(vos, dir) ==
  FlattenSeq([i \in DOMAIN Local(vos) |-> VisitValueObject(Local(vos)[i], dir)])

\* The interfaces of a class that is exported and reconstituted.
InterfaceClasses(name, fields) ==
  <<PyClass(Interface(Exporter(name)), <<>>, Setters(fields), <<>>, <<>>),
    PyClass(Interface(Reconstitutor(name)), <<>>, Getters(fields), <<>>, <<>>)>>

EntityImports(entities, dir, Suffix(_)) ==
  [i \in DOMAIN entities |->
     LET e == entities[i] IN From(Append(Append(dir, e.name), e.name \o Suffix(e)[1]), {e.name \o Suffix(e)[2]})]

ExporterModule(name, fields, dir, entities) ==
  PyModule(VoImports(UsedVos(fields), dir, TRUE) \o EntityImports(entities, dir, LAMBDA e : <<<<"exporter">>, <<"Exporter">>>>)
             \o <<From(Append(dir, name), {Interface(Exporter(name))})>>,
           <<PyClass(Exporter(name), <<>>, <<Method("__init__", <<>>)>> \o Setters(fields), <<>>, <<>>)>>)

ReconstitutorModule(name, fields, dir, entities) ==
  PyModule(DatetimeImport(fields) \o VoImports(UsedVos(fields), dir, FALSE)
             \o EntityImports(entities, dir, LAMBDA e : <<<<"reconstitutor">>, <<"Reconstitutor">>>>)
             \o <<From(Append(dir, name), {Interface(Reconstitutor(name))})>>,
           <<PyClass(Reconstitutor(name), <<>>, <<Method("__init__", fields)>> \o Getters(fields), ParamNames(fields), <<>>)>>)

\* _import() and what makes the object it fills; an aggregate has its own way only if it
\* has entities to begin without.
Methods(fields, own, make_empty) ==
  <<Method("__init__", fields)>> \o own \o <<Method("export", fields), Method("_import", fields)>>
    \o (IF make_empty THEN <<Method("_make_empty", <<>>)>> ELSE <<>>) \o <<Method("reconstitute", <<>>)>>

RECURSIVE VisitEntity(_, _)
VisitEntity(entity, parent) ==
  LET dir == Append(parent, entity.name) IN
  VisitValueObjects(entity.value_objects, dir)
    \o <<ValuesInit(entity.value_objects, dir),
         File(Append(dir, entity.name),
              PyModule(DatetimeImport(entity.fields) \o VoImports(UsedVos(entity.fields), dir, FALSE),
                       InterfaceClasses(entity.name, entity.fields)
                         \o <<PyClass(entity.name, Attributes(entity.fields), Methods(entity.fields, <<>>, TRUE),
                                      ParamNames(entity.fields), Attributes(entity.fields))>>)),
         File(ExporterFile(dir, entity.name), ExporterModule(entity.name, entity.fields, dir, <<>>)),
         File(ReconstitutorFile(dir, entity.name), ReconstitutorModule(entity.name, entity.fields, dir, <<>>)),
         File(InitFile(dir), Empty)>>
    \o FlattenSeq([i \in DOMAIN entity.entities |-> VisitEntity(entity.entities[i], dir)])

\* __init__() takes no entities, and begins without them.
VisitAggregateModule(agg, dir) ==
  LET given == SelectSeq(agg.fields, LAMBDA f : f.type.ref # "entity") IN
  <<File(Append(dir, agg.name),
         PyModule(DatetimeImport(agg.fields) \o VoImports(UsedVos(agg.fields), dir, FALSE)
                    \o EntityImports(agg.entities, dir, LAMBDA e : <<<<>>, <<>>>>),
                  InterfaceClasses(agg.name, agg.fields)
                    \o <<PyClass(agg.name, Attributes(agg.fields),
                                 Methods(agg.fields, <<Method("_add_domain_event", <<>>)>>, agg.entities # <<>>),
                                 ParamNames(given), Attributes(agg.fields))>>)),
    File(ExporterFile(dir, agg.name), ExporterModule(agg.name, agg.fields, dir, agg.entities)),
    File(ReconstitutorFile(dir, agg.name), ReconstitutorModule(agg.name, agg.fields, dir, agg.entities)),
    File(InitFile(dir), Empty)>>

VisitDomainEvent(event, dir) ==
  <<File(Append(EventsDir(dir), event.name),
         PyModule(DatetimeImport(event.fields) \o VoImports(UsedVos(event.fields), dir, FALSE),
                  <<PyClass(Interface(Exporter(event.name)), <<>>, Setters(event.fields), <<>>, <<>>),
                    PyClass(event.name, Append(ParamNames(event.fields), "event_version"),
                            <<Method("export", event.fields)>>, <<>>, <<>>)>>)),
    File(ExporterFile(EventsDir(dir), event.name),
         PyModule(VoImports(UsedVos(event.fields), dir, TRUE)
                    \o <<From(Append(EventsDir(dir), event.name), {Interface(Exporter(event.name))})>>,
                  <<PyClass(Exporter(event.name), <<>>, <<Method("__init__", <<>>)>> \o Setters(event.fields), <<>>, <<>>)>>))>>

CommandFile(name) == Append(CommandsDir, name \o <<"command">>)
HandlerFile(name) == Append(CommandsDir, name \o <<"command", "handler">>)
CommandClass(name) == name \o <<"Command">>
HandlerClass(name) == name \o <<"CommandHandler">>

VisitCommand(cmd) ==
  <<File(CommandFile(cmd.name),
         PyModule(DatetimeImport(cmd.fields),
                  <<PyClass(CommandClass(cmd.name), Append(ParamNames(cmd.fields), "command_version"), <<>>, <<>>, <<>>)>>)),
    File(HandlerFile(cmd.name),
         PyModule(<<From(CommandFile(cmd.name), {CommandClass(cmd.name)})>>,
                  <<PyClass(HandlerClass(cmd.name), <<>>, <<Method("__call__", <<>>)>>, <<>>, <<>>)>>))>>

\* One directory for the commands of all aggregates.
VisitCommands(agg, model) ==
  LET all == FlattenSeq([i \in DOMAIN model |-> model[i].commands])
      Imports(cmd) == <<From(CommandFile(cmd.name), {CommandClass(cmd.name)}), From(HandlerFile(cmd.name), {HandlerClass(cmd.name)})>>
  IN  IF agg.commands = <<>> THEN <<>>
      ELSE FlattenSeq([i \in DOMAIN agg.commands |-> VisitCommand(agg.commands[i])])
             \o <<File(InitFile(CommandsDir), PyModule(FlattenSeq([i \in DOMAIN all |-> Imports(all[i])]), <<>>)),
                  File(InitFile(ApplicationDir), Empty)>>

VisitAggregate(agg, model) ==
  LET dir == Append(DomainDir, agg.name) IN
  VisitValueObjects(agg.value_objects, dir)
    \o <<ValuesInit(ResolveVoImports(agg.value_objects), dir)>>
    \o FlattenSeq([i \in DOMAIN agg.entities |-> VisitEntity(agg.entities[i], dir)])
    \o VisitAggregateModule(agg, dir)
    \o FlattenSeq([i \in DOMAIN agg.domain_events |-> VisitDomainEvent(agg.domain_events[i], dir)])
    \o <<File(InitFile(EventsDir(dir)), Empty)>>
    \o VisitCommands(agg, model)

Walk(model) == FlattenSeq([i \in DOMAIN model |-> VisitAggregate(model[i], model)])

-----------------------------------------------------------------------------
(* merge_modules(): what the generated module has and the existing one has not.  *)

ImportedNames(module) == UNION {{<<i.from, n>> : n \in i.names} : i \in ToSet(module.imports)}

\* The first import from a module takes the new names, or a new one comes last.
AddImport(module, import) ==
  LET missing == {n \in import.names : <<import.from, n>> \notin ImportedNames(module)}
      same    == {i \in DOMAIN module.imports : module.imports[i].from = import.from}
  IN  CASE missing = {} -> module
        [] missing # {} /\ same # {} -> [module EXCEPT !.imports[Min(same)].names = @ \cup missing]
        [] OTHER -> [module EXCEPT !.imports = Append(@, From(import.from, missing))]

AddMissingImports(existing, generated) == FoldLeft(AddImport, existing, generated.imports)

Missing(existing, generated) == SelectSeq(generated, LAMBDA x : ~Contains(existing, x))

MethodNames(class) == [i \in DOMAIN class.methods |-> class.methods[i].name]

\* Bug: the methods that are generated now are the right ones.
MergeClassRefreshed(existing, generated) ==
  [existing EXCEPT
     !.annotations = @ \o Missing(@, generated.annotations),
     !.methods     = SelectSeq(@, LAMBDA m : ~Contains(MethodNames(generated), m.name)) \o generated.methods,
     !.params      = @ \o Missing(@, generated.params),
     !.attrs       = @ \o Missing(@, generated.attrs)]

\* The methods that are there stay as they are, but for the parameters of __init__ and
\* what it assigns to self.
MergeClass(existing, generated) ==
  [existing EXCEPT
     !.annotations = @ \o Missing(@, generated.annotations),
     !.methods     = @ \o SelectSeq(generated.methods, LAMBDA m : ~Contains(MethodNames(existing), m.name)),
     !.params      = @ \o Missing(@, generated.params),
     !.attrs       = @ \o Missing(@, generated.attrs)]

AddDefinition(module, class) ==
  LET same == {i \in DOMAIN module.classes : module.classes[i].name = class.name}
  IN  IF same # {} THEN [module EXCEPT !.classes[CHOOSE i \in same : TRUE] = MergeClass(@, class)]
      ELSE [module EXCEPT !.classes = Append(@, class)]

AddMissingDefinitions(existing, generated) ==
  [FoldLeft(AddDefinition, existing, generated.classes) EXCEPT !.all = @ \cup generated.all]

MergeModules(existing, generated) == AddMissingDefinitions(AddMissingImports(existing, generated), generated)
=============================================================================
