------------------------------ MODULE Scaffold ------------------------------
(***************************************************************************)
(* The scaffold in use: the domain model is edited, the modules are rendered *)
(* over what is there or merged into it, as often as wanted, and a developer *)
(* writes in them in between.                                              *)
(***************************************************************************)
EXTENDS ScaffoldFiles

CONSTANTS
  Models,    \* the domain models the YAML file may hold
  Edited,    \* the classes the developer writes in
  MaxEdits,  \* how often the developer does (a bound of the model)
  MaxModels, \* how often the YAML file is changed (a bound of the model)
  MaxStops   \* how often a run is stopped before its end (a bound of the model)

VARIABLES
  plan,   \* the files that the domain model, as it is now, asks for
  files,  \* path -> module
  run,    \* the last run of the scaffold, until the next edit
  edits   \* how often the developer, the YAML file and a run's end came in between

scaffoldVars == <<plan, files, run, edits>>

NoRun == [done |-> 0, merge |-> FALSE, torn |-> FALSE]

\* A model that is not accepted asks for nothing: no file is touched.
Plan(yaml) == IF Accepts(yaml) THEN Walk(Parse(yaml)) ELSE <<>>

EditModel(yaml) ==
  /\ edits.models < MaxModels
  /\ plan' = Plan(yaml) /\ run' = NoRun
  /\ edits' = [edits EXCEPT !.models = @ + 1]
  /\ UNCHANGED files

-----------------------------------------------------------------------------
(* _render_template(): a file that is there is merged into if merge is asked for. *)

Rendered(there, merge, file) ==
  IF merge /\ file.path \in DOMAIN there THEN MergeModules(there[file.path], file.module) ELSE file.module

Write(there, merge, file) == (file.path :> Rendered(there, merge, file)) @@ there

\* open() for writing leaves nothing of what was there, before write() puts the text in.
Open(there, file) == (file.path :> Empty) @@ there

\* scaffold() and ast_scaffold(), which may be stopped when n of the files are written, and
\* the next one perhaps opened.
RunScaffold(merge, n, torn) ==
  /\ n + (IF torn THEN 1 ELSE 0) \in 1..Len(plan)
  /\ n < Len(plan) => edits.stops < MaxStops
  /\ LET written == FoldLeft(LAMBDA there, file : Write(there, merge, file), files, SubSeq(plan, 1, n))
     IN files' = IF torn THEN Open(written, plan[n + 1]) ELSE written
  /\ run' = [done |-> n, merge |-> merge, torn |-> torn]
  /\ edits' = IF n < Len(plan) THEN [edits EXCEPT !.stops = @ + 1] ELSE edits
  /\ UNCHANGED plan

-----------------------------------------------------------------------------
(* The developer.                                                             *)

EditClass(path, i, class) ==
  /\ edits.classes < MaxEdits /\ files[path].classes[i].name \in Edited
  /\ files' = [files EXCEPT ![path].classes[i] = class]
  /\ run' = NoRun /\ edits' = [edits EXCEPT !.classes = @ + 1]
  /\ UNCHANGED plan

AddMethod(path, i) ==
  EditClass(path, i, [files[path].classes[i] EXCEPT !.methods = Append(@, [name |-> <<"custom">>, body |-> <<"user">>])])

RewriteMethod(path, i, j) ==
  EditClass(path, i, [files[path].classes[i] EXCEPT !.methods[j].body = <<"user">>])

AddParam(path, i) ==
  EditClass(path, i, [files[path].classes[i] EXCEPT !.params = Append(@, "clock"), !.attrs = Append(@, <<"_", "clock">>)])

RemoveClass(path, i) ==
  /\ edits.classes < MaxEdits /\ files[path].classes[i].name \in Edited
  /\ files' = [files EXCEPT ![path].classes = RemoveAt(@, i)]
  /\ run' = NoRun /\ edits' = [edits EXCEPT !.classes = @ + 1]
  /\ UNCHANGED plan

Init ==
  /\ \E yaml \in Models : plan = Plan(yaml)
  /\ files = <<>> /\ run = NoRun
  /\ edits = [models |-> 0, classes |-> 0, stops |-> 0]

Next ==
  \/ \E yaml \in Models : EditModel(yaml)
  \/ \E merge, torn \in BOOLEAN : \E n \in 0..Len(plan) : RunScaffold(merge, n, torn)
  \/ \E path \in DOMAIN files : \E i \in DOMAIN files[path].classes :
       \/ AddMethod(path, i) \/ AddParam(path, i) \/ RemoveClass(path, i)
       \/ \E j \in DOMAIN files[path].classes[i].methods : RewriteMethod(path, i, j)

Spec == Init /\ [][Next]_scaffoldVars

-----------------------------------------------------------------------------
\* What was there is there, in its order; a class may have lost nothing.
KeepsClass(old, new) ==
  /\ IsPrefix(old.annotations, new.annotations) /\ IsPrefix(old.methods, new.methods)
  /\ IsPrefix(old.params, new.params) /\ IsPrefix(old.attrs, new.attrs)

Keeps(old, new) ==
  /\ Len(old.imports) <= Len(new.imports)
  /\ \A i \in DOMAIN old.imports : /\ old.imports[i].from = new.imports[i].from
                                   /\ old.imports[i].names \subseteq new.imports[i].names
  /\ Len(old.classes) <= Len(new.classes)
  /\ \A i \in DOMAIN old.classes : KeepsClass(old.classes[i], new.classes[i])
  /\ old.all \subseteq new.all

ClassIn(module, name) == module.classes[CHOOSE i \in DOMAIN module.classes : module.classes[i].name = name]
HasClass(module, name) == \E i \in DOMAIN module.classes : module.classes[i].name = name

Has(module, generated) ==
  /\ ImportedNames(generated) \subseteq ImportedNames(module) /\ generated.all \subseteq module.all
  /\ \A class \in ToSet(generated.classes) :
       /\ HasClass(module, class.name)
       /\ LET there == ClassIn(module, class.name) IN
          /\ ToSet(class.annotations) \subseteq ToSet(there.annotations)
          /\ ToSet(MethodNames(class)) \subseteq ToSet(MethodNames(there))
          /\ ToSet(class.params) \subseteq ToSet(there.params) /\ ToSet(class.attrs) \subseteq ToSet(there.attrs)

\* A name imported from the packages that are generated is a class there.
RECURSIVE Defined(_, _, _)
Defined(there, package, name) ==
  \/ package[1] \notin {<<"domain">>, <<"application">>}
  \/ package \in DOMAIN there /\ HasClass(there[package], name)
  \/ /\ InitFile(package) \in DOMAIN there
     /\ \E import \in ToSet(there[InitFile(package)].imports) :
          name \in import.names /\ Defined(there, import.from, name)

Complete == run.done # 0 /\ run.done = Len(plan)

(* However often the domain model and the modules were changed before, and wherever a  *)
(* run was stopped: a merge loses nothing of what was there, but for the one module that *)
(* it had open when it was stopped; and a run that ended leaves all that the domain     *)
(* model asks for, with all that it imports.                                           *)
RegenerationAdds ==
  [][/\ run' # run /\ run'.merge =>
          \A path \in DOMAIN files :
            Keeps(files[path], files'[path]) \/ (run'.torn /\ path = plan[run'.done + 1].path)
     /\ Complete' => \A file \in ToSet(plan') :
          /\ Has(files'[file.path], file.module)
          /\ \A pair \in ImportedNames(file.module) : Defined(files', pair[1], pair[2])]_scaffoldVars
=============================================================================
