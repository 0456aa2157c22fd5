------------------------------ MODULE MCLibrary -----------------------------
(***************************************************************************)
(* The in-process components, which share no state, each in a part of its    *)
(* own: a behaviour is one of one part, and the others stand still.          *)
(***************************************************************************)
EXTENDS Session, Batch

VARIABLES
  part,  \* which part this behaviour is about
  spec, answer,
  plan, files, run, edits,
  criteria, input, output, transient, pool, attached, wanted, count, defined, db, roundFailed,
  required, requiredChild

\* A REST delegate between two databases: one that cannot roll back has one before and one
\* after it.  The first database has the rows.
RestBetween == <<"pg", "rest", "pg">>
OnFirst     == [a |-> 1, b |-> 1]

BatchQueries == [auto |-> "autoincrement", plain |-> "insert", select |-> "other"]

\* The cases of MCSpecification, whose own parameters they do not need.
Cases == INSTANCE MCSpecification WITH Templates <- {}, Params <- {}, Documents <- {}, Expressions <- {},
           Tables <- <<>>, Columns <- <<>>, Schema <- <<>>, ParentRef <- "s"
Specifications == INSTANCE SpecificationUse WITH
           Templates <- Cases!DocumentedTemplates, Params <- Cases!MCParams, Documents <- Cases!MCDocuments,
           Expressions <- Cases!MCExpressions, Tables <- Cases!MCTables, Columns <- Cases!MCColumns,
           Schema <- Cases!MCSchema, ParentRef <- "s"

Domain    == INSTANCE MCScaffold
Scaffolds == INSTANCE Scaffold WITH Models <- Domain!MCModels, Edited <- Domain!MCEdited,
               MaxEdits <- 1, MaxModels <- 2, MaxStops <- 1

\* Two networks of the faker: references between aggregates, and dependent children.
NoNode == "none"
Network  == INSTANCE MCFaker WITH Node <- {}, Kind <- <<>>, Child <- <<>>, Target <- <<>>, IdAttr <- <<>>
Orders   == INSTANCE Faker WITH
              Node <- Network!MCNode, Kind <- Network!MCKind, Child <- Network!MCChild, Target <- Network!MCTarget,
              IdAttr <- Network!MCIdAttr, Root <- "order", Attrs <- Network!MCAttrs, Generated <- Network!MCGenerated,
              Nullable <- {"o.payer"}, Dependent <- Network!MCDependent, ParentField <- <<>>, Queries <- Network!MCQueries,
              ChildQueries <- {}, Probes <- Network!MCProbes, Lazy <- {"c.tenant"}, MaxAsks <- 2,
              MaxRows <- Network!MCMaxRows, failed <- roundFailed
Children == INSTANCE MCFakerChildren WITH Node <- {}, Kind <- <<>>, Child <- <<>>, Target <- <<>>, IdAttr <- <<>>
Lines    == INSTANCE Faker WITH
              Node <- Children!MCNode, Kind <- Children!MCKind, Child <- Children!MCChild, Target <- <<>>,
              IdAttr <- Children!MCIdAttr, Root <- "order", Attrs <- Children!MCAttrs, Generated <- Children!MCGenerated,
              Nullable <- {}, Dependent <- Children!MCDependent, ParentField <- Children!MCParentField,
              Queries <- Children!MCQueries, ChildQueries <- Children!MCChildQueries, Probes <- Children!MCProbes,
              Lazy <- {}, MaxAsks <- 2, MaxRows <- Children!MCMaxRows, failed <- roundFailed

specificationVars == <<spec, answer>>
scaffoldVars      == <<plan, files, run, edits>>
fakerVars         == <<criteria, input, output, transient, pool, attached, wanted, count, defined, db, roundFailed,
                       required, requiredChild>>
NoFaker ==
  /\ criteria = <<>> /\ input = <<>> /\ output = <<>> /\ transient = <<>> /\ pool = <<>> /\ attached = <<>>
  /\ wanted = <<>> /\ count = <<>> /\ defined = <<>> /\ db = <<>> /\ roundFailed = FALSE
  /\ required = {} /\ requiredChild = <<>>

LibraryInit ==
  /\ part \in {"session", "batch", "specification", "scaffold", "orders", "lines"}
  /\ Init /\ BatchInit /\ Specifications!Init
  /\ IF part = "scaffold" THEN Scaffolds!Init ELSE plan = <<>> /\ files = <<>> /\ run = Scaffolds!NoRun /\ edits = <<>>
  /\ CASE part = "orders" -> Orders!Init [] part = "lines" -> Lines!Init [] OTHER -> NoFaker

LibraryNext ==
  /\ UNCHANGED part
  /\ \/ part = "session" /\ Next /\ UNCHANGED <<batchVars, specificationVars, scaffoldVars, fakerVars>>
     \/ part = "batch" /\ BatchNext /\ UNCHANGED <<sessionVars, specificationVars, scaffoldVars, fakerVars>>
     \/ part = "specification" /\ Specifications!Next /\ UNCHANGED <<sessionVars, batchVars, scaffoldVars, fakerVars>>
     \/ part = "scaffold" /\ Scaffolds!Next /\ UNCHANGED <<sessionVars, batchVars, specificationVars, fakerVars>>
     \/ part = "orders" /\ Orders!Next /\ UNCHANGED <<sessionVars, batchVars, specificationVars, scaffoldVars>>
     \/ part = "lines" /\ Lines!Next /\ UNCHANGED <<sessionVars, batchVars, specificationVars, scaffoldVars>>

LibrarySpec == LibraryInit /\ [][LibraryNext]_<<part, sessionVars, batchVars, specificationVars, scaffoldVars, fakerVars>>

(* The parsers of specifications: a template means the same to each of them.           *)
MatchesTemplate == Specifications!MatchesTemplate

(* The compiler of specifications: a clause selects what the expression is true of.     *)
SelectsWhatMatches == Specifications!SelectsWhatMatches

(* The scaffold: a merge loses nothing, and a run that ended leaves all that is asked for. *)
RegenerationAdds == Scaffolds!RegenerationAdds

(* The faker: what was required in a round holds of what comes out of it.               *)
Satisfied == (part = "orders" => Orders!Satisfied) /\ (part = "lines" => Lines!Satisfied)

(* No reference dangles, and no child is without what it depends on.                    *)
ReferencesExist == (part = "orders" => Orders!ReferencesExist) /\ (part = "lines" => Lines!ReferencesExist)

(* Criteria survive the way through dicts.                                              *)
RoundTrips == (part = "orders" => Orders!RoundTrips) /\ (part = "lines" => Lines!RoundTrips)

(* A query finds the same rows in PostgreSQL and in memory.                             *)
SqlAgrees == (part = "orders" => Orders!SqlAgrees) /\ (part = "lines" => Lines!SqlAgrees)

(* A round creates an aggregate once, on however many paths it is reached.               *)
CreatedOnce == Orders!CreatedOnce
=============================================================================
