------------------------------- MODULE MCChange -----------------------------
(***************************************************************************)
(* The change managers for TLC: notifications compared with the algorithms of *)
(* Graph, on the graph of what is affected.                                *)
(***************************************************************************)
EXTENDS ChangeGraph

G == INSTANCE Graph

OneType == [s \in {2} |-> "x"]

AffectedGraph ==
  [n \in ToSet(affected) |-> {o \in ToSet(affected) : n \in Before(o)}]

RECURSIVE DownFrom(_, _)
DownFrom(graph, S) ==
  LET more == S \cup UNION {G!Successors(graph, n) : n \in S}
  IN  IF more = S THEN S ELSE DownFrom(graph, more)

(* A notification leaves out the observers of a cycle and what is below it, which are   *)
(* what scc.py finds circular, and no others.  stable_toposort() agrees: its order of   *)
(* the affected begins with the same observers.                                     *)
LeavesOutCycles ==
  phase = "updating" =>
    LET graph    == AffectedGraph
        circular == DownFrom(graph, UNION G!FindCircularSccs(graph))
        stable   == G!StableToposort(affected, graph, [n \in DOMAIN graph |-> 0])
    IN  /\ ToSet(sorted) = DOMAIN graph \ circular
        /\ ToSet(SubSeq(stable, 1, Len(sorted))) = ToSet(sorted)
=============================================================================
