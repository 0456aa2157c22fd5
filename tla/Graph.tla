-------------------------------- MODULE Graph -------------------------------
(***************************************************************************)
(* The graph algorithms: Tarjan's strongly connected components (graph/scc.py) *)
(* and the stable topological sort (graph/graph.py).  A graph is a function   *)
(* from the nodes that have a set of successors; nodes are integers, so that  *)
(* sorted() is their order.                                                *)
(***************************************************************************)
EXTENDS Integers, Sequences, SequencesExt, FiniteSetsExt

Sorted(S) == SetToSortSeq(S, <)

Successors(graph, node) == IF node \in DOMAIN graph THEN graph[node] ELSE {}
AllNodes(graph)         == DOMAIN graph \cup UNION {graph[n] : n \in DOMAIN graph}

Least(a, b) == IF a < b THEN a ELSE b

-----------------------------------------------------------------------------
(* Tarjan's algorithm with frames instead of recursion.                        *)

TarjanState == [index |-> <<>>, lowlinks |-> <<>>, stack |-> <<>>, result |-> <<>>]

Visited(s, node) == node \in DOMAIN s.index

InitializeNode(s, node) ==
  LET counter == Cardinality(DOMAIN s.index) IN
  [s EXCEPT !.index = (node :> counter) @@ @, !.lowlinks = (node :> counter) @@ @,
            !.stack = Append(@, node)]

Lower(s, node, to) == [s EXCEPT !.lowlinks[node] = Least(@, to)]

\* The stack down to the root is a component.
ExtractScc(s, root) ==
  LET from == CHOOSE i \in DOMAIN s.stack : s.stack[i] = root
  IN  [s EXCEPT !.stack = SubSeq(@, 1, from - 1),
                !.result = Append(@, ToSet(SubSeq(s.stack, from, Len(s.stack))))]

Frame(node, i, post) == [node |-> node, at |-> i, post |-> post]

\* One turn of the loop: back from a child, then on to the next neighbour not visited.
RECURSIVE Strongconnect(_, _, _)
Strongconnect(graph, s, frames) ==
  IF frames = <<>> THEN s
  ELSE
    LET frame      == Last(frames)
        node       == frame.node
        neighbours == Sorted(Successors(graph, node))
        back       == IF frame.post THEN Lower(s, node, s.lowlinks[neighbours[frame.at]]) ELSE s
        first      == IF frame.post THEN frame.at + 1 ELSE frame.at
        unvisited  == {i \in first..Len(neighbours) : ~Visited(s, neighbours[i])}
        last       == IF unvisited = {} THEN Len(neighbours) ELSE Min(unvisited) - 1
        looked     == FoldLeft(LAMBDA t, w : IF Contains(t.stack, w) THEN Lower(t, node, t.index[w]) ELSE t,
                               back, SubSeq(neighbours, first, last))
    IN  IF unvisited # {}
        THEN LET child == neighbours[last + 1]
             IN  Strongconnect(graph, InitializeNode(looked, child),
                               Front(frames) \o <<Frame(node, last + 1, TRUE), Frame(child, 1, FALSE)>>)
        ELSE Strongconnect(graph,
                           IF looked.lowlinks[node] = looked.index[node] THEN ExtractScc(looked, node) ELSE looked,
                           Front(frames))

StronglyConnectedComponents(graph) ==
  FoldLeft(LAMBDA s, node : IF Visited(s, node) THEN s
                            ELSE Strongconnect(graph, InitializeNode(s, node), <<Frame(node, 1, FALSE)>>),
           TarjanState, Sorted(AllNodes(graph))).result

\* More than one node, or one with an edge to itself.
FindCircularSccs(graph) ==
  {scc \in ToSet(StronglyConnectedComponents(graph)) :
     Cardinality(scc) > 1 \/ \E node \in scc : node \in Successors(graph, node)}

-----------------------------------------------------------------------------
(* stable_toposort(): of the nodes that are ready, the one with the least key and *)
(* the earliest place; what a cycle leaves over comes last in that order.        *)

Before(nodes, key, m, n) ==
  LET Place(node) == CHOOSE i \in DOMAIN nodes : nodes[i] = node
  IN  key[m] < key[n] \/ (key[m] = key[n] /\ Place(m) < Place(n))

RECURSIVE TakeReady(_, _, _, _)
TakeReady(nodes, edges, key, result) ==
  LET open  == ToSet(nodes) \ ToSet(result)
      ready == {n \in open : ~\E m \in open : n \in Successors(edges, m)}
      next  == CHOOSE n \in ready : \A m \in ready \ {n} : Before(nodes, key, n, m)
  IN  IF ready = {} THEN result ELSE TakeReady(nodes, edges, key, Append(result, next))

StableToposort(nodes, edges, key) ==
  LET result == TakeReady(nodes, edges, key, <<>>)
      Left(m, n) == Before(nodes, key, m, n)
  IN  result \o SetToSortSeq(ToSet(nodes) \ ToSet(result), Left)
=============================================================================
