------------------------------ MODULE MCOutbox ------------------------------
(***************************************************************************)
(* Instances of Outbox for TLC: which worker loops run, over which uris.    *)
(***************************************************************************)
EXTENDS OutboxRefinement, TLC

CONSTANTS t1, t2, t3, d1, d2, orders, order1, users

Args(g, f, w, n) == [group |-> g, uri |-> f, worker |-> w, workers |-> n]

\* "orders" is the filter kafka://orders: the topic and its partition keys.
MCUnder == [f \in {"orders"} |-> Uris \cap {orders, order1}]

\* Two processes run the same group over every uri.
SharedCall == d1 :> Args("broker", NoFilter, 0, 1) @@ d2 :> Args("broker", NoFilter, 0, 1)

\* run(num_processes = 2) of a filtered subscription: two worker loops, a
\* partition each.
PartitionCall ==
  d1 :> Args("broker", "orders", 0, 2) @@ d2 :> Args("broker", "orders", 1, 2)

\* hashtext() of the uris of an instance: all of them non-negative, or one not.
EvenOddHash  == [u \in Uris |-> CASE u = orders -> 6 [] u = order1 -> 3 [] u = users -> 4]
NegativeHash == [u \in Uris |-> CASE u = orders -> 6 [] u = order1 -> -3 [] u = users -> 4]

Symmetry == Permutations({t1, t2, t3}) \cup Permutations({d1, d2})
=============================================================================
