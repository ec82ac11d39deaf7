---------------------------- MODULE MCCausalGraph ----------------------------
(* A small instance of CausalGraph: six operations in a buffer of three, and *)
(* one downstream graph, a node with a child.                                 *)
EXTENDS CausalGraph

CONSTANTS o1, o2, o3, o4, o5, o6, x, y

MCOps == {o1, o2, o3, o4, o5, o6}
MCForeign == {x, y}
MCForeignGraphs ==
  {[nodes |-> <<x, y>>, edges |-> <<[from |-> x, to |-> y, kind |-> "causal"]>>]}
Symmetry == Permutations(MCOps)

=============================================================================
