----------------------------- MODULE MCGossipMesh -----------------------------
(* A small instance of GossipMesh with two processes.                         *)
EXTENDS GossipMesh

CONSTANTS p1, p2, k1, k2, k3, a, b, x

MCProcs == {p1, p2}
MCKeys == {k1, k2, k3}
MCPeers == {a, b}
MCIdOf == [k \in MCKeys |-> IF k = k2 THEN b ELSE a]
MCTopics == {x}
\* Two peers, or one peer id with two keys.
MCKeyChoices == {[p \in MCProcs |-> IF p = p1 THEN k1 ELSE k] : k \in {k2, k3}}

=============================================================================
