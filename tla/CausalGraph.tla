------------------------------ MODULE CausalGraph ------------------------------
(***************************************************************************)
(* The causal graph of one request, src/src/causal/graph.ts: recordOp and  *)
(* the end of its handle, eviction, the merge of a downstream service's    *)
(* graph, and the extraction of a subgraph when an exception is captured.  *)
(*                                                                         *)
(* Everything is synchronous, but operations overlap: the hooks start one  *)
(* when a query or request is issued and end it when the answer is there,  *)
(* in any order.  All operations of a request share its context slot, and   *)
(* an answer is taken to be seen on the async chain of its request.         *)
(* Durations, attributes and labels are left out.                          *)
(***************************************************************************)
EXTENDS Naturals, Sequences, FiniteSets, SequencesExt

CONSTANTS
  Ops,            \* the operations of the request, which name their nodes
  Foreign,        \* node ids of downstream services, with their prefix
  ForeignGraphs,  \* the graphs that may come back with an answer
  MAX_NODES,
  EVICTED_MAX,    \* MAX_NODES * 4
  MaxDepth,       \* maxDepth of extractSubgraph
  NoId            \* null; also ROOT_PARENT_KEY

Ids == Ops \cup Foreign
Kinds == {"causal", "temporal", "data-flow"}
Edge == [from : Ids, to : Ids, kind : Kinds]

ASSUME CausalGraphAssumption ==
  /\ IsFiniteSet(Ops) /\ IsFiniteSet(Foreign) /\ Ops \cap Foreign = {}
  /\ NoId \notin Ops \cup Foreign
  /\ MAX_NODES \in Nat \ {0} /\ EVICTED_MAX \in Nat /\ MaxDepth \in Nat
  /\ \A g \in ForeignGraphs : g.nodes \in Seq(Foreign) /\ g.edges \in Seq(Edge)

VARIABLES
  nodes,        \* buffer.nodes, oldest first
  edges,        \* buffer.edges
  parent,       \* buffer.parent, NoId where there is no entry
  evictedIds,
  lastSibling,  \* the latest child of each id and of the root, or NoId
  current,      \* currentNodeId of the slot
  previous,     \* previousCurrent of each handle
  dataFrom,     \* the ids that the operation's arguments came from
  open,         \* operations begun and not ended, in the order they began
  forgotten,    \* history: evicted ids that evictedIds was cleared of
  nested        \* history: operations have ended innermost first so far

vars == <<nodes, edges, parent, evictedIds, lastSibling, current, previous, dataFrom,
          open, forgotten, nested>>

Live == Range(nodes)
Begun == {o \in Ops : previous[o] # o}

TypeOK ==
  /\ nodes \in Seq(Ids) /\ Len(nodes) <= MAX_NODES
  /\ edges \in Seq(Edge)
  /\ parent \in [Ids -> Ids \cup {NoId}]
  /\ evictedIds \subseteq Ids /\ Cardinality(evictedIds) <= EVICTED_MAX
  /\ lastSibling \in [Ids \cup {NoId} -> Ids \cup {NoId}]
  /\ current \in Ops \cup {NoId}
  /\ previous \in [Ops -> Ops \cup {NoId}]
  /\ dataFrom \in [Ops -> SUBSET Ops]
  /\ open \in Seq(Ops)
  /\ forgotten \subseteq Ids
  /\ nested \in BOOLEAN

\* An operation not begun yet is its own previous.
Init ==
  /\ nodes = <<>>
  /\ edges = <<>>
  /\ parent = [i \in Ids |-> NoId]
  /\ evictedIds = {}
  /\ lastSibling = [i \in Ids \cup {NoId} |-> NoId]
  /\ current = NoId
  /\ previous = [o \in Ops |-> o]
  /\ dataFrom = [o \in Ops |-> {}]
  /\ open = <<>>
  /\ forgotten = {}
  /\ nested = TRUE

-----------------------------------------------------------------------------
(* pushNode and addEdge *)

\* The elements of s that are in S, in their order (SelectSeq over a set).
Kept(s, S) ==
  LET kept[n \in 0 .. Len(s)] ==
        IF n = 0 THEN <<>>
        ELSE IF s[n] \in S THEN Append(kept[n - 1], s[n]) ELSE kept[n - 1]
  IN  kept[Len(s)]

Overflows == Len(nodes) >= MAX_NODES
Oldest == Head(nodes)

\* evictedIds with the oldest node, and whether it is then cleared.
EvictedNow == IF Overflows THEN evictedIds \cup {Oldest} ELSE evictedIds
ClearsEvicted == Cardinality(EvictedNow) > EVICTED_MAX

\* Mutation: only the edges that enter the evicted node go.
EdgesKeptIncoming ==
  IF Overflows THEN Kept(edges, {e \in Edge : e.to # Oldest}) ELSE edges

EdgesKept ==
  IF Overflows THEN Kept(edges, {e \in Edge : Oldest \notin {e.from, e.to}}) ELSE edges

PushNode(o) ==
  /\ nodes' = IF Overflows THEN Append(Tail(nodes), o) ELSE Append(nodes, o)
  /\ evictedIds' = IF ClearsEvicted THEN {} ELSE EvictedNow
  /\ forgotten' = IF ClearsEvicted THEN forgotten \cup EvictedNow ELSE forgotten

\* The edges that addEdge lets through, given the evicted ids.
Admitted(s, evicted) ==
  Kept(s, {e \in Edge : e.from \notin evicted /\ e.to \notin evicted})

EdgeUnless(none, from, to, kind) ==
  IF none THEN <<>> ELSE <<[from |-> from, to |-> to, kind |-> kind]>>

-----------------------------------------------------------------------------
(* recordOp and end *)

RecordOp(o, from) ==
  LET sibling == lastSibling[current]
  IN  /\ o \notin Begun
      /\ PushNode(o)
      /\ edges' = EdgesKept
           \o Admitted(EdgeUnless(current = NoId, current, o, "causal")
                         \o EdgeUnless(sibling = NoId, sibling, o, "temporal"),
                       evictedIds')
      /\ parent' = [i \in Ids |-> IF i = o THEN current
                                  ELSE IF Overflows /\ i = Oldest THEN NoId
                                  ELSE parent[i]]
      /\ lastSibling' = [lastSibling EXCEPT ![current] = o]
      /\ previous' = [previous EXCEPT ![o] = current]
      /\ current' = o
      /\ dataFrom' = [dataFrom EXCEPT ![o] = from]
      /\ open' = Append(open, o)
      /\ UNCHANGED nested

\* Mutation: the end of an evicted operation returns before it restores current.
RestoreUnlessEvicted(o) ==
  current' = IF current = o /\ o \notin evictedIds THEN previous[o] ELSE current

Restore(o) == current' = IF current = o THEN previous[o] ELSE current

\* The data-flow edges of an operation that ends.
DataEdges(o) ==
  IF o \in evictedIds THEN <<>>
  ELSE Admitted(SetToSeq({[from |-> f, to |-> o, kind |-> "data-flow"] : f \in dataFrom[o]}),
                evictedIds)

\* What the end of a handle does once, to everything but the buffer.
Ends(o) ==
  /\ o \in Range(open)
  /\ Restore(o)
  /\ open' = RemoveFirst(open, o)
  /\ nested' = (nested /\ o = Last(open))
  /\ UNCHANGED <<evictedIds, lastSibling, previous, dataFrom, forgotten>>

EndOp(o) ==
  /\ Ends(o)
  /\ edges' = edges \o DataEdges(o)
  /\ UNCHANGED <<nodes, parent>>

-----------------------------------------------------------------------------
(* mergeSubgraph: a request ends with an answer that carries a graph *)

Remaining == MAX_NODES - Len(nodes)

\* Mutation: the foreign nodes are all taken while there is room for one.
IncomingAll(g) == IF Remaining = 0 THEN <<>> ELSE g.nodes

\* The latest foreign nodes that fit.
Incoming(g) ==
  SubSeq(g.nodes, IF Len(g.nodes) > Remaining THEN Len(g.nodes) - Remaining + 1 ELSE 1,
         Len(g.nodes))

IncomingEdges(g) ==
  LET accepted == Range(Incoming(g))
  IN  Kept(g.edges, {e \in Edge : e.from \in accepted /\ e.to \in accepted})

\* The incoming nodes without an incoming edge.
Roots(g) ==
  Kept(Incoming(g), {i \in Foreign : \A e \in Range(IncomingEdges(g)) : e.to # i})

\* The roots hang on the request, whose node may be evicted by now.
Stitches(o, g) ==
  [k \in DOMAIN Roots(g) |-> [from |-> o, to |-> Roots(g)[k], kind |-> "causal"]]

EndWithSubgraph(o, g) ==
  LET added == IncomingEdges(g) \o Stitches(o, g)
  IN  /\ Ends(o)
      /\ nodes' = nodes \o Incoming(g)
      /\ edges' = edges \o added \o DataEdges(o)
      /\ parent' = [i \in Ids |->
                      LET into == Kept(added, {e \in Edge : e.to = i /\ e.kind = "causal"})
                      IN  IF into = <<>> THEN parent[i] ELSE Last(into).from]

Next ==
  \/ \E o \in Ops : \E from \in {{}} \cup {{f} : f \in Begun \ Range(open)} :
       RecordOp(o, from)
  \/ \E o \in Ops : EndOp(o)
  \/ \E o \in Ops, g \in ForeignGraphs : EndWithSubgraph(o, g)

Spec == Init /\ [][Next]_vars

-----------------------------------------------------------------------------
(* extractSubgraph, with maxNodes = MAX_NODES *)

\* Where the search starts when no root is given.
Start ==
  CASE current # NoId -> current
    [] current = NoId /\ lastSibling[NoId] # NoId -> lastSibling[NoId]
    [] OTHER -> Last(nodes)

\* The ids next to id, in the order in which they are looked at: its parent, then
\* the other ends of its edges.
Neighbours(id) ==
  LET near == Kept(edges, {e \in Edge : id \in {e.from, e.to}})
  IN  (IF parent[id] = NoId THEN <<>> ELSE <<parent[id]>>)
        \o [k \in DOMAIN near |-> IF near[k].from = id THEN near[k].to ELSE near[k].from]

Include(ids, id) ==
  IF id \in Range(ids) \/ Len(ids) >= MAX_NODES THEN ids ELSE Append(ids, id)

IncludeAll(ids, s) ==
  LET taken[n \in 0 .. Len(s)] == IF n = 0 THEN ids ELSE Include(taken[n - 1], s[n])
  IN  taken[Len(s)]

\* One more level: the ids after the first "seen" are the frontier.
Deepen(search) ==
  LET frontier == SubSeq(search.ids, search.seen + 1, Len(search.ids))
      reached[n \in 0 .. Len(frontier)] ==
        IF n = 0 THEN search.ids ELSE IncludeAll(reached[n - 1], Neighbours(frontier[n]))
  IN  [ids |-> reached[Len(frontier)], seen |-> Len(search.ids)]

\* What has been reached after d levels.
Search[d \in 0 .. MaxDepth] ==
  IF d = 0 THEN [ids |-> <<Start>>, seen |-> 0] ELSE Deepen(Search[d - 1])

Included == Search[MaxDepth].ids

\* Mutation: the search goes one level less deep.
ExtractedShallow == Range(Search[MaxDepth - 1].ids) \cap Live

Extracted == Range(Included) \cap Live

-----------------------------------------------------------------------------
(* Properties *)

\* As long as operations end innermost first, the current node is the innermost
\* open operation, evicted or not (graph.ts:252-255).
CurrentIsInnermost ==
  nested => current = IF open = <<>> THEN NoId ELSE Last(open)

\* An edge refers to nodes of the buffer, unless an end of it was evicted so long
\* ago that evictedIds was cleared of it, or it stitches a downstream graph to a
\* request that was evicted before its answer came (graph.ts:503-523, 432).
DanglingExplained ==
  \A e \in Range(edges) :
    \/ {e.from, e.to} \subseteq Live
    \/ {e.from, e.to} \cap forgotten # {}
    \/ e.from \in evictedIds /\ e.to \in Foreign

\* The parents of the current node that are in the buffer, up to MaxDepth and to
\* the first that is not.
Ancestor[d \in 0 .. MaxDepth] ==
  IF d = 0 THEN Start
  ELSE LET up == parent[Ancestor[d - 1]] IN IF up \in Live THEN up ELSE Ancestor[d - 1]

Chain == IF Start \in Live THEN {Ancestor[d] : d \in 0 .. MaxDepth} ELSE {}

\* An exception gets the chain of operations that led to it, whatever its
\* neighbours, unless maxNodes ids were found and one of them is no longer in the
\* buffer: such an id counts though no node comes of it (graph.ts:309-343).
ChainExtracted ==
  nodes # <<>> => \/ Chain \subseteq Extracted
                  \/ Len(Included) = MAX_NODES /\ ~(Range(Included) \subseteq Live)

\* "BFS from rootId (or the current node) up the parent chain to depth maxDepth,
\* also pulling in adjacent siblings/children up to maxNodes" (graph.ts:285-286).
WholeChainExtracted == nodes # <<>> => Chain \subseteq Extracted

=============================================================================
