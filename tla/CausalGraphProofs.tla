--------------------------- MODULE CausalGraphProofs ---------------------------
(***************************************************************************)
(* Proofs about CausalGraph, for every number of operations, every cap and *)
(* every graph that a downstream service answers with.                     *)
(***************************************************************************)
EXTENDS CausalGraph, SequenceLemmas

-----------------------------------------------------------------------------
(* What Kept computes *)

\* f lists what Kept has kept after each index.
KeepsInto(f, s, S) ==
  /\ f[0] = <<>>
  /\ \A n \in 1 .. Len(s) : f[n] = IF s[n] \in S THEN Append(f[n - 1], s[n]) ELSE f[n - 1]
  /\ Kept(s, S) = f[Len(s)]

\* The recursive definition of Kept defines a function.
LEMMA KeptDefined ==
  ASSUME NEW T, NEW s \in Seq(T), NEW S
  PROVE  \E f \in [0 .. Len(s) -> Seq(T)] : KeepsInto(f, s, S)
<1> DEFINE N == Len(s)
           g(f, n) == IF s[n] \in S THEN Append(f[n - 1], s[n]) ELSE f[n - 1]
           one(n, a) == IF s[n] \in S THEN Append(a, s[n]) ELSE a
           step == [n \in 1 .. N |-> [a \in Seq(T) |-> one(n, a)]]
<1>1. N \in Nat /\ \A n \in 1 .. N : s[n] \in T
  BY LenProperties, ElementOfSeq
<1>2. step \in [1 .. N -> [Seq(T) -> Seq(T)]]
  BY <1>1, AppendProperties
<1>3. <<>> \in Seq(T)
  BY EmptySeq
<1>4. \A n \in 1 .. N : \A a \in Seq(T) : step[n][a] = one(n, a)
  OBVIOUS
<1> DEFINE A == Seq(T)
           base == <<>>
<1> HIDE DEF step
<1>5. \E f : Iterates(f, N, A, base, step)
  <2>1. N \in Nat
    BY <1>1
  <2>2. step \in StepFunctions(N, A)
    BY <1>2 DEF StepFunctions
  <2>3. base \in A
    BY <1>3
  <2> HIDE DEF N, A, base
  <2> QED
    BY <2>1, <2>2, <2>3, Iterated
<1>6. PICK f \in [0 .. N -> A] : f[0] = base /\ \A n \in 1 .. N : f[n] = step[n][f[n - 1]]
  BY <1>5, Zenon DEF Iterates
<1>7. ASSUME NEW n \in 1 .. N
      PROVE  f[n] = g(f, n)
  <2>1. n - 1 \in 0 .. N
    BY <1>1
  <2> QED
    BY <1>4, <1>6, <2>1
<1> DEFINE R(k) == [n \in 0 .. Len(s) |->
                      IF n = 0 THEN <<>>
                      ELSE IF s[n] \in S THEN Append(k[n - 1], s[n]) ELSE k[n - 1]]
           c == CHOOSE k : k = R(k)
<1>8. f = R(f)
  <2> DEFINE r == R(f)
  <2>1. ASSUME NEW n \in 0 .. N
        PROVE  f[n] = r[n]
    <3>1. r[n] = IF n = 0 THEN <<>>
                 ELSE IF s[n] \in S THEN Append(f[n - 1], s[n]) ELSE f[n - 1]
      OBVIOUS
    <3> HIDE DEF r
    <3>2. CASE n = 0
      BY <1>6, <1>7, <3>1, <3>2
    <3>3. CASE n # 0
      <4>1. n \in 1 .. N
        BY <1>1, <3>3
      <4>2. f[n] = IF s[n] \in S THEN Append(f[n - 1], s[n]) ELSE f[n - 1]
        BY <1>6, <1>7, <4>1
      <4> QED
        BY <3>1, <3>3, <4>2
    <3> QED
      BY <3>2, <3>3
  <2>2. r = [n \in 0 .. N |-> r[n]]
    OBVIOUS
  <2>3. f = [n \in 0 .. N |-> f[n]]
    BY <1>6, <1>7
  <2> HIDE DEF r
  <2>4. f = r
    BY <2>1, <2>2, <2>3
  <2> QED
    BY <2>4 DEF r
<1>9. c = R(c)
  BY <1>8
<1>10. Kept(s, S) = c[Len(s)]
  BY DEF Kept
<1> HIDE DEF c
<1>11. \A n \in 0 .. N : c[n] = f[n]
  <2> DEFINE J == {n \in 0 .. N : c[n] = f[n]}
  <2>1. 0 \in J
    BY <1>1, <1>6, <1>7, <1>9
  <2>2. ASSUME NEW m \in 0 .. N - 1, m \in J
        PROVE  m + 1 \in J
    <3>1. m + 1 \in 1 .. N /\ (m + 1) - 1 = m /\ m + 1 \in 0 .. N /\ m + 1 # 0
      BY <1>1
    <3>2. c[m + 1] = IF s[m + 1] \in S THEN Append(c[m], s[m + 1]) ELSE c[m]
      BY <1>9, <3>1
    <3>3. f[m + 1] = IF s[m + 1] \in S THEN Append(f[m], s[m + 1]) ELSE f[m]
      BY <1>6, <1>7, <3>1
    <3> QED
      BY <2>2, <3>1, <3>2, <3>3
  <2> HIDE DEF N
  <2>3. 0 .. N \subseteq J
    <3> HIDE DEF J
    <3> QED
      BY <1>1, <2>1, <2>2, IndexInduction
  <2> QED
    BY <2>3
<1> QED
  BY <1>1, <1>6, <1>7, <1>10, <1>11 DEF KeepsInto

\* Kept leaves the elements of the sequence that are in the set.
LEMMA KeptEffect ==
  ASSUME NEW T, NEW s \in Seq(T), NEW S
  PROVE  Kept(s, S) \in Seq(T) /\ Range(Kept(s, S)) = Range(s) \cap S
<1> DEFINE N == Len(s)
<1>0. PICK f \in [0 .. Len(s) -> Seq(T)] : KeepsInto(f, s, S)
  BY KeptDefined, Zenon
<1>1. /\ f \in [0 .. N -> Seq(T)] /\ f[0] = <<>>
      /\ \A n \in 1 .. N : f[n] = IF s[n] \in S THEN Append(f[n - 1], s[n]) ELSE f[n - 1]
      /\ Kept(s, S) = f[N]
  BY <1>0 DEF KeepsInto
<1>2. N \in Nat /\ DOMAIN s = 1 .. N /\ \A n \in 1 .. N : s[n] \in T
  BY LenProperties, ElementOfSeq
<1> HIDE DEF N
<1> DEFINE upto(n) == {s[i] : i \in 1 .. n}
           I == {n \in 0 .. N : Range(f[n]) = upto(n) \cap S}
<1>3. 0 \in I
  <2>1. Range(<<>>) = {} /\ upto(0) = {}
    BY EmptySeq DEF Range
  <2> QED
    BY <1>1, <1>2, <2>1
<1>4. ASSUME NEW m \in 0 .. N - 1, m \in I
      PROVE  m + 1 \in I
  <2>1. m + 1 \in 1 .. N /\ (m + 1) - 1 = m /\ m \in 0 .. N /\ m + 1 \in 0 .. N
    BY <1>2
  <2>2. f[m] \in Seq(T) /\ s[m + 1] \in T
    BY <1>1, <1>2, <2>1
  <2>3. f[m + 1] = IF s[m + 1] \in S THEN Append(f[m], s[m + 1]) ELSE f[m]
    BY <1>1, <2>1
  <2>4. upto(m + 1) = upto(m) \cup {s[m + 1]}
    <3>1. 1 .. m + 1 = (1 .. m) \cup {m + 1}
      BY <2>1
    <3> QED
      BY <3>1
  <2>5. Range(f[m]) = upto(m) \cap S
    BY <1>4
  <2>6. Range(Append(f[m], s[m + 1])) = Range(f[m]) \cup {s[m + 1]}
    BY <2>2, AppendNew
  <2> HIDE DEF upto
  <2>7. Range(f[m + 1]) = upto(m + 1) \cap S
    <3>1. CASE s[m + 1] \in S
      <4>1. f[m + 1] = Append(f[m], s[m + 1])
        BY <2>3, <3>1
      <4>2. Range(f[m + 1]) = Range(f[m]) \cup {s[m + 1]}
        BY <2>6, <4>1
      <4> QED
        BY <2>4, <2>5, <3>1, <4>2
    <3>2. CASE s[m + 1] \notin S
      BY <2>3, <2>4, <2>5, <3>2
    <3> QED
      BY <3>1, <3>2
  <2> QED
    BY <2>1, <2>7
<1>5. 0 .. N \subseteq I
  <2> HIDE DEF I
  <2> QED
    BY <1>2, <1>3, <1>4, IndexInduction
<1>6. N \in I
  BY <1>2, <1>5
<1>7. Range(s) = upto(N)
  BY <1>2 DEF Range
<1> QED
  BY <1>1, <1>2, <1>6, <1>7

-----------------------------------------------------------------------------
(* The inductive invariant *)

\* What the slot, the handles and the sibling entries refer to has begun; an
\* operation is open once.
Known ==
  /\ current \in Begun \cup {NoId}
  /\ \A i \in Ids \cup {NoId} : lastSibling[i] \in Begun \cup {NoId}
  /\ \A o \in Begun : previous[o] \in Begun \cup {NoId}
  /\ \A o \in Ops : dataFrom[o] \subseteq Begun
  /\ Range(open) \subseteq Begun /\ IsInjective(open)

\* A node that is not in the buffer was evicted, and evictedIds has it unless it
\* was cleared since.
Accounted == Begun \subseteq Live \cup evictedIds \cup forgotten

\* The operation in which each open one began.
Outer(k) == IF k = 1 THEN NoId ELSE open[k - 1]

\* While operations nest, each open handle restores the one around it.
Nesting ==
  nested => /\ current = IF open = <<>> THEN NoId ELSE Last(open)
            /\ \A k \in 1 .. Len(open) : previous[open[k]] = Outer(k)

IInv == TypeOK /\ Known /\ Accounted /\ DanglingExplained /\ Nesting

-----------------------------------------------------------------------------
(* pushNode and addEdge *)

\* The ids are finitely many, and a set of them is cleared before it grows past
\* the cap.
LEMMA SomeIds ==
  ASSUME NEW S, S \subseteq Ids
  PROVE  IsFiniteSet(S) /\ Cardinality(S) \in Nat
<1>1. IsFiniteSet(Ids)
  BY CausalGraphAssumption, FS_Union DEF Ids
<1> QED
  BY <1>1, FS_Subset, FS_CardinalityType

\* A node is pushed: only the oldest leaves the buffer, and it is evicted.
LEMMA PushEffect ==
  ASSUME TypeOK, NEW o \in Ops, PushNode(o)
  PROVE  /\ nodes' \in Seq(Ids) /\ Len(nodes') <= MAX_NODES
         /\ o \in Live'
         /\ Overflows => Oldest \in Ids /\ Live \subseteq Live' \cup {Oldest}
         /\ ~Overflows => Live \subseteq Live'
         /\ evictedIds' \subseteq Ids /\ Cardinality(evictedIds') <= EVICTED_MAX
         /\ forgotten' \subseteq Ids
         /\ evictedIds \subseteq evictedIds' \cup forgotten' /\ forgotten \subseteq forgotten'
         /\ Overflows => Oldest \in evictedIds' \cup forgotten'
<1>1. o \in Ids /\ Len(nodes) \in Nat
  BY LenProperties DEF TypeOK, Ids
<1>2. CASE Overflows
  <2>1. nodes # <<>>
    BY <1>2, CausalGraphAssumption, EmptySeq DEF Overflows
  <2>2. /\ Oldest \in Ids /\ Tail(nodes) \in Seq(Ids) /\ Len(Tail(nodes)) = Len(nodes) - 1
        /\ Live = {Oldest} \cup Range(Tail(nodes))
    BY <2>1, TailRange DEF TypeOK, Oldest, Live
  <2>3. nodes' = Append(Tail(nodes), o)
    BY <1>2 DEF PushNode
  <2>4. /\ nodes' \in Seq(Ids) /\ Len(nodes') = Len(Tail(nodes)) + 1
    BY <1>1, <2>2, <2>3, AppendProperties
  <2>5. Range(nodes') = Range(Tail(nodes)) \cup {o}
    <3> DEFINE t == Tail(nodes)
    <3>1. t \in Seq(Ids)
      BY <2>2
    <3> HIDE DEF t
    <3>2. Range(Append(t, o)) = Range(t) \cup {o}
      BY <1>1, <3>1, AppendNew
    <3> QED
      BY <2>3, <3>2 DEF t
  <2>6. Len(nodes') <= MAX_NODES
    BY <1>1, <2>2, <2>4 DEF TypeOK
  <2>7. Live' = Range(Tail(nodes)) \cup {o}
    BY <2>5 DEF Live
  <2>8. EvictedNow = evictedIds \cup {Oldest} /\ EvictedNow \subseteq Ids
    BY <1>2, <2>2 DEF EvictedNow, TypeOK
  <2> HIDE DEF Oldest
  <2>9. CASE ClearsEvicted
    <3>1. evictedIds' = {} /\ forgotten' = forgotten \cup EvictedNow
      BY <2>9 DEF PushNode
    <3>2. Cardinality(evictedIds') <= EVICTED_MAX
      BY <3>1, CausalGraphAssumption, FS_EmptySet
    <3> QED
      BY <1>2, <2>2, <2>4, <2>6, <2>7, <2>8, <3>1, <3>2 DEF TypeOK
  <2>10. CASE ~ClearsEvicted
    <3>1. evictedIds' = EvictedNow /\ forgotten' = forgotten
      BY <2>10 DEF PushNode
    <3>2. Cardinality(EvictedNow) \in Nat
      BY <2>8, SomeIds
    <3>3. Cardinality(evictedIds') <= EVICTED_MAX
      BY <2>10, <3>1, <3>2, CausalGraphAssumption DEF ClearsEvicted
    <3> QED
      BY <1>2, <2>2, <2>4, <2>6, <2>7, <2>8, <3>1, <3>3 DEF TypeOK
  <2> QED
    BY <2>9, <2>10
<1>3. CASE ~Overflows
  <2>1. nodes' = Append(nodes, o) /\ EvictedNow = evictedIds
    BY <1>3 DEF PushNode, EvictedNow
  <2>2. nodes' \in Seq(Ids) /\ Len(nodes') = Len(nodes) + 1
    BY <1>1, <2>1, AppendProperties DEF TypeOK
  <2>3. Live' = Live \cup {o}
    BY <1>1, <2>1, AppendNew DEF Live, TypeOK
  <2>4. Len(nodes') <= MAX_NODES
    BY <1>1, <1>3, <2>2, CausalGraphAssumption DEF Overflows
  <2>5. ~ClearsEvicted
    <3>1. Cardinality(evictedIds) \in Nat /\ Cardinality(evictedIds) <= EVICTED_MAX
      BY SomeIds DEF TypeOK
    <3> QED
      BY <2>1, <3>1, CausalGraphAssumption DEF ClearsEvicted
  <2>6. evictedIds' = evictedIds /\ forgotten' = forgotten
    BY <2>1, <2>5 DEF PushNode
  <2> QED
    BY <1>3, <2>2, <2>3, <2>4, <2>6 DEF TypeOK
<1> QED
  BY <1>2, <1>3

\* The eviction takes with it every edge of the oldest node.
LEMMA EdgesAfterPush ==
  ASSUME TypeOK
  PROVE  /\ EdgesKept \in Seq(Edge) /\ Range(EdgesKept) \subseteq Range(edges)
         /\ Overflows => \A e \in Range(EdgesKept) : e.from # Oldest /\ e.to # Oldest
<1>1. CASE Overflows
  <2> DEFINE S == {e \in Edge : Oldest \notin {e.from, e.to}}
  <2>1. EdgesKept = Kept(edges, S)
    BY <1>1 DEF EdgesKept
  <2>2. EdgesKept \in Seq(Edge) /\ Range(EdgesKept) = Range(edges) \cap S
    <3> HIDE DEF S
    <3> QED
      BY <2>1, KeptEffect DEF TypeOK
  <2> QED
    BY <2>2
<1>2. CASE ~Overflows
  BY <1>2 DEF EdgesKept, TypeOK
<1> QED
  BY <1>1, <1>2

\* addEdge lets no edge through that refers to an evicted node.
LEMMA AdmittedEffect ==
  ASSUME NEW s \in Seq(Edge), NEW E
  PROVE  /\ Admitted(s, E) \in Seq(Edge) /\ Range(Admitted(s, E)) \subseteq Range(s)
         /\ \A e \in Range(Admitted(s, E)) : e.from \notin E /\ e.to \notin E
<1> DEFINE S == {e \in Edge : e.from \notin E /\ e.to \notin E}
<1>1. Admitted(s, E) = Kept(s, S)
  BY DEF Admitted
<1>2. Admitted(s, E) \in Seq(Edge) /\ Range(Admitted(s, E)) = Range(s) \cap S
  <2> HIDE DEF S
  <2> QED
    BY <1>1, KeptEffect
<1> QED
  BY <1>2

\* The edges of a new operation: one from the node that was current and one from
\* its latest child, where they exist.
LEMMA EdgesOfNew ==
  ASSUME NEW x \in Ids \cup {NoId}, NEW y \in Ids \cup {NoId}, NEW o \in Ids
  PROVE  LET s == EdgeUnless(x = NoId, x, o, "causal") \o EdgeUnless(y = NoId, y, o, "temporal")
         IN  /\ s \in Seq(Edge)
             /\ \A e \in Range(s) : /\ e.from # NoId
                                    /\ e.from \in {x, y} /\ e.to = o
<1> DEFINE One(i, k) == EdgeUnless(i = NoId, i, o, k)
<1>1. ASSUME NEW i \in Ids \cup {NoId}, NEW k \in Kinds
      PROVE  /\ One(i, k) \in Seq(Edge)
             /\ \A e \in Range(One(i, k)) : e.from # NoId /\ e.from = i /\ e.to = o
  <2> DEFINE e == [from |-> i, to |-> o, kind |-> k]
  <2>1. CASE i = NoId
    <3>1. One(i, k) = <<>>
      BY <2>1 DEF EdgeUnless
    <3>2. <<>> \in Seq(Edge) /\ Range(<<>>) = {}
      BY EmptySeq DEF Range
    <3> QED
      BY <3>1, <3>2
  <2>2. CASE i # NoId
    <3>1. One(i, k) = <<e>>
      BY <2>2 DEF EdgeUnless
    <3>2. e \in Edge /\ e.from = i /\ e.to = o
      BY <2>2 DEF Edge
    <3> HIDE DEF e
    <3>3. <<e>> \in Seq(Edge) /\ Range(<<e>>) = {e}
      BY <3>2 DEF Range
    <3> QED
      BY <2>2, <3>1, <3>2, <3>3
  <2> QED
    BY <2>1, <2>2
<1>2. "causal" \in Kinds /\ "temporal" \in Kinds
  BY DEF Kinds
<1> DEFINE a == One(x, "causal")
           b == One(y, "temporal")
<1>3. /\ a \in Seq(Edge) /\ \A e \in Range(a) : e.from # NoId /\ e.from = x /\ e.to = o
      /\ b \in Seq(Edge) /\ \A e \in Range(b) : e.from # NoId /\ e.from = y /\ e.to = o
  BY <1>1, <1>2
<1> HIDE DEF a, b
<1>4. a \o b \in Seq(Edge) /\ Range(a \o b) = Range(a) \cup Range(b)
  BY <1>3, ConcatRange
<1> QED
  BY <1>3, <1>4 DEF a, b

\* The data-flow edges run from the operations whose results the arguments were
\* to the operation that ends, and none of them was evicted.
LEMMA DataEdgesEffect ==
  ASSUME TypeOK, NEW o \in Ops
  PROVE  /\ DataEdges(o) \in Seq(Edge)
         /\ \A e \in Range(DataEdges(o)) : /\ e.from \in dataFrom[o] /\ e.to = o
                                           /\ e.from \notin evictedIds /\ o \notin evictedIds
<1>1. CASE o \in evictedIds
  <2>1. DataEdges(o) = <<>>
    BY <1>1 DEF DataEdges
  <2>2. <<>> \in Seq(Edge) /\ Range(<<>>) = {}
    BY EmptySeq DEF Range
  <2> QED
    BY <2>1, <2>2
<1>2. CASE o \notin evictedIds
  <2> DEFINE S == {[from |-> f, to |-> o, kind |-> "data-flow"] : f \in dataFrom[o]}
             q == SetToSeq(S)
  <2>1. dataFrom[o] \subseteq Ids /\ o \in Ids
    BY DEF TypeOK, Ids
  <2>2. S \subseteq Edge /\ \A e \in S : e.from \in dataFrom[o] /\ e.to = o
    BY <2>1 DEF Edge, Kinds
  <2>3. IsFiniteSet(S)
    <3>1. IsFiniteSet(dataFrom[o])
      BY <2>1, SomeIds
    <3> DEFINE h == [f \in dataFrom[o] |-> [from |-> f, to |-> o, kind |-> "data-flow"]]
    <3>2. h \in Surjection(dataFrom[o], S)
      BY DEF Surjection
    <3> HIDE DEF h, S
    <3> QED
      BY <3>1, <3>2, FS_Surjection
  <2>4. DataEdges(o) = Admitted(q, evictedIds)
    BY <1>2 DEF DataEdges
  <2> HIDE DEF S
  <2>5. q \in Seq(S) /\ Range(q) = S
    BY <2>3, ListedOnce
  <2> HIDE DEF q
  <2>6. q \in Seq(Edge)
    BY <2>2, <2>5
  <2>7. /\ Admitted(q, evictedIds) \in Seq(Edge)
        /\ Range(Admitted(q, evictedIds)) \subseteq S
        /\ \A e \in Range(Admitted(q, evictedIds)) : e.from \notin evictedIds
    BY <2>5, <2>6, AdmittedEffect
  <2> QED
    BY <1>2, <2>2, <2>4, <2>7
<1> QED
  BY <1>1, <1>2

-----------------------------------------------------------------------------
(* mergeSubgraph *)

\* The nodes that come in fit, and the edges that come in join two of them.
LEMMA IncomingEffect ==
  ASSUME TypeOK, NEW g \in ForeignGraphs
  PROVE  /\ Incoming(g) \in Seq(Foreign)
         /\ Len(nodes) + Len(Incoming(g)) <= MAX_NODES
         /\ IncomingEdges(g) \in Seq(Edge)
         /\ \A e \in Range(IncomingEdges(g)) : {e.from, e.to} \subseteq Range(Incoming(g))
         /\ Roots(g) \in Seq(Foreign) /\ Range(Roots(g)) \subseteq Range(Incoming(g))
<1> DEFINE s == g.nodes
           r == Remaining
           a == IF Len(s) > r THEN Len(s) - r + 1 ELSE 1
           q == Incoming(g)
<1>1. s \in Seq(Foreign) /\ g.edges \in Seq(Edge)
  BY CausalGraphAssumption
<1>2. q = SubSeq(s, a, Len(s))
  BY DEF Incoming
<1>3. Len(nodes) \in Nat /\ r = MAX_NODES - Len(nodes) /\ r \in Nat
  BY LenProperties, CausalGraphAssumption DEF TypeOK, Remaining
<1> HIDE DEF s, r
<1>4. Len(s) \in Nat /\ \A i \in 1 .. Len(s) : s[i] \in Foreign
  BY <1>1, LenProperties, ElementOfSeq
<1>5. a \in 1 .. Len(s) + 1 /\ Len(s) - a + 1 <= r /\ Len(s) - a + 1 \in Nat
  BY <1>3, <1>4
<1> HIDE DEF a
<1>6. q \in Seq(Foreign) /\ Len(q) <= r
  <2>1. \A i \in a .. Len(s) : s[i] \in Foreign
    BY <1>4, <1>5
  <2>2. q \in Seq(Foreign) /\ Len(q) = IF a <= Len(s) THEN Len(s) - a + 1 ELSE 0
    BY <1>2, <1>4, <1>5, <2>1, SubSeqProperties
  <2> HIDE DEF q
  <2> QED
    BY <1>3, <1>4, <1>5, <2>2
<1> HIDE DEF q
<1>7. Len(nodes) + Len(q) <= MAX_NODES
  <2>1. Len(q) \in Nat
    BY <1>6, LenProperties
  <2> QED
    BY <1>3, <1>6, <2>1, CausalGraphAssumption
<1> DEFINE A == Range(q)
           S == {e \in Edge : e.from \in A /\ e.to \in A}
           T == {i \in Foreign : \A e \in Range(IncomingEdges(g)) : e.to # i}
<1>8. IncomingEdges(g) = Kept(g.edges, S)
  BY DEF IncomingEdges, q
<1>9. IncomingEdges(g) \in Seq(Edge) /\ Range(IncomingEdges(g)) = Range(g.edges) \cap S
  <2> HIDE DEF S
  <2> QED
    BY <1>1, <1>8, KeptEffect
<1>10. Roots(g) = Kept(q, T)
  BY DEF Roots, q
<1>11. Roots(g) \in Seq(Foreign) /\ Range(Roots(g)) = A \cap T
  <2> HIDE DEF T
  <2> QED
    BY <1>6, <1>10, KeptEffect
<1> QED
  BY <1>6, <1>7, <1>9, <1>11 DEF q

\* A stitch runs from the request to a node that comes in.
LEMMA StitchesEffect ==
  ASSUME TypeOK, NEW o \in Ops, NEW g \in ForeignGraphs
  PROVE  /\ Stitches(o, g) \in Seq(Edge)
         /\ \A e \in Range(Stitches(o, g)) : e.from = o /\ e.to \in Range(Incoming(g))
<1> DEFINE r == Roots(g)
           t == Stitches(o, g)
<1>1. r \in Seq(Foreign) /\ Range(r) \subseteq Range(Incoming(g))
  BY IncomingEffect
<1>2. t = [k \in DOMAIN r |-> [from |-> o, to |-> r[k], kind |-> "causal"]]
  BY DEF Stitches
<1> HIDE DEF r
<1>3. Len(r) \in Nat /\ DOMAIN r = 1 .. Len(r) /\ \A k \in 1 .. Len(r) : r[k] \in Foreign
  BY <1>1, LenProperties, ElementOfSeq
<1>4. \A k \in DOMAIN r : [from |-> o, to |-> r[k], kind |-> "causal"] \in Edge
  BY <1>3 DEF Edge, Ids, Kinds
<1>5. t \in [1 .. Len(r) -> Edge]
  BY <1>2, <1>3, <1>4
<1>6. t \in Seq(Edge)
  BY <1>3, <1>5, SeqDef
<1>7. \A k \in DOMAIN t : t[k].from = o /\ t[k].to = r[k] /\ k \in DOMAIN r
  BY <1>2
<1> HIDE DEF t
<1>8. ASSUME NEW e \in Range(t)
      PROVE  e.from = o /\ e.to \in Range(Incoming(g))
  BY <1>1, <1>7 DEF Range
<1> QED
  BY <1>6, <1>8 DEF t

-----------------------------------------------------------------------------
(* The invariant holds from the start *)

LEMMA InvariantHolds == Init => IInv
<1> SUFFICES ASSUME Init
             PROVE  IInv
  OBVIOUS
<1> USE DEF Init
<1>1. <<>> \in Seq(Ids) /\ <<>> \in Seq(Edge) /\ <<>> \in Seq(Ops)
      /\ Range(<<>>) = {} /\ Len(<<>>) = 0
  BY EmptySeq DEF Range
<1>2. Begun = {}
  BY DEF Begun
<1>3. TypeOK
  <2>1. Cardinality({}) = 0
    BY FS_EmptySet
  <2> QED
    BY <1>1, <2>1, CausalGraphAssumption DEF TypeOK, Ids
<1>4. Known
  BY <1>1, <1>2 DEF Known, IsInjective
<1>5. Accounted
  BY <1>2 DEF Accounted
<1>6. DanglingExplained
  BY <1>1 DEF DanglingExplained
<1>7. Nesting
  BY <1>1 DEF Nesting
<1> QED
  BY <1>3, <1>4, <1>5, <1>6, <1>7 DEF IInv

-----------------------------------------------------------------------------
(* recordOp *)

\* What recordOp leaves of the references between the operations.
LEMMA RecordKnown ==
  ASSUME IInv, NEW o \in Ops, NEW from,
         from \in {{}} \cup {{f} : f \in Begun \ Range(open)}, RecordOp(o, from)
  PROVE  /\ current \in Ids \cup {NoId} /\ lastSibling[current] \in Ids \cup {NoId}
         /\ o \notin Begun /\ current # o /\ Begun' = Begun \cup {o}
         /\ Known'
<1>1. /\ o \notin Begun /\ current' = o /\ open' = Append(open, o)
      /\ lastSibling' = [lastSibling EXCEPT ![current] = o]
      /\ previous' = [previous EXCEPT ![o] = current]
      /\ dataFrom' = [dataFrom EXCEPT ![o] = from]
  BY DEF RecordOp
<1>2. TypeOK /\ Known
  BY DEF IInv
<1>3. current \in Begun \cup {NoId} /\ current # o /\ NoId # o
  BY <1>1, <1>2, CausalGraphAssumption DEF Known
<1>4. current \in Ids \cup {NoId} /\ lastSibling[current] \in Ids \cup {NoId}
  BY <1>2 DEF TypeOK, Ids
<1>5. Begun' = Begun \cup {o}
  BY <1>1, <1>2, <1>3 DEF Begun, TypeOK
<1>6. \A i \in Ids \cup {NoId} : lastSibling'[i] \in Begun' \cup {NoId}
  BY <1>1, <1>2, <1>5 DEF Known, TypeOK
<1>7. \A p \in Begun' : previous'[p] \in Begun' \cup {NoId}
  BY <1>1, <1>2, <1>3, <1>5 DEF Known, TypeOK, Begun
<1>8. \A p \in Ops : dataFrom'[p] \subseteq Begun'
  <2>1. from \subseteq Begun
    OBVIOUS
  <2> QED
    BY <1>1, <1>2, <1>5, <2>1 DEF Known, TypeOK
<1>9. Range(open') = Range(open) \cup {o} /\ IsInjective(open')
  <2>1. o \notin Range(open) /\ IsInjective(open) /\ open \in Seq(Ops)
    BY <1>1, <1>2 DEF Known, TypeOK
  <2> QED
    BY <1>1, <2>1, AppendNew
<1>10. Known'
  <2>1. Range(open') \subseteq Begun'
    BY <1>2, <1>5, <1>9 DEF Known
  <2> QED
    BY <1>1, <1>5, <1>6, <1>7, <1>8, <1>9, <2>1 DEF Known
<1> QED
  BY <1>1, <1>3, <1>4, <1>5, <1>10

\* The edges after recordOp: those of before that the eviction leaves, and edges
\* between operations that are not evicted.
LEMMA RecordEdges ==
  ASSUME IInv, NEW o \in Ops, NEW from,
         from \in {{}} \cup {{f} : f \in Begun \ Range(open)}, RecordOp(o, from)
  PROVE  /\ edges' \in Seq(Edge)
         /\ \A e \in Range(edges') :
              \/ e \in Range(EdgesKept)
              \/ {e.from, e.to} \subseteq Begun' /\ {e.from, e.to} \cap evictedIds' = {}
<1> DEFINE sibling == lastSibling[current]
           s == EdgeUnless(current = NoId, current, o, "causal")
                  \o EdgeUnless(sibling = NoId, sibling, o, "temporal")
           a == Admitted(s, evictedIds')
<1>1. TypeOK /\ Known
  BY DEF IInv
<1>2. /\ current \in Ids \cup {NoId} /\ sibling \in Ids \cup {NoId}
      /\ Begun' = Begun \cup {o}
  BY RecordKnown
<1>3. current \in Begun \cup {NoId} /\ sibling \in Begun \cup {NoId}
  BY <1>1, <1>2 DEF Known, TypeOK, Ids
<1>4. edges' = EdgesKept \o a
  BY DEF RecordOp
<1>5. EdgesKept \in Seq(Edge)
  BY <1>1, EdgesAfterPush
<1> HIDE DEF sibling
<1>6. s \in Seq(Edge) /\ \A e \in Range(s) : e.from # NoId /\ e.from \in {current, sibling} /\ e.to = o
  <2>1. o \in Ids
    BY DEF Ids
  <2> QED
    BY <1>2, <2>1, EdgesOfNew
<1> HIDE DEF s
<1>7. /\ a \in Seq(Edge) /\ Range(a) \subseteq Range(s)
      /\ \A e \in Range(a) : e.from \notin evictedIds' /\ e.to \notin evictedIds'
  BY <1>6, AdmittedEffect
<1> HIDE DEF a
<1>8. edges' \in Seq(Edge) /\ Range(edges') = Range(EdgesKept) \cup Range(a)
  BY <1>4, <1>5, <1>7, ConcatRange
<1>9. \A e \in Range(a) : {e.from, e.to} \subseteq Begun' /\ {e.from, e.to} \cap evictedIds' = {}
  BY <1>2, <1>3, <1>6, <1>7
<1> QED
  BY <1>8, <1>9

\* The new operation is the innermost one.
LEMMA RecordNesting ==
  ASSUME IInv, NEW o \in Ops, NEW from,
         from \in {{}} \cup {{f} : f \in Begun \ Range(open)}, RecordOp(o, from)
  PROVE  Nesting'
<1>1. TypeOK /\ Known /\ Nesting
  BY DEF IInv
<1>2. /\ o \notin Begun /\ current' = o /\ open' = Append(open, o) /\ nested' = nested
      /\ previous' = [previous EXCEPT ![o] = current]
  BY DEF RecordOp
<1>3. /\ open \in Seq(Ops) /\ Len(open) \in Nat /\ DOMAIN open = 1 .. Len(open)
      /\ o \notin Range(open)
  BY <1>1, <1>2, LenProperties DEF TypeOK, Known
<1>4. /\ open' \in Seq(Ops) /\ Len(open') = Len(open) + 1
      /\ \A i \in 1 .. Len(open) : open'[i] = open[i]
      /\ open'[Len(open) + 1] = o
  BY <1>2, <1>3, AppendProperties
<1>5. open' # <<>>
  BY <1>3, <1>4, EmptySeq
<1> SUFFICES ASSUME nested
             PROVE  /\ current' = IF open' = <<>> THEN NoId ELSE Last(open')
                    /\ \A k \in 1 .. Len(open') : previous'[open'[k]] = Outer(k)'
  BY <1>2 DEF Nesting
<1>6. /\ current = IF open = <<>> THEN NoId ELSE Last(open)
      /\ \A k \in 1 .. Len(open) : previous[open[k]] = Outer(k)
  BY <1>1 DEF Nesting
<1>7. current' = Last(open')
  BY <1>2, <1>3, <1>4 DEF Last
<1>8. ASSUME NEW k \in 1 .. Len(open')
      PROVE  previous'[open'[k]] = Outer(k)'
  <2>1. Outer(k)' = IF k = 1 THEN NoId ELSE open'[k - 1]
    BY DEF Outer
  <2>2. CASE k \in 1 .. Len(open)
    <3>1. open[k] # o /\ open[k] \in Ops
      BY <1>3, <2>2, ElementOfSeq DEF Range
    <3>2. previous'[open'[k]] = previous[open[k]]
      BY <1>1, <1>2, <1>4, <2>2, <3>1 DEF TypeOK
    <3>3. k # 1 => k - 1 \in 1 .. Len(open)
      BY <1>3, <2>2
    <3>4. Outer(k)' = Outer(k)
      BY <1>4, <2>1, <3>3 DEF Outer
    <3> QED
      BY <1>6, <2>2, <3>2, <3>4
  <2>3. CASE k = Len(open) + 1
    <3>1. previous'[open'[k]] = current
      BY <1>1, <1>2, <1>4, <2>3 DEF TypeOK
    <3>2. CASE open = <<>>
      <4>1. k = 1
        BY <2>3, <3>2, EmptySeq
      <4> QED
        BY <1>6, <2>1, <3>1, <3>2, <4>1
    <3>3. CASE open # <<>>
      <4>1. Len(open) # 0
        BY <1>3, <3>3, EmptySeq
      <4>2. k # 1 /\ k - 1 = Len(open) /\ k - 1 \in 1 .. Len(open)
        BY <1>3, <2>3, <4>1
      <4>3. Outer(k)' = open[Len(open)]
        BY <1>4, <2>1, <4>2
      <4> QED
        BY <1>6, <3>1, <3>3, <4>3 DEF Last
    <3> QED
      BY <3>2, <3>3
  <2> QED
    BY <1>3, <1>4, <1>8, <2>2, <2>3
<1> QED
  BY <1>5, <1>7, <1>8

\* recordOp keeps the invariant.
LEMMA RecordKept ==
  ASSUME IInv, NEW o \in Ops, NEW from,
         from \in {{}} \cup {{f} : f \in Begun \ Range(open)}, RecordOp(o, from)
  PROVE  IInv'
<1>1. TypeOK /\ Known /\ Accounted /\ DanglingExplained
  BY DEF IInv
<1>2. Known' /\ Begun' = Begun \cup {o}
  BY RecordKnown
<1>3. PushNode(o)
  BY DEF RecordOp
<1>4. /\ nodes' \in Seq(Ids) /\ Len(nodes') <= MAX_NODES
      /\ o \in Live'
      /\ Overflows => Oldest \in Ids /\ Live \subseteq Live' \cup {Oldest}
      /\ ~Overflows => Live \subseteq Live'
      /\ evictedIds' \subseteq Ids /\ Cardinality(evictedIds') <= EVICTED_MAX
      /\ forgotten' \subseteq Ids
      /\ evictedIds \subseteq evictedIds' \cup forgotten' /\ forgotten \subseteq forgotten'
      /\ Overflows => Oldest \in evictedIds' \cup forgotten'
  BY <1>1, <1>3, PushEffect
<1>5. /\ edges' \in Seq(Edge)
      /\ \A e \in Range(edges') :
           \/ e \in Range(EdgesKept)
           \/ {e.from, e.to} \subseteq Begun' /\ {e.from, e.to} \cap evictedIds' = {}
  BY RecordEdges
<1>6. TypeOK'
  <2>1. parent' \in [Ids -> Ids \cup {NoId}]
    <3>1. current \in Ids \cup {NoId}
      BY <1>1 DEF TypeOK, Ids
    <3>2. parent' = [i \in Ids |-> IF i = o THEN current
                                  ELSE IF Overflows /\ i = Oldest THEN NoId
                                  ELSE parent[i]]
      BY DEF RecordOp
    <3> QED
      BY <1>1, <3>1, <3>2 DEF TypeOK
  <2>2. lastSibling' \in [Ids \cup {NoId} -> Ids \cup {NoId}]
    BY <1>1 DEF RecordOp, TypeOK, Ids
  <2>3. /\ current' \in Ops \cup {NoId} /\ previous' \in [Ops -> Ops \cup {NoId}]
        /\ nested' \in BOOLEAN
    BY <1>1 DEF RecordOp, TypeOK
  <2>4. dataFrom' \in [Ops -> SUBSET Ops]
    BY <1>1 DEF RecordOp, TypeOK, Begun
  <2>5. open' \in Seq(Ops)
    BY <1>1, AppendProperties DEF RecordOp, TypeOK
  <2> QED
    BY <1>4, <1>5, <2>1, <2>2, <2>3, <2>4, <2>5 DEF TypeOK
<1>7. Accounted'
  BY <1>1, <1>2, <1>4 DEF Accounted
<1>8. DanglingExplained'
  <2> SUFFICES ASSUME NEW e \in Range(edges')
               PROVE  \/ {e.from, e.to} \subseteq Live'
                      \/ {e.from, e.to} \cap forgotten' # {}
                      \/ e.from \in evictedIds' /\ e.to \in Foreign
    BY DEF DanglingExplained
  <2>1. CASE {e.from, e.to} \subseteq Begun' /\ {e.from, e.to} \cap evictedIds' = {}
    BY <1>7, <2>1 DEF Accounted
  <2>2. CASE e \in Range(EdgesKept)
    <3>1. e \in Range(edges) /\ (Overflows => e.from # Oldest /\ e.to # Oldest)
      BY <1>1, <2>2, EdgesAfterPush
    <3>2. \/ {e.from, e.to} \subseteq Live
          \/ {e.from, e.to} \cap forgotten # {}
          \/ e.from \in evictedIds /\ e.to \in Foreign
      BY <1>1, <3>1 DEF DanglingExplained
    <3> QED
      BY <1>4, <3>1, <3>2
  <2> QED
    BY <1>5, <2>1, <2>2
<1>9. Nesting'
  BY RecordNesting
<1> QED
  BY <1>2, <1>6, <1>7, <1>8, <1>9 DEF IInv

-----------------------------------------------------------------------------
(* The end of an operation *)

\* What the end of a handle does to the references and to the nesting.
LEMMA EndsKept ==
  ASSUME IInv, NEW o \in Ops, Ends(o)
  PROVE  /\ o \in Begun /\ Begun' = Begun
         /\ open' \in Seq(Ops) /\ current' \in Ops \cup {NoId} /\ nested' \in BOOLEAN
         /\ Known' /\ Nesting'
<1>1. TypeOK /\ Known /\ Nesting
  BY DEF IInv
<1>2. /\ o \in Range(open) /\ open' = RemoveFirst(open, o)
      /\ current' = IF current = o THEN previous[o] ELSE current
      /\ nested' = (nested /\ o = Last(open))
      /\ lastSibling' = lastSibling /\ previous' = previous /\ dataFrom' = dataFrom
  BY DEF Ends, Restore
<1>3. o \in Begun /\ Begun' = Begun
  BY <1>1, <1>2 DEF Known, Begun
<1>4. open \in Seq(Ops) /\ IsInjective(open)
  BY <1>1 DEF TypeOK, Known
<1>5. open' \in Seq(Ops) /\ Range(open') \subseteq Range(open) /\ IsInjective(open')
  BY <1>2, <1>4, Removed
<1>6. current' \in Begun \cup {NoId}
  BY <1>1, <1>2, <1>3 DEF Known
<1>7. Known'
  BY <1>1, <1>2, <1>3, <1>5, <1>6 DEF Known
<1>8. nested' \in BOOLEAN
  BY <1>1, <1>2 DEF TypeOK
<1>9. Nesting'
  <2> SUFFICES ASSUME nested'
               PROVE  /\ current' = IF open' = <<>> THEN NoId ELSE Last(open')
                      /\ \A k \in 1 .. Len(open') : previous'[open'[k]] = Outer(k)'
    BY DEF Nesting
  <2>1. nested /\ o = Last(open)
    BY <1>2
  <2>2. open # <<>> /\ Len(open) \in Nat \ {0} /\ DOMAIN open = 1 .. Len(open)
    <3>1. Range(<<>>) = {}
      BY EmptySeq DEF Range
    <3> QED
      BY <1>2, <1>4, <3>1, LenProperties, EmptySeq
  <2>3. current = o
    BY <1>1, <2>1, <2>2 DEF Nesting
  <2>4. \A k \in 1 .. Len(open) : previous[open[k]] = Outer(k)
    BY <1>1, <2>1 DEF Nesting
  <2>5. Len(open') = Len(open) - 1 /\ \A i \in 1 .. Len(open) - 1 : open'[i] = open[i]
    BY <1>2, <1>4, <2>1, <2>2, LastRemoved
  <2>6. current' = Outer(Len(open))
    <3>1. o = open[Len(open)] /\ Len(open) \in 1 .. Len(open)
      BY <2>1, <2>2 DEF Last
    <3> QED
      BY <1>2, <2>3, <2>4, <3>1
  <2>7. current' = IF open' = <<>> THEN NoId ELSE Last(open')
    <3>1. CASE Len(open) = 1
      <4>1. open' = <<>>
        BY <1>5, <2>5, <3>1, EmptySeq
      <4> QED
        BY <2>6, <3>1, <4>1 DEF Outer
    <3>2. CASE Len(open) # 1
      <4>1. open' # <<>> /\ Len(open) - 1 \in 1 .. Len(open) - 1
        BY <2>2, <2>5, <3>2, EmptySeq
      <4>2. Last(open') = open[Len(open) - 1]
        BY <2>5, <4>1 DEF Last
      <4> QED
        BY <2>6, <3>2, <4>1, <4>2 DEF Outer
    <3> QED
      BY <3>1, <3>2
  <2>8. ASSUME NEW k \in 1 .. Len(open')
        PROVE  previous'[open'[k]] = Outer(k)'
    <3>1. k \in 1 .. Len(open) /\ k \in 1 .. Len(open) - 1 /\ open'[k] = open[k]
      BY <2>2, <2>5
    <3>2. k # 1 => open'[k - 1] = open[k - 1]
      BY <2>2, <2>5, <3>1
    <3>3. Outer(k)' = Outer(k)
      <4>1. Outer(k)' = IF k = 1 THEN NoId ELSE open'[k - 1]
        BY DEF Outer
      <4> QED
        BY <3>2, <4>1 DEF Outer
    <3> QED
      BY <1>2, <2>4, <3>1, <3>3
  <2> QED
    BY <2>7, <2>8
<1>10. current' \in Ops \cup {NoId}
  BY <1>6 DEF Begun
<1> QED
  BY <1>3, <1>5, <1>7, <1>8, <1>9, <1>10

\* When it is added, a data-flow edge joins two nodes of the buffer, or refers to
\* one that was evicted and that evictedIds was cleared of.
LEMMA DataEdgesExplained ==
  ASSUME IInv, NEW o \in Begun, NEW e \in Range(DataEdges(o))
  PROVE  \/ {e.from, e.to} \subseteq Live
         \/ {e.from, e.to} \cap forgotten # {}
<1>1. o \in Ops /\ TypeOK /\ Known /\ Accounted
  BY DEF Begun, IInv
<1>2. e.from \in dataFrom[o] /\ e.to = o /\ e.from \notin evictedIds /\ o \notin evictedIds
  BY <1>1, DataEdgesEffect
<1>3. {e.from, e.to} \subseteq Begun
  BY <1>1, <1>2 DEF Known
<1> QED
  BY <1>1, <1>2, <1>3 DEF Accounted

\* An end without a downstream graph keeps the invariant.
LEMMA EndOpKept ==
  ASSUME IInv, NEW o \in Ops, EndOp(o)
  PROVE  IInv'
<1>1. TypeOK /\ Known /\ Accounted /\ DanglingExplained
  BY DEF IInv
<1>2. Ends(o) /\ edges' = edges \o DataEdges(o) /\ nodes' = nodes /\ parent' = parent
  BY DEF EndOp
<1>3. /\ o \in Begun /\ Begun' = Begun
      /\ open' \in Seq(Ops) /\ current' \in Ops \cup {NoId} /\ nested' \in BOOLEAN
      /\ Known' /\ Nesting'
  BY <1>2, EndsKept
<1>4. /\ evictedIds' = evictedIds /\ forgotten' = forgotten /\ lastSibling' = lastSibling
      /\ previous' = previous /\ dataFrom' = dataFrom
  BY <1>2 DEF Ends
<1>5. edges' \in Seq(Edge) /\ Range(edges') = Range(edges) \cup Range(DataEdges(o))
  <2>1. DataEdges(o) \in Seq(Edge) /\ edges \in Seq(Edge)
    BY <1>1, DataEdgesEffect DEF TypeOK
  <2> QED
    BY <1>2, <2>1, ConcatRange
<1>6. TypeOK'
  BY <1>1, <1>2, <1>3, <1>4, <1>5 DEF TypeOK
<1>7. Live' = Live /\ Accounted'
  BY <1>1, <1>2, <1>3, <1>4 DEF Accounted, Live
<1>8. DanglingExplained'
  <2> SUFFICES ASSUME NEW e \in Range(edges')
               PROVE  \/ {e.from, e.to} \subseteq Live
                      \/ {e.from, e.to} \cap forgotten # {}
                      \/ e.from \in evictedIds /\ e.to \in Foreign
    BY <1>4, <1>7 DEF DanglingExplained
  <2>1. CASE e \in Range(edges)
    BY <1>1, <2>1 DEF DanglingExplained
  <2>2. CASE e \in Range(DataEdges(o))
    BY <1>3, <2>2, DataEdgesExplained
  <2> QED
    BY <1>5, <2>1, <2>2
<1> QED
  BY <1>3, <1>6, <1>7, <1>8 DEF IInv

\* The parents after a merge are those of before or the last causal edge's source.
LEMMA MergedParents ==
  ASSUME TypeOK, NEW added \in Seq(Edge), NEW i \in Ids
  PROVE  LET into == Kept(added, {e \in Edge : e.to = i /\ e.kind = "causal"})
         IN  (IF into = <<>> THEN parent[i] ELSE Last(into).from) \in Ids \cup {NoId}
<1> DEFINE S == {e \in Edge : e.to = i /\ e.kind = "causal"}
           into == Kept(added, S)
<1> SUFFICES (IF into = <<>> THEN parent[i] ELSE Last(into).from) \in Ids \cup {NoId}
  OBVIOUS
<1>1. into \in Seq(Edge)
  <2> HIDE DEF S
  <2> QED
    BY KeptEffect
<1> HIDE DEF into
<1>2. CASE into = <<>>
  BY <1>2 DEF TypeOK
<1>3. CASE into # <<>>
  <2>1. Len(into) \in 1 .. Len(into)
    BY <1>1, <1>3, LenProperties, EmptySeq
  <2>2. Last(into) \in Edge
    BY <1>1, <2>1, ElementOfSeq DEF Last
  <2>3. Last(into).from \in Ids
    BY <2>2 DEF Edge
  <2> QED
    BY <1>3, <2>3
<1> QED
  BY <1>2, <1>3

\* An end with a downstream graph keeps the invariant: the edges that come in join
\* nodes that come in, and a stitch starts at the request, evicted or not.
LEMMA MergeKept ==
  ASSUME IInv, NEW o \in Ops, NEW g \in ForeignGraphs, EndWithSubgraph(o, g)
  PROVE  IInv'
<1> DEFINE added == IncomingEdges(g) \o Stitches(o, g)
           data == DataEdges(o)
<1>1. TypeOK /\ Known /\ Accounted /\ DanglingExplained
  BY DEF IInv
<1>2. Ends(o) /\ nodes' = nodes \o Incoming(g) /\ edges' = edges \o added \o data
  BY DEF EndWithSubgraph
<1>3. /\ o \in Begun /\ Begun' = Begun
      /\ open' \in Seq(Ops) /\ current' \in Ops \cup {NoId} /\ nested' \in BOOLEAN
      /\ Known' /\ Nesting'
  BY <1>2, EndsKept
<1>4. /\ evictedIds' = evictedIds /\ forgotten' = forgotten /\ lastSibling' = lastSibling
      /\ previous' = previous /\ dataFrom' = dataFrom
  BY <1>2 DEF Ends
<1>5. /\ Incoming(g) \in Seq(Foreign)
      /\ Len(nodes) + Len(Incoming(g)) <= MAX_NODES
      /\ IncomingEdges(g) \in Seq(Edge)
      /\ \A e \in Range(IncomingEdges(g)) : {e.from, e.to} \subseteq Range(Incoming(g))
  BY <1>1, IncomingEffect
<1>6. /\ Stitches(o, g) \in Seq(Edge)
      /\ \A e \in Range(Stitches(o, g)) : e.from = o /\ e.to \in Range(Incoming(g))
  BY <1>1, StitchesEffect
<1>7. added \in Seq(Edge) /\ Range(added) = Range(IncomingEdges(g)) \cup Range(Stitches(o, g))
  BY <1>5, <1>6, ConcatRange
<1>8. Range(Incoming(g)) \subseteq Foreign
  BY <1>5, ElementOfSeq, LenProperties DEF Range
<1>9. nodes' \in Seq(Ids) /\ Live' = Live \cup Range(Incoming(g)) /\ Len(nodes') <= MAX_NODES
  <2> DEFINE q == Incoming(g)
  <2>1. q \in Seq(Foreign) /\ Len(nodes) + Len(q) <= MAX_NODES
    BY <1>5
  <2> HIDE DEF q
  <2>2. q \in Seq(Ids) /\ nodes \in Seq(Ids)
    BY <1>1, <2>1 DEF TypeOK, Ids
  <2>3. nodes \o q \in Seq(Ids) /\ Range(nodes \o q) = Range(nodes) \cup Range(q)
    BY <2>2, ConcatRange
  <2>4. Len(nodes \o q) = Len(nodes) + Len(q)
    BY <2>2, ConcatProperties
  <2>5. nodes' = nodes \o q
    BY <1>2 DEF q
  <2>6. Live' = Live \cup Range(q)
    BY <2>3, <2>5 DEF Live
  <2> QED
    BY <2>1, <2>3, <2>4, <2>5, <2>6 DEF q
<1>10. parent' \in [Ids -> Ids \cup {NoId}]
  <2> DEFINE new(i) == LET into == Kept(added, {e \in Edge : e.to = i /\ e.kind = "causal"})
                       IN  IF into = <<>> THEN parent[i] ELSE Last(into).from
  <2>1. parent' = [i \in Ids |-> new(i)]
    BY DEF EndWithSubgraph
  <2>2. ASSUME NEW i \in Ids
        PROVE  new(i) \in Ids \cup {NoId}
    <3> HIDE DEF added
    <3> QED
      BY <1>1, <1>7, MergedParents
  <2> HIDE DEF new
  <2> QED
    BY <2>1, <2>2
<1> HIDE DEF added, data
<1>11. edges' \in Seq(Edge) /\ Range(edges') = (Range(edges) \cup Range(added)) \cup Range(data)
  <2>1. edges \in Seq(Edge) /\ data \in Seq(Edge)
    BY <1>1, DataEdgesEffect DEF TypeOK, data
  <2> DEFINE c == edges \o added
  <2>2. c \in Seq(Edge) /\ Range(c) = Range(edges) \cup Range(added)
    BY <1>7, <2>1, ConcatRange
  <2>3. edges' = c \o data
    BY <1>2
  <2> HIDE DEF c
  <2>4. c \o data \in Seq(Edge) /\ Range(c \o data) = Range(c) \cup Range(data)
    BY <2>1, <2>2, ConcatRange
  <2> QED
    BY <2>2, <2>3, <2>4
<1>12. TypeOK'
  BY <1>1, <1>3, <1>4, <1>9, <1>10, <1>11 DEF TypeOK
<1>13. Accounted'
  BY <1>1, <1>3, <1>4, <1>9 DEF Accounted
<1>14. DanglingExplained'
  <2> SUFFICES ASSUME NEW e \in Range(edges')
               PROVE  \/ {e.from, e.to} \subseteq Live'
                      \/ {e.from, e.to} \cap forgotten # {}
                      \/ e.from \in evictedIds /\ e.to \in Foreign
    BY <1>4 DEF DanglingExplained
  <2>1. CASE e \in Range(edges)
    BY <1>1, <1>9, <2>1 DEF DanglingExplained
  <2>2. CASE e \in Range(data)
    BY <1>3, <1>9, <2>2, DataEdgesExplained DEF data
  <2>3. CASE e \in Range(IncomingEdges(g))
    BY <1>5, <1>9, <2>3
  <2>4. CASE e \in Range(Stitches(o, g))
    <3>1. e.from = o /\ e.to \in Range(Incoming(g))
      BY <1>6, <2>4
    <3>2. o \in Live \cup evictedIds \cup forgotten
      BY <1>1, <1>3 DEF Accounted
    <3> QED
      BY <1>8, <1>9, <3>1, <3>2
  <2> QED
    BY <1>7, <1>11, <2>1, <2>2, <2>3, <2>4
<1> QED
  BY <1>3, <1>12, <1>13, <1>14 DEF IInv

-----------------------------------------------------------------------------
(* The theorems *)

LEMMA InvariantKept == IInv /\ [Next]_vars => IInv'
<1> SUFFICES ASSUME IInv, [Next]_vars
             PROVE  IInv'
  OBVIOUS
<1>1. CASE \E o \in Ops : \E from \in {{}} \cup {{f} : f \in Begun \ Range(open)} :
             RecordOp(o, from)
  BY <1>1, RecordKept
<1>2. CASE \E o \in Ops : EndOp(o)
  BY <1>2, EndOpKept
<1>3. CASE \E o \in Ops, g \in ForeignGraphs : EndWithSubgraph(o, g)
  BY <1>3, MergeKept
<1>4. CASE UNCHANGED vars
  BY <1>4 DEF vars, IInv, TypeOK, Known, Accounted, DanglingExplained, Nesting, Outer, Live, Begun
<1> QED
  BY <1>1, <1>2, <1>3, <1>4 DEF Next

LEMMA InvariantAlways == Spec => []IInv
  BY InvariantHolds, InvariantKept, PTL DEF Spec

\* The buffer stays within MAX_NODES and evictedIds within its cap, and every
\* entry refers to an id of the right kind.
THEOREM TypeCorrect == Spec => []TypeOK
  BY InvariantAlways, PTL DEF IInv

\* As long as operations end innermost first, a new operation hangs on the
\* innermost open one, also after that one was evicted.
THEOREM InnermostIsCurrent == Spec => []CurrentIsInnermost
<1>1. IInv => CurrentIsInnermost
  BY DEF IInv, Nesting, CurrentIsInnermost
<1> QED
  BY InvariantAlways, <1>1, PTL

\* No edge of the buffer dangles but for the two reasons that the code accepts.
THEOREM DanglingIsExplained == Spec => []DanglingExplained
  BY InvariantAlways, PTL DEF IInv

-----------------------------------------------------------------------------
(* The search of extractSubgraph *)

\* What a search may have included so far, and what it may have after that.
Grown == {ids \in Seq(Ids) : IsInjective(ids) /\ Len(ids) <= MAX_NODES}
Extends(ids, r) ==
  /\ ids \in Grown /\ r \in Grown /\ Len(ids) <= Len(r)
  /\ \A k \in 1 .. Len(ids) : r[k] = ids[k]

LEMMA GrownSeq ==
  ASSUME NEW ids \in Grown
  PROVE  /\ Len(ids) \in Nat /\ DOMAIN ids = 1 .. Len(ids) /\ Range(ids) \subseteq Ids
         /\ \A k \in 1 .. Len(ids) : ids[k] \in Ids /\ ids[k] \in Range(ids)
<1>1. ids \in Seq(Ids)
  BY DEF Grown
<1>2. Len(ids) \in Nat /\ DOMAIN ids = 1 .. Len(ids) /\ \A k \in 1 .. Len(ids) : ids[k] \in Ids
  BY <1>1, LenProperties, ElementOfSeq
<1> QED
  BY <1>2 DEF Range

LEMMA ExtendsFurther ==
  ASSUME NEW ids, NEW r, Extends(ids, r)
  PROVE  /\ Range(ids) \subseteq Range(r)
         /\ \A q : Extends(r, q) => Extends(ids, q)
<1>1. ids \in Grown /\ r \in Grown /\ Len(ids) <= Len(r) /\ \A k \in 1 .. Len(ids) : r[k] = ids[k]
  BY DEF Extends
<1>2. /\ Len(ids) \in Nat /\ DOMAIN ids = 1 .. Len(ids)
      /\ Len(r) \in Nat /\ DOMAIN r = 1 .. Len(r)
  BY <1>1, GrownSeq
<1>3. Range(ids) \subseteq Range(r)
  BY <1>1, <1>2 DEF Range
<1>4. ASSUME NEW q, Extends(r, q)
      PROVE  Extends(ids, q)
  <2>1. q \in Grown /\ Len(r) <= Len(q) /\ \A k \in 1 .. Len(r) : q[k] = r[k]
    BY <1>4 DEF Extends
  <2>2. Len(q) \in Nat
    BY <2>1, GrownSeq
  <2> QED
    BY <1>1, <1>2, <2>1, <2>2 DEF Extends
<1> QED
  BY <1>3, <1>4

\* Steps that each extend what was included.
LEMMA GrowsAlong ==
  ASSUME NEW N \in Nat, NEW c, c[0] \in Grown,
         \A n \in 1 .. N : c[n - 1] \in Grown => Extends(c[n - 1], c[n])
  PROVE  \A n \in 0 .. N : c[n] \in Grown /\ \A m \in 0 .. n : Extends(c[m], c[n])
<1> DEFINE I == {n \in 0 .. N : c[n] \in Grown /\ \A m \in 0 .. n : Extends(c[m], c[n])}
<1>1. \A ids \in Grown : Extends(ids, ids)
  BY GrownSeq DEF Extends
<1>2. 0 \in I
  BY <1>1
<1>3. ASSUME NEW n \in 0 .. N - 1, n \in I
      PROVE  n + 1 \in I
  <2>1. n + 1 \in 1 .. N /\ (n + 1) - 1 = n /\ n \in Nat /\ c[n] \in Grown
    BY <1>3
  <2>2. Extends(c[n], c[n + 1])
    BY <2>1
  <2>3. c[n + 1] \in Grown
    BY <2>2 DEF Extends
  <2>4. ASSUME NEW m \in 0 .. n + 1
        PROVE  Extends(c[m], c[n + 1])
    <3>1. CASE m = n + 1
      BY <1>1, <2>3, <3>1
    <3>2. CASE m # n + 1
      <4>1. m \in 0 .. n
        BY <2>1, <3>2
      <4>2. Extends(c[m], c[n])
        BY <1>3, <4>1
      <4> QED
        BY <2>2, <4>2, ExtendsFurther
    <3> QED
      BY <3>1, <3>2
  <2> QED
    BY <2>1, <2>3, <2>4
<1>4. 0 .. N \subseteq I
  <2> HIDE DEF I
  <2> QED
    BY <1>2, <1>3, IndexInduction
<1> QED
  BY <1>4

\* An id is included unless maxNodes are.
LEMMA IncludeEffect ==
  ASSUME NEW ids \in Grown, NEW id \in Ids
  PROVE  /\ Extends(ids, Include(ids, id))
         /\ Len(Include(ids, id)) < MAX_NODES => id \in Range(Include(ids, id))
<1>1. ids \in Seq(Ids) /\ IsInjective(ids) /\ Len(ids) <= MAX_NODES
  BY DEF Grown
<1>2. Len(ids) \in Nat /\ MAX_NODES \in Nat
  BY GrownSeq, CausalGraphAssumption
<1>3. CASE id \in Range(ids) \/ Len(ids) >= MAX_NODES
  <2>1. Include(ids, id) = ids
    BY <1>3 DEF Include
  <2> QED
    BY <1>2, <1>3, <2>1 DEF Extends
<1>4. CASE id \notin Range(ids) /\ ~(Len(ids) >= MAX_NODES)
  <2> DEFINE r == Append(ids, id)
  <2>1. Include(ids, id) = r
    BY <1>4 DEF Include
  <2>2. r \in Seq(Ids) /\ Range(r) = Range(ids) \cup {id} /\ IsInjective(r)
    BY <1>1, <1>4, AppendNew
  <2>3. Len(r) = Len(ids) + 1 /\ \A k \in 1 .. Len(ids) : r[k] = ids[k]
    BY <1>1, AppendProperties
  <2> HIDE DEF r
  <2>4. r \in Grown
    BY <1>2, <1>4, <2>2, <2>3 DEF Grown
  <2> QED
    BY <1>2, <2>1, <2>2, <2>3, <2>4 DEF Extends
<1> QED
  BY <1>3, <1>4

LEMMA IncludeAllEffect ==
  ASSUME NEW ids \in Grown, NEW s \in Seq(Ids)
  PROVE  /\ Extends(ids, IncludeAll(ids, s))
         /\ Len(IncludeAll(ids, s)) < MAX_NODES => Range(s) \subseteq Range(IncludeAll(ids, s))
<1> DEFINE N == Len(s)
           step == [n \in 1 .. N |-> [a \in Grown |-> Include(a, s[n])]]
<1>1. N \in Nat /\ DOMAIN s = 1 .. N /\ \A n \in 1 .. N : s[n] \in Ids
  BY LenProperties, ElementOfSeq
<1>2. \A n \in 1 .. N : \A a \in Grown : Include(a, s[n]) \in Grown
  BY <1>1, IncludeEffect DEF Extends
<1>3. step \in StepFunctions(N, Grown) /\ \A n \in 1 .. N : \A a \in Grown : step[n][a] = Include(a, s[n])
  BY <1>2 DEF StepFunctions
<1> HIDE DEF step
<1>4. \E f : Iterates(f, N, Grown, ids, step)
  <2> HIDE DEF N
  <2> QED
    BY <1>1, <1>3, Iterated
<1>5. PICK f : Iterates(f, N, Grown, ids, step)
  BY <1>4
<1>6. /\ f \in [0 .. N -> Grown] /\ f[0] = ids
      /\ \A n \in 1 .. N : f[n] = step[n][f[n - 1]]
  BY <1>5 DEF Iterates
<1>7. ASSUME NEW n \in 1 .. N
      PROVE  f[n] = Include(f[n - 1], s[n])
  <2>1. n - 1 \in 0 .. N
    BY <1>1
  <2>2. f[n - 1] \in Grown
    BY <1>6, <2>1
  <2> QED
    BY <1>3, <1>6, <2>2
<1> DEFINE R(k) == [n \in 0 .. Len(s) |-> IF n = 0 THEN ids ELSE Include(k[n - 1], s[n])]
           c == CHOOSE k : k = R(k)
<1>8. f = R(f)
  <2> DEFINE r == R(f)
  <2>1. ASSUME NEW n \in 0 .. N
        PROVE  f[n] = r[n]
    <3>1. r[n] = IF n = 0 THEN ids ELSE Include(f[n - 1], s[n])
      OBVIOUS
    <3> HIDE DEF r
    <3>2. n = 0 \/ n \in 1 .. N
      BY <1>1
    <3> QED
      BY <1>1, <1>6, <1>7, <3>1, <3>2
  <2>2. r = [n \in 0 .. N |-> r[n]] /\ f = [n \in 0 .. N |-> f[n]]
    BY <1>6
  <2> HIDE DEF r
  <2>3. f = r
    BY <2>1, <2>2
  <2> QED
    BY <2>3 DEF r
<1>9. c = R(c)
  BY <1>8
<1>10. IncludeAll(ids, s) = c[N]
  BY DEF IncludeAll
<1> HIDE DEF c
<1>11. c[0] = ids /\ \A n \in 1 .. N : c[n] = Include(c[n - 1], s[n])
  BY <1>1, <1>9
<1> HIDE DEF N
<1>12. \A n \in 1 .. N : c[n - 1] \in Grown => Extends(c[n - 1], c[n])
  BY <1>1, <1>11, IncludeEffect
<1>13. \A n \in 0 .. N : c[n] \in Grown /\ \A m \in 0 .. n : Extends(c[m], c[n])
  BY <1>1, <1>11, <1>12, GrowsAlong
<1>14. Extends(ids, c[N])
  BY <1>1, <1>11, <1>13
<1>15. ASSUME Len(c[N]) < MAX_NODES, NEW n \in 1 .. N
       PROVE  s[n] \in Range(c[N])
  <2>1. n - 1 \in 0 .. N /\ n \in 0 .. N /\ N \in 0 .. N /\ n \in 0 .. N
    BY <1>1
  <2>2. c[n - 1] \in Grown /\ s[n] \in Ids /\ c[n] = Include(c[n - 1], s[n]) /\ Extends(c[n], c[N])
    BY <1>1, <1>11, <1>13, <2>1
  <2>3. Len(c[n]) <= Len(c[N]) /\ Len(c[n]) \in Nat /\ Len(c[N]) \in Nat
    BY <2>2, GrownSeq DEF Extends
  <2>4. Len(c[n]) < MAX_NODES
    BY <1>15, <2>3, CausalGraphAssumption
  <2>5. s[n] \in Range(c[n])
    BY <2>2, <2>4, IncludeEffect
  <2> QED
    BY <2>2, <2>5, ExtendsFurther
<1> QED
  BY <1>1, <1>10, <1>14, <1>15 DEF Range

\* What is next to an id are ids, its parent among them.
LEMMA NeighboursEffect ==
  ASSUME TypeOK, NEW id \in Ids
  PROVE  /\ Neighbours(id) \in Seq(Ids)
         /\ parent[id] # NoId => parent[id] \in Range(Neighbours(id))
<1> DEFINE S == {e \in Edge : id \in {e.from, e.to}}
           near == Kept(edges, S)
           ends == [k \in DOMAIN near |-> IF near[k].from = id THEN near[k].to ELSE near[k].from]
           up == IF parent[id] = NoId THEN <<>> ELSE <<parent[id]>>
<1>1. edges \in Seq(Edge) /\ parent[id] \in Ids \cup {NoId}
  BY DEF TypeOK
<1>2. near \in Seq(Edge)
  BY <1>1, KeptEffect
<1>3. Neighbours(id) = up \o ends
  BY DEF Neighbours
<1> HIDE DEF near
<1>4. ends \in Seq(Ids)
  <2>1. Len(near) \in Nat /\ DOMAIN near = 1 .. Len(near) /\ \A k \in 1 .. Len(near) : near[k] \in Edge
    BY <1>2, LenProperties, ElementOfSeq
  <2>2. ends \in [1 .. Len(near) -> Ids]
    BY <2>1 DEF Edge
  <2> HIDE DEF ends
  <2> QED
    BY <2>1, <2>2, FunctionIsSeq
<1> HIDE DEF ends
<1>5. up \in Seq(Ids) /\ (parent[id] # NoId => parent[id] \in Range(up))
  <2>1. CASE parent[id] = NoId
    BY <2>1, EmptySeq
  <2>2. CASE parent[id] # NoId
    <3>1. parent[id] \in Ids /\ up = <<parent[id]>>
      BY <1>1, <2>2
    <3>2. up \in Seq(Ids) /\ 1 \in DOMAIN up /\ up[1] = parent[id]
      BY <3>1
    <3> QED
      BY <3>2 DEF Range
  <2> QED
    BY <2>1, <2>2
<1> HIDE DEF up
<1>6. up \o ends \in Seq(Ids) /\ Range(up) \subseteq Range(up \o ends)
  BY <1>4, <1>5, ConcatRange
<1> QED
  BY <1>3, <1>5, <1>6

\* The states of a search.
Searches == {s \in [ids : Grown, seen : Nat] : s.seen <= Len(s.ids)}

\* The neighbours of the frontier are included, as long as there is room.
LEMMA DeepenEffect ==
  ASSUME TypeOK, NEW s \in Searches
  PROVE  LET r == Deepen(s)
         IN  /\ r \in Searches /\ Extends(s.ids, r.ids) /\ r.seen = Len(s.ids)
             /\ Len(r.ids) < MAX_NODES =>
                  \A k \in s.seen + 1 .. Len(s.ids) :
                    Range(Neighbours(s.ids[k])) \subseteq Range(r.ids)
<1> DEFINE F == SubSeq(s.ids, s.seen + 1, Len(s.ids))
           N == Len(F)
           more(n, a) == IncludeAll(a, Neighbours(F[n]))
           step == [n \in 1 .. N |-> [a \in Grown |-> more(n, a)]]
<1>0. s.ids \in Grown /\ s.seen \in Nat /\ s.seen <= Len(s.ids) /\ s.ids \in Seq(Ids)
  BY DEF Searches, Grown
<1>1. /\ Len(s.ids) \in Nat /\ F \in Seq(Ids) /\ N = Len(s.ids) - s.seen
      /\ \A n \in 1 .. N : F[n] = s.ids[s.seen + n]
  <2>1. Len(s.ids) \in Nat /\ \A k \in 1 .. Len(s.ids) : s.ids[k] \in Ids
    BY <1>0, GrownSeq
  <2>2. s.seen + 1 \in Int /\ \A k \in s.seen + 1 .. Len(s.ids) : s.ids[k] \in Ids
    BY <1>0, <2>1
  <2> DEFINE ids == s.ids
             seen == s.seen
  <2>3. ids \in Seq(Ids) /\ seen \in Nat /\ seen <= Len(ids) /\ Len(ids) \in Nat
        /\ \A k \in seen + 1 .. Len(ids) : ids[k] \in Ids
    BY <1>0, <2>1, <2>2
  <2> HIDE DEF ids, seen
  <2>4. LET G == SubSeq(ids, seen + 1, Len(ids))
        IN  G \in Seq(Ids) /\ Len(G) = Len(ids) - seen
            /\ \A n \in 1 .. Len(G) : G[n] = ids[seen + n]
    BY <2>3
  <2> QED
    BY <2>1, <2>4 DEF ids, seen
<1>2. N \in Nat /\ \A n \in 1 .. N : F[n] \in Ids /\ Neighbours(F[n]) \in Seq(Ids)
  BY <1>1, LenProperties, ElementOfSeq, NeighboursEffect
<1>3. Deepen(s).seen = Len(s.ids)
  BY DEF Deepen
<1> DEFINE R(k) == [n \in 0 .. Len(F) |->
                      IF n = 0 THEN s.ids ELSE IncludeAll(k[n - 1], Neighbours(F[n]))]
           c == CHOOSE k : k = R(k)
<1>4. Deepen(s) = [ids |-> c[N], seen |-> Len(s.ids)]
  BY DEF Deepen
<1> HIDE DEF F, N
<1>5. \A n \in 1 .. N : \A a \in Grown : more(n, a) \in Grown
  BY <1>2, IncludeAllEffect DEF Extends
<1>6. step \in StepFunctions(N, Grown) /\ \A n \in 1 .. N : \A a \in Grown : step[n][a] = more(n, a)
  BY <1>5 DEF StepFunctions
<1> HIDE DEF step
<1>7. \E f : Iterates(f, N, Grown, s.ids, step)
  <2> DEFINE base == s.ids
  <2>1. base \in Grown
    BY <1>0
  <2> HIDE DEF base
  <2>2. \E f : Iterates(f, N, Grown, base, step)
    BY <1>2, <1>6, <2>1, Iterated
  <2> QED
    BY <2>2 DEF base
<1>8. PICK f : Iterates(f, N, Grown, s.ids, step)
  BY <1>7
<1>9. /\ f \in [0 .. N -> Grown] /\ f[0] = s.ids
      /\ \A n \in 1 .. N : f[n] = step[n][f[n - 1]]
  BY <1>8 DEF Iterates
<1>10. ASSUME NEW n \in 1 .. N
       PROVE  f[n] = IncludeAll(f[n - 1], Neighbours(F[n]))
  <2>1. n - 1 \in 0 .. N
    BY <1>2
  <2>2. f[n - 1] \in Grown
    BY <1>9, <2>1
  <2> QED
    BY <1>6, <1>9, <2>2
<1>11. f = R(f)
  <2> DEFINE r == R(f)
  <2>1. ASSUME NEW n \in 0 .. N
        PROVE  f[n] = r[n]
    <3>1. r[n] = IF n = 0 THEN s.ids ELSE IncludeAll(f[n - 1], Neighbours(F[n]))
      BY DEF N
    <3> HIDE DEF r
    <3>2. n = 0 \/ n \in 1 .. N
      BY <1>2
    <3> QED
      BY <1>2, <1>9, <1>10, <3>1, <3>2
  <2>2. r = [n \in 0 .. N |-> r[n]] /\ f = [n \in 0 .. N |-> f[n]]
    BY <1>9 DEF N
  <2> HIDE DEF r
  <2>3. f = r
    BY <2>1, <2>2
  <2> QED
    BY <2>3 DEF r
<1>12. c = R(c)
  BY <1>11
<1> HIDE DEF c
<1>13. c[0] = s.ids /\ \A n \in 1 .. N : c[n] = IncludeAll(c[n - 1], Neighbours(F[n]))
  BY <1>2, <1>12 DEF N
<1>14. \A n \in 1 .. N : c[n - 1] \in Grown => Extends(c[n - 1], c[n])
  BY <1>2, <1>13, IncludeAllEffect
<1>15. \A n \in 0 .. N : c[n] \in Grown /\ \A m \in 0 .. n : Extends(c[m], c[n])
  <2>1. c[0] \in Grown
    BY <1>0, <1>13
  <2> QED
    BY <1>2, <1>14, <2>1, GrowsAlong
<1>16. c[N] \in Grown /\ Extends(s.ids, c[N])
  BY <1>2, <1>13, <1>15
<1>17. ASSUME Len(c[N]) < MAX_NODES, NEW k \in s.seen + 1 .. Len(s.ids)
       PROVE  Range(Neighbours(s.ids[k])) \subseteq Range(c[N])
  <2> DEFINE n == k - s.seen
  <2>1. n \in 1 .. N /\ s.ids[k] = F[n]
    <3>1. n \in 1 .. N /\ s.seen + n = k
      BY <1>0, <1>1 DEF N
    <3> QED
      BY <1>1, <3>1 DEF N
  <2> HIDE DEF n
  <2>2. n - 1 \in 0 .. N /\ n \in 0 .. N /\ N \in 0 .. N
    BY <1>2, <2>1
  <2>3. c[n - 1] \in Grown /\ Extends(c[n], c[N]) /\ c[n] = IncludeAll(c[n - 1], Neighbours(F[n]))
    BY <1>13, <1>15, <2>1, <2>2
  <2>4. Len(c[n]) <= Len(c[N]) /\ Len(c[n]) \in Nat /\ Len(c[N]) \in Nat
    BY <2>3, GrownSeq DEF Extends
  <2>5. Len(c[n]) < MAX_NODES
    BY <1>17, <2>4, CausalGraphAssumption
  <2>6. Range(Neighbours(F[n])) \subseteq Range(c[n])
    BY <1>2, <2>1, <2>3, <2>5, IncludeAllEffect
  <2> QED
    BY <2>1, <2>3, <2>6, ExtendsFurther
<1>18. Deepen(s) \in Searches
  <2>1. Len(s.ids) <= Len(c[N]) /\ Len(s.ids) \in Nat
    BY <1>1, <1>16 DEF Extends
  <2> QED
    BY <1>4, <1>16, <2>1 DEF Searches
<1> QED
  BY <1>3, <1>4, <1>16, <1>17, <1>18

\* A search starts at an id.
LEMMA StartsAtId ==
  ASSUME TypeOK, nodes # <<>>
  PROVE  Start \in Ids
<1>1. nodes \in Seq(Ids) /\ current \in Ids \cup {NoId} /\ lastSibling[NoId] \in Ids \cup {NoId}
  BY DEF TypeOK, Ids
<1>2. Last(nodes) \in Ids
  <2>1. Len(nodes) \in Nat /\ Len(nodes) # 0
    BY <1>1, LenProperties, EmptySeq
  <2>2. Len(nodes) \in 1 .. Len(nodes)
    BY <2>1
  <2> QED
    BY <1>1, <2>2, ElementOfSeq DEF Last
<1> QED
  BY <1>1, <1>2 DEF Start

\* Each level of the search is one Deepen.
LEMMA SearchLevels ==
  ASSUME TypeOK, nodes # <<>>
  PROVE  /\ Search[0] = [ids |-> <<Start>>, seen |-> 0]
         /\ \A d \in 0 .. MaxDepth : Search[d] \in Searches
         /\ \A d \in 1 .. MaxDepth : Search[d] = Deepen(Search[d - 1])
<1> DEFINE N == MaxDepth
           step == [n \in 1 .. N |-> [a \in Searches |-> Deepen(a)]]
           first == [ids |-> <<Start>>, seen |-> 0]
<1>1. N \in Nat
  BY CausalGraphAssumption
<1>2. first \in Searches
  <2>1. Start \in Ids
    BY StartsAtId
  <2>2. <<Start>> \in Seq(Ids) /\ Len(<<Start>>) = 1 /\ IsInjective(<<Start>>)
    BY <2>1 DEF IsInjective
  <2>3. <<Start>> \in Grown
    BY <2>2, CausalGraphAssumption DEF Grown
  <2> QED
    BY <2>2, <2>3 DEF Searches
<1>3. \A s \in Searches : Deepen(s) \in Searches
  BY DeepenEffect
<1>4. step \in StepFunctions(N, Searches) /\ \A n \in 1 .. N : \A a \in Searches : step[n][a] = Deepen(a)
  BY <1>3 DEF StepFunctions
<1> HIDE DEF step, first
<1>5. \E f : Iterates(f, N, Searches, first, step)
  <2> HIDE DEF N
  <2> QED
    BY <1>1, <1>2, <1>4, Iterated
<1>6. PICK f : Iterates(f, N, Searches, first, step)
  BY <1>5
<1>7. /\ f \in [0 .. N -> Searches] /\ f[0] = first
      /\ \A n \in 1 .. N : f[n] = step[n][f[n - 1]]
  BY <1>6 DEF Iterates
<1>8. ASSUME NEW n \in 1 .. N
      PROVE  f[n] = Deepen(f[n - 1])
  <2>1. n - 1 \in 0 .. N
    BY <1>1
  <2>2. f[n - 1] \in Searches
    BY <1>7, <2>1
  <2> QED
    BY <1>4, <1>7, <2>2
<1> DEFINE R(k) == [d \in 0 .. MaxDepth |->
                      IF d = 0 THEN [ids |-> <<Start>>, seen |-> 0] ELSE Deepen(k[d - 1])]
<1>9. f = R(f)
  <2> DEFINE r == R(f)
  <2>1. ASSUME NEW n \in 0 .. N
        PROVE  f[n] = r[n]
    <3>1. r[n] = IF n = 0 THEN first ELSE Deepen(f[n - 1])
      BY DEF first
    <3> HIDE DEF r
    <3>2. n = 0 \/ n \in 1 .. N
      BY <1>1
    <3> QED
      BY <1>1, <1>7, <1>8, <3>1, <3>2
  <2>2. r = [n \in 0 .. N |-> r[n]] /\ f = [n \in 0 .. N |-> f[n]]
    BY <1>7
  <2> HIDE DEF r
  <2>3. f = r
    BY <2>1, <2>2
  <2> QED
    BY <2>3 DEF r
<1>10. Search = R(Search)
  <2>1. Search = CHOOSE k : k = R(k)
    BY DEF Search
  <2> DEFINE c == CHOOSE k : k = R(k)
  <2>2. c = R(c)
    BY <1>9
  <2>3. Search = c
    BY <2>1
  <2> HIDE DEF c
  <2> QED
    BY <2>2, <2>3
<1>11. Search[0] = first /\ \A d \in 1 .. N : Search[d] = Deepen(Search[d - 1])
  BY <1>1, <1>10 DEF first
<1>12. \A d \in 0 .. N : Search[d] \in Searches
  <2> DEFINE I == {d \in 0 .. N : Search[d] \in Searches}
  <2>1. 0 \in I
    BY <1>1, <1>2, <1>11
  <2>2. ASSUME NEW d \in 0 .. N - 1, d \in I
        PROVE  d + 1 \in I
    <3>1. d + 1 \in 1 .. N /\ (d + 1) - 1 = d
      BY <1>1
    <3> QED
      BY <1>3, <1>11, <2>2, <3>1
  <2>3. 0 .. N \subseteq I
    <3> HIDE DEF I, N
    <3> QED
      BY <1>1, <2>1, <2>2, IndexInduction
  <2> QED
    BY <2>3
<1> QED
  BY <1>11, <1>12 DEF first

\* What is included at a level stays included.
LEMMA SearchGrows ==
  ASSUME TypeOK, nodes # <<>>, NEW d \in 0 .. MaxDepth, NEW m \in 0 .. d
  PROVE  Extends(Search[m].ids, Search[d].ids)
<1> DEFINE c == [n \in 0 .. MaxDepth |-> Search[n].ids]
<1>1. MaxDepth \in Nat
  BY CausalGraphAssumption
<1>2. \A n \in 0 .. MaxDepth : c[n] = Search[n].ids
  OBVIOUS
<1> HIDE DEF c
<1>3. c[0] \in Grown
  <2>1. 0 \in 0 .. MaxDepth
    BY <1>1
  <2> QED
    BY <1>2, <2>1, SearchLevels DEF Searches
<1>4. ASSUME NEW n \in 1 .. MaxDepth
      PROVE  Extends(c[n - 1], c[n])
  <2>1. n - 1 \in 0 .. MaxDepth /\ n \in 0 .. MaxDepth
    BY <1>1
  <2>2. Search[n - 1] \in Searches /\ Search[n] = Deepen(Search[n - 1])
    BY <2>1, SearchLevels
  <2>3. Extends(Search[n - 1].ids, Search[n].ids)
    BY <2>2, DeepenEffect
  <2> QED
    BY <1>2, <2>1, <2>3
<1>5. Extends(c[m], c[d])
  BY <1>1, <1>3, <1>4, GrowsAlong
<1>6. m \in 0 .. MaxDepth
  BY <1>1
<1> QED
  BY <1>2, <1>5, <1>6

\* A search with room left has looked at all that is next to what it has seen.
LEMMA SeenIsSearched ==
  ASSUME TypeOK, nodes # <<>>, Len(Included) < MAX_NODES, NEW d \in 0 .. MaxDepth
  PROVE  \A k \in 1 .. Search[d].seen :
           Range(Neighbours(Search[d].ids[k])) \subseteq Range(Search[d].ids)
<1> DEFINE Q(n) == \A k \in 1 .. Search[n].seen :
                     Range(Neighbours(Search[n].ids[k])) \subseteq Range(Search[n].ids)
           I == {n \in 0 .. MaxDepth : Q(n)}
<1>1. MaxDepth \in Nat /\ MAX_NODES \in Nat
  BY CausalGraphAssumption
<1>2. Q(0)
  <2>1. Search[0].seen = 0
    BY SearchLevels
  <2> QED
    BY <2>1
<1>3. ASSUME NEW n \in 0 .. MaxDepth - 1, Q(n)
      PROVE  Q(n + 1)
  <2>1. n + 1 \in 1 .. MaxDepth /\ (n + 1) - 1 = n /\ n \in 0 .. MaxDepth /\ n + 1 \in 0 .. MaxDepth
        /\ MaxDepth \in 0 .. MaxDepth
    BY <1>1
  <2> DEFINE s == Search[n]
             r == Search[n + 1]
  <2>2. s \in Searches /\ r = Deepen(s)
    BY <2>1, SearchLevels
  <2>3. Extends(r.ids, Included)
    BY <2>1, SearchGrows DEF Included
  <2>4. Len(r.ids) < MAX_NODES
    <3>1. Len(r.ids) <= Len(Included) /\ Len(r.ids) \in Nat /\ Len(Included) \in Nat
      BY <2>3, GrownSeq DEF Extends
    <3> QED
      BY <1>1, <3>1
  <2> HIDE DEF r
  <2>5. /\ Extends(s.ids, r.ids) /\ r.seen = Len(s.ids)
        /\ \A k \in s.seen + 1 .. Len(s.ids) :
             Range(Neighbours(s.ids[k])) \subseteq Range(r.ids)
    BY <2>2, <2>4, DeepenEffect
  <2>6. \A k \in 1 .. s.seen : Range(Neighbours(s.ids[k])) \subseteq Range(s.ids)
    BY <1>3
  <2> HIDE DEF s
  <2>7. s.ids \in Grown /\ s.seen \in Nat /\ s.seen <= Len(s.ids) /\ Len(s.ids) \in Nat
    BY <2>2, GrownSeq DEF Searches
  <2>8. Range(s.ids) \subseteq Range(r.ids) /\ \A k \in 1 .. Len(s.ids) : r.ids[k] = s.ids[k]
    BY <2>5, ExtendsFurther DEF Extends
  <2>9. ASSUME NEW k \in 1 .. r.seen
        PROVE  Range(Neighbours(r.ids[k])) \subseteq Range(r.ids)
    <3>1. k \in 1 .. Len(s.ids) /\ r.ids[k] = s.ids[k]
      BY <2>5, <2>8
    <3>2. k \in 1 .. s.seen \/ k \in s.seen + 1 .. Len(s.ids)
      BY <2>7, <3>1
    <3> QED
      BY <2>5, <2>6, <2>8, <3>1, <3>2
  <2> QED
    BY <2>9 DEF r
<1> HIDE DEF Q
<1>4. 0 .. MaxDepth \subseteq I
  <2>1. 0 \in I /\ \A n \in 0 .. MaxDepth - 1 : n \in I => n + 1 \in I
    BY <1>1, <1>2, <1>3
  <2> HIDE DEF I
  <2> QED
    BY <1>1, <2>1, IndexInduction
<1>5. Q(d)
  BY <1>4
<1> QED
  BY <1>5 DEF Q

\* Each level goes one parent up, as long as it is in the buffer.
LEMMA AncestorLevels ==
  ASSUME TypeOK, nodes # <<>>
  PROVE  /\ Ancestor[0] = Start
         /\ \A d \in 0 .. MaxDepth : Ancestor[d] \in Ids
         /\ \A d \in 1 .. MaxDepth :
              Ancestor[d] = IF parent[Ancestor[d - 1]] \in Live THEN parent[Ancestor[d - 1]]
                            ELSE Ancestor[d - 1]
<1> DEFINE N == MaxDepth
           up(a) == IF parent[a] \in Live THEN parent[a] ELSE a
           step == [n \in 1 .. N |-> [a \in Ids |-> up(a)]]
<1>1. N \in Nat /\ Start \in Ids
  BY CausalGraphAssumption, StartsAtId
<1>2. \A a \in Ids : up(a) \in Ids
  <2>1. Live \subseteq Ids
    <3>1. nodes \in Seq(Ids)
      BY DEF TypeOK
    <3> QED
      BY <3>1, LenProperties, ElementOfSeq DEF Live, Range
  <2> QED
    BY <2>1
<1>3. step \in StepFunctions(N, Ids) /\ \A n \in 1 .. N : \A a \in Ids : step[n][a] = up(a)
  BY <1>2 DEF StepFunctions
<1> HIDE DEF step
<1>4. \E f : Iterates(f, N, Ids, Start, step)
  <2> DEFINE base == Start
  <2>1. base \in Ids
    BY <1>1
  <2> HIDE DEF N, base
  <2>2. \E f : Iterates(f, N, Ids, base, step)
    BY <1>1, <1>3, <2>1, Iterated
  <2> QED
    BY <2>2 DEF base
<1>5. PICK f : Iterates(f, N, Ids, Start, step)
  BY <1>4
<1>6. /\ f \in [0 .. N -> Ids] /\ f[0] = Start
      /\ \A n \in 1 .. N : f[n] = step[n][f[n - 1]]
  BY <1>5 DEF Iterates
<1>7. ASSUME NEW n \in 1 .. N
      PROVE  f[n] = up(f[n - 1])
  <2>1. n - 1 \in 0 .. N
    BY <1>1
  <2>2. f[n - 1] \in Ids
    BY <1>6, <2>1
  <2> QED
    BY <1>3, <1>6, <2>2
<1> DEFINE R(k) == [d \in 0 .. MaxDepth |->
                      IF d = 0 THEN Start
                      ELSE LET p == parent[k[d - 1]] IN IF p \in Live THEN p ELSE k[d - 1]]
<1>8. f = R(f)
  <2> DEFINE r == R(f)
  <2>1. ASSUME NEW n \in 0 .. N
        PROVE  f[n] = r[n]
    <3>1. r[n] = IF n = 0 THEN Start ELSE up(f[n - 1])
      OBVIOUS
    <3> HIDE DEF r
    <3>2. n = 0 \/ n \in 1 .. N
      BY <1>1
    <3> QED
      BY <1>1, <1>6, <1>7, <3>1, <3>2
  <2>2. r = [n \in 0 .. N |-> r[n]] /\ f = [n \in 0 .. N |-> f[n]]
    BY <1>6
  <2> HIDE DEF r
  <2>3. f = r
    BY <2>1, <2>2
  <2> QED
    BY <2>3 DEF r
<1>9. Ancestor = R(Ancestor)
  <2> DEFINE c == CHOOSE k : k = R(k)
  <2>1. Ancestor = c
    BY DEF Ancestor
  <2>2. c = R(c)
    BY <1>8
  <2> HIDE DEF c
  <2> QED
    BY <2>1, <2>2
<1>10. Ancestor[0] = Start /\ \A d \in 1 .. N : Ancestor[d] = up(Ancestor[d - 1])
  BY <1>1, <1>9
<1>11. \A d \in 0 .. N : Ancestor[d] \in Ids
  <2> DEFINE I == {d \in 0 .. N : Ancestor[d] \in Ids}
  <2>1. 0 \in I
    BY <1>1, <1>10
  <2>2. ASSUME NEW d \in 0 .. N - 1, d \in I
        PROVE  d + 1 \in I
    <3>1. d + 1 \in 1 .. N /\ (d + 1) - 1 = d
      BY <1>1
    <3> QED
      BY <1>2, <1>10, <2>2, <3>1
  <2>3. 0 .. N \subseteq I
    <3> HIDE DEF I, N
    <3> QED
      BY <1>1, <2>1, <2>2, IndexInduction
  <2> QED
    BY <2>3
<1> QED
  BY <1>10, <1>11

\* From a node of the buffer the chain stays in the buffer.
LEMMA ChainIsLive ==
  ASSUME TypeOK, nodes # <<>>, Start \in Live, NEW d \in 0 .. MaxDepth
  PROVE  Ancestor[d] \in Live
<1> DEFINE I == {n \in 0 .. MaxDepth : Ancestor[n] \in Live}
<1>1. MaxDepth \in Nat
  BY CausalGraphAssumption
<1>2. 0 \in I
  BY <1>1, AncestorLevels
<1>3. ASSUME NEW n \in 0 .. MaxDepth - 1, n \in I
      PROVE  n + 1 \in I
  <2>1. n + 1 \in 1 .. MaxDepth /\ (n + 1) - 1 = n
    BY <1>1
  <2> QED
    BY <1>3, <2>1, AncestorLevels
<1>4. 0 .. MaxDepth \subseteq I
  <2> HIDE DEF I
  <2> QED
    BY <1>1, <1>2, <1>3, IndexInduction
<1> QED
  BY <1>4

\* With room left, each level of the search has the next operation of the chain.
LEMMA RoomSuffices ==
  ASSUME TypeOK, nodes # <<>>, Start \in Live, Len(Included) < MAX_NODES,
         NEW d \in 0 .. MaxDepth
  PROVE  Ancestor[d] \in Range(Search[d].ids) \cap Live
<1> DEFINE I == {n \in 0 .. MaxDepth : Ancestor[n] \in Range(Search[n].ids) \cap Live}
<1>1. MaxDepth \in Nat
  BY CausalGraphAssumption
<1>2. 0 \in I
  <2>1. Ancestor[0] = Start /\ Search[0].ids = <<Start>>
    BY AncestorLevels, SearchLevels
  <2>2. Start \in Range(<<Start>>)
    BY DEF Range
  <2> QED
    BY <1>1, <2>1, <2>2
<1>3. ASSUME NEW n \in 0 .. MaxDepth - 1, n \in I
      PROVE  n + 1 \in I
  <2>1. n + 1 \in 1 .. MaxDepth /\ (n + 1) - 1 = n /\ n \in 0 .. MaxDepth /\ n + 1 \in 0 .. MaxDepth
        /\ n \in 0 .. n + 1
    BY <1>1
  <2> DEFINE a == Ancestor[n]
             b == Ancestor[n + 1]
             s == Search[n]
             r == Search[n + 1]
  <2>2. a \in Range(s.ids) \cap Live /\ a \in Ids
    BY <1>3, <2>1, AncestorLevels
  <2>3. b = IF parent[a] \in Live THEN parent[a] ELSE a
    BY <2>1, AncestorLevels
  <2>4. Extends(s.ids, r.ids)
    BY <2>1, SearchGrows
  <2>5. CASE parent[a] \notin Live
    BY <2>1, <2>2, <2>3, <2>4, <2>5, ExtendsFurther
  <2>6. CASE parent[a] \in Live
    <3>1. s \in Searches /\ r.seen = Len(s.ids)
      BY <2>1, SearchLevels, DeepenEffect
    <3>2. \A k \in 1 .. r.seen : Range(Neighbours(r.ids[k])) \subseteq Range(r.ids)
      BY <2>1, SeenIsSearched
    <3> HIDE DEF a, s, r
    <3>3. s.ids \in Grown
      BY <3>1 DEF Searches
    <3>4. PICK k \in 1 .. Len(s.ids) : s.ids[k] = a
      BY <2>2, <3>3, GrownSeq DEF Range
    <3>5. r.ids[k] = a
      BY <2>4, <3>4 DEF Extends
    <3>6. Range(Neighbours(a)) \subseteq Range(r.ids)
      BY <3>1, <3>2, <3>4, <3>5
    <3>7. parent[a] # NoId
      <4>1. nodes \in Seq(Ids) /\ NoId \notin Ids
        BY CausalGraphAssumption DEF TypeOK, Ids
      <4>2. Live \subseteq Ids
        BY <4>1, LenProperties, ElementOfSeq DEF Live, Range
      <4> QED
        BY <2>6, <4>1, <4>2
    <3>8. parent[a] \in Range(r.ids)
      BY <2>2, <3>6, <3>7, NeighboursEffect
    <3> QED
      BY <2>1, <2>3, <2>6, <3>8 DEF r
  <2> QED
    BY <2>5, <2>6
<1>4. 0 .. MaxDepth \subseteq I
  <2> HIDE DEF I
  <2> QED
    BY <1>1, <1>2, <1>3, IndexInduction
<1> QED
  BY <1>4

\* A full search that found nothing but nodes of the buffer found all of them.
LEMMA FullIsAll ==
  ASSUME TypeOK, nodes # <<>>, Len(Included) = MAX_NODES, Range(Included) \subseteq Live
  PROVE  Live \subseteq Range(Included)
<1>1. nodes \in Seq(Ids) /\ Len(nodes) <= MAX_NODES /\ MAX_NODES \in Nat /\ MaxDepth \in 0 .. MaxDepth
  BY CausalGraphAssumption DEF TypeOK
<1>2. Included \in Seq(Ids) /\ IsInjective(Included)
  BY <1>1, SearchLevels DEF Included, Searches, Grown
<1>3. IsFiniteSet(Range(Included)) /\ Cardinality(Range(Included)) = MAX_NODES
  BY <1>2, CardinalityOfBuffer
<1>4. Len(nodes) \in Nat /\ DOMAIN nodes = 1 .. Len(nodes)
  BY <1>1, LenProperties
<1>5. nodes \in Surjection(1 .. Len(nodes), Live)
  <2>1. nodes \in [1 .. Len(nodes) -> Live]
    BY <1>1, <1>4, LenProperties DEF Live, Range
  <2> QED
    BY <1>4, <2>1 DEF Surjection, Live, Range
<1>6. IsFiniteSet(1 .. Len(nodes)) /\ Cardinality(1 .. Len(nodes)) = Len(nodes)
  BY <1>4, FS_Interval
<1>7. IsFiniteSet(Live) /\ Cardinality(Live) <= Len(nodes)
  BY <1>5, <1>6, FS_Surjection
<1>8. Cardinality(Live) \in Nat /\ Cardinality(Range(Included)) <= Cardinality(Live)
  BY <1>7, FS_Subset, FS_CardinalityType
<1>9. Cardinality(Live) = Cardinality(Range(Included))
  BY <1>1, <1>3, <1>4, <1>7, <1>8
<1> QED
  BY <1>7, <1>9, FS_Subset

\* An exception gets the chain of operations that led to it, unless the search
\* filled up with ids among which one is no longer in the buffer.
THEOREM ChainIsExtracted == Spec => []ChainExtracted
<1>1. ASSUME TypeOK, nodes # <<>>,
             ~(Len(Included) = MAX_NODES /\ ~(Range(Included) \subseteq Live))
      PROVE  Chain \subseteq Extracted
  <2>1. MaxDepth \in 0 .. MaxDepth /\ MAX_NODES \in Nat
    BY CausalGraphAssumption
  <2>2. Included \in Grown
    BY <1>1, <2>1, SearchLevels DEF Included, Searches
  <2>3. Len(Included) \in Nat /\ Len(Included) <= MAX_NODES
    BY <2>2, GrownSeq DEF Grown
  <2> SUFFICES ASSUME Start \in Live, NEW d \in 0 .. MaxDepth
               PROVE  Ancestor[d] \in Range(Included) \cap Live
    BY DEF Chain, Extracted
  <2>4. CASE Len(Included) < MAX_NODES
    <3>1. Ancestor[d] \in Range(Search[d].ids) \cap Live
      BY <1>1, <2>4, RoomSuffices
    <3>2. Extends(Search[d].ids, Included)
      BY <1>1, <2>1, SearchGrows DEF Included
    <3> QED
      BY <3>1, <3>2, ExtendsFurther
  <2>5. CASE Len(Included) = MAX_NODES
    <3>1. Live \subseteq Range(Included)
      BY <1>1, <2>5, FullIsAll
    <3>2. Ancestor[d] \in Live
      BY <1>1, ChainIsLive
    <3> QED
      BY <3>1, <3>2
  <2> QED
    BY <2>1, <2>3, <2>4, <2>5
<1>2. TypeOK => ChainExtracted
  BY <1>1 DEF ChainExtracted
<1> QED
  BY TypeCorrect, <1>2, PTL

=============================================================================
