------------------------------ MODULE MCEvidence ------------------------------
(* A small instance of Evidence.                                              *)
EXTENDS Evidence

CONSTANTS o1, o2, r1, r2, p1, p2, k1, k2, k3

MCWeights == {0, 3}
MCBudgets == {1, 4, 7}
MCBudgetEvents == {e \in [Parts -> MCWeights] : WellFormed(e)}

MCObjects == {o1, o2}
MCLeafBytes == "text" :> 6 @@ "secret" :> 8 @@ "flag" :> 4 @@ "null" :> 0
MCKeys == <<"name", "password">>
\* Entries have their keys in order; lists ignore them.
MCValues == {"text", "secret", "flag", "null", o1, o2}
MCEntries(n, values) == {[i \in 1 .. k |-> Entry(MCKeys[i], v[i])] : k \in 0 .. n, v \in [1 .. n -> values]}
MCHeaps == {o1 :> a @@ o2 :> b :
              a \in [kind : {"dict", "list"}, entries : MCEntries(2, MCValues)],
              b \in [kind : {"dict", "list"}, entries : MCEntries(2, {"text", "secret", o1})]}
MCByteBudgets == {7, 15, 60}
MCDepths == {1, 2, 3}
MCAllowlists == {{}, {<<"name">>}}

\* A body is a text, an object or a list; two leaves at most.
MCTexts == {"short", "long", "huge", "wide", "astral"}
MCKeyNames == {"password", "APIKEY", "pass", "pwd", "name"}
MCObjectPaths == {<<k>> : k \in MCKeyNames} \cup {<<k, n>> : k \in {"name", "pwd"}, n \in {"password", "0", "20"}}
MCListPaths == {<<n>> : n \in ListItems} \cup {<<n, "password">> : n \in ListItems}
MCBodies ==
  {{Leaf(<<>>, t)} : t \in MCTexts}
  \cup {b \in UNION {{{Leaf(p, t), Leaf(q, u)} : p \in paths, q \in paths, t \in MCTexts, u \in MCTexts} :
                      paths \in {MCObjectPaths, MCListPaths}} :
         \A a, c \in b : a # c =>
           /\ ~IsPrefix(a.path, c.path) /\ ~IsPrefix(c.path, a.path)
           /\ a.path[1] = c.path[1] => (a.path[2] \in ListItems) = (c.path[2] \in ListItems)}
MCHeaders == {"Cookie", "x-real-ip", "X-Real-IP", "accept"}

MCNames == {"A", "B"}
MCBase == {String, Enum, Ref("A"), Ref("B")}
MCTypes == MCBase \cup {List(t) : t \in MCBase} \cup {OrNull(t) : t \in MCBase}
             \cup {List(OrNull(String)), List(OrNull(Ref("B"))), OrNull(List(Ref("B"))), Both("A", "B")}
MCField(types, opts, dflts) == [type : types, opt : opts, dflt : dflts]
MCProjects ==
  {"A" :> [x |-> x, y |-> y] @@ "B" :> [z |-> z] :
     x \in MCField(MCTypes, BOOLEAN, BOOLEAN),
     y \in MCField({String, Ref("A"), Ref("B"), List(Ref("B"))}, {FALSE}, {FALSE}),
     z \in MCField({String, Ref("A"), List(Ref("B"))}, {FALSE}, {FALSE})}

MCReaders == {r1, r2}
MCProcesses == {p1, p2}
MCKeyValues == {k1, k2, k3}
MCStack == 0 .. 1
MCMtimes == 1 .. 3
Symmetry == Permutations(MCReaders) \cup Permutations(MCProcesses) \cup Permutations(MCKeyValues)

=============================================================================
