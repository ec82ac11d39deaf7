------------------------------ MODULE ValueWalk ------------------------------
(***************************************************************************)
(* What is shown of captured values and hidden of them: the bounded        *)
(* serializers of the Node and Python forensic capture                     *)
(* (src/src/forensic/serialize.ts, forensic.py) and the redactor           *)
(* (src/src/redact/index.ts).                                              *)
(*                                                                         *)
(* A heap maps each object to its kind and its entries, a key and a value  *)
(* each; a value is a leaf or an object, so that objects may be shared and *)
(* cyclic.  A serialization is the set of the leaves shown, each with its  *)
(* path and what it took of the budget, and the bytes left.  Not all that  *)
(* is printed takes of it: keys and punctuation are free, and so are null, *)
(* undefined and, in Python, a boolean and what a key's name hides.        *)
(***************************************************************************)
EXTENDS Integers, Sequences, SequencesExt, FiniteSets, FiniteSetsExt

CONSTANTS
  Objects,        \* the objects of the heap
  LeafBytes,      \* [leaf |-> length of its text]; "secret" matches a pattern,
                  \* "flag" is a boolean, "null" is null or undefined
  MarkBytes       \* the length of "[Circular]" and of "[Object]"

Leaves == DOMAIN LeafBytes
Entry(key, value) == [key |-> key, value |-> value]

\* A walk's state and what it has shown so far.
Walk(shown, left, seen, truncated) ==
  [shown |-> shown, left |-> left, seen |-> seen, truncated |-> truncated]

\* truncateString, at path: the text takes its length, and is cut when it does
\* not fit.
TruncateString(w, path, text, bytes) ==
  IF bytes <= w.left
  THEN [w EXCEPT !.shown = @ \cup {<<path, text, bytes>>}, !.left = @ - bytes]
  ELSE [w EXCEPT !.shown = @ \cup {<<path, "cut", IF w.left > 0 THEN w.left ELSE 1>>},
                 !.left = 0, !.truncated = TRUE]

\* A text that is put in without truncateString takes nothing.
Free(w, path, text) == [w EXCEPT !.shown = @ \cup {<<path, text, 0>>}]

\* reprPrimitive: null and undefined are free, all else is not.
ReprPrimitive(w, path, leaf) ==
  IF leaf = "null" THEN Free(w, path, leaf)
  ELSE TruncateString(w, path, leaf, LeafBytes[leaf])

\* The loop over the entries stops when three bytes are left.
OutOfBytes(w) == w.left <= 3

---------------------------------------------------------------------------
\* reprObject: the objects met so far are marked, wherever they were met.  An
\* entry takes what its value takes; its key and the punctuation are free.
RECURSIVE ReprAny(_, _, _, _, _)

ReprEntries(heap, w, path, o, maxDepth) ==
  LET step(acc, i) ==
        IF OutOfBytes(acc) THEN [acc EXCEPT !.truncated = TRUE]
        ELSE ReprAny(heap, acc, path \o <<i>>, heap[o].entries[i].value, maxDepth)
  IN FoldLeft(step, w, [i \in 1 .. Len(heap[o].entries) |-> i])

ReprObject(heap, w, path, o, maxDepth) ==
  IF o \in w.seen THEN TruncateString(w, path, "circular", MarkBytes)
  ELSE LET in == [w EXCEPT !.seen = @ \cup {o}] IN
       IF Len(path) >= maxDepth
       THEN [TruncateString(in, path, "object", MarkBytes) EXCEPT !.truncated = TRUE]
       ELSE ReprEntries(heap, in, path, o, maxDepth)

ReprAny(heap, w, path, value, maxDepth) ==
  IF value \in Objects THEN ReprObject(heap, w, path, value, maxDepth)
  ELSE ReprPrimitive(w, path, value)

SerializeValue(heap, value, maxBytes, maxDepth) ==
  ReprAny(heap, Walk({}, maxBytes, {}, FALSE), <<>>, value, maxDepth)

---------------------------------------------------------------------------
\* _repr_object of the Python SDK: an object is unmarked when its walk ends
\* (the finally clause), a secret is scrubbed before it is cut, and the value
\* under a key with a secret's name is not walked, its mark free.
RECURSIVE PyReprAny(_, _, _, _, _)

PyReprPrimitive(w, path, leaf) ==
  CASE leaf \in {"null", "flag"} -> Free(w, path, leaf)
    [] leaf = "secret" -> TruncateString(w, path, "redacted", MarkBytes)
    [] OTHER -> TruncateString(w, path, leaf, LeafBytes[leaf])

ShouldRedactName(key) == key = "password"

PyReprEntries(heap, w, path, o, maxDepth) ==
  LET step(acc, i) ==
        LET e == heap[o].entries[i] IN
        IF OutOfBytes(acc) THEN [acc EXCEPT !.truncated = TRUE]
        ELSE IF heap[o].kind = "dict" /\ ShouldRedactName(e.key)
             THEN Free(acc, path \o <<i>>, "redacted")
             ELSE PyReprAny(heap, acc, path \o <<i>>, e.value, maxDepth)
  IN FoldLeft(step, w, [i \in 1 .. Len(heap[o].entries) |-> i])

PyReprObject(heap, w, path, o, maxDepth) ==
  IF o \in w.seen THEN TruncateString(w, path, "circular", MarkBytes)
  ELSE LET in == [w EXCEPT !.seen = @ \cup {o}]
           done == IF Len(path) >= maxDepth
                   THEN [TruncateString(in, path, "object", MarkBytes) EXCEPT !.truncated = TRUE]
                   ELSE PyReprEntries(heap, in, path, o, maxDepth)
       IN [done EXCEPT !.seen = @ \ {o}]

PyReprAny(heap, w, path, value, maxDepth) ==
  IF value \in Objects THEN PyReprObject(heap, w, path, value, maxDepth)
  ELSE PyReprPrimitive(w, path, value)

PySerializeValue(heap, value, maxBytes, maxDepth) ==
  PyReprAny(heap, Walk({}, maxBytes, {}, FALSE), <<>>, value, maxDepth)

---------------------------------------------------------------------------
\* walk of the redactor.  Its output is a set of paths and leaves; "raw" is a
\* value returned as it is, whatever it holds.  It is unbounded in bytes and
\* deeper than maxDepth it does not look.
RECURSIVE RedactWalk(_, _, _, _, _, _)

ScrubString(leaf) == IF leaf = "secret" THEN "redacted" ELSE leaf
KeyPath(heap, o, path, i) ==
  Append(path, IF heap[o].kind = "dict" THEN heap[o].entries[i].key ELSE ToString(i))

RedactEntries(heap, w, path, o, allowlist, maxDepth) ==
  LET step(acc, i) ==
        LET e == heap[o].entries[i]
            at == KeyPath(heap, o, path, i)
            show(leaf) == [acc EXCEPT !.shown = @ \cup {<<at, leaf>>}]
        IN IF heap[o].kind = "dict" /\ at \in allowlist THEN show("raw")
           ELSE IF heap[o].kind = "dict" /\ ShouldRedactName(e.key) THEN show("redacted")
           ELSE RedactWalk(heap, acc, at, e.value, allowlist, maxDepth)
  IN FoldLeft(step, w, [i \in 1 .. Len(heap[o].entries) |-> i])

\* Mutation: the depth is off by one.
RedactWalkShallow(heap, w, path, value, allowlist, maxDepth) ==
  LET show(leaf) == [w EXCEPT !.shown = @ \cup {<<path, leaf>>}] IN
  CASE Len(path) >= maxDepth \/ path \in allowlist -> show("raw")
    [] value \in Leaves -> show(ScrubString(value))
    [] value \in w.seen -> show("cycle")
    [] OTHER -> RedactEntries(heap, [w EXCEPT !.seen = @ \cup {value}], path, value, allowlist, maxDepth)

RedactWalk(heap, w, path, value, allowlist, maxDepth) ==
  LET show(leaf) == [w EXCEPT !.shown = @ \cup {<<path, leaf>>}] IN
  CASE Len(path) > maxDepth \/ path \in allowlist -> show("raw")
    [] value \in Leaves -> show(ScrubString(value))
    [] value \in w.seen -> show("cycle")
    [] OTHER -> RedactEntries(heap, [w EXCEPT !.seen = @ \cup {value}], path, value, allowlist, maxDepth)

RedactPayload(heap, value, allowlist, maxDepth) ==
  RedactWalk(heap, [shown |-> {}, seen |-> {}], <<>>, value, allowlist, maxDepth).shown

=============================================================================
