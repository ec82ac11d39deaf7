------------------------------- MODULE Evidence -------------------------------
(* What goes into an event and how it leaves: the walks over captured values, *)
(* the token budget, the contracts of the intent sources, the file caches,    *)
(* and the signed payload.  They share no state; a behaviour explores one     *)
(* part.  The pure parts take one input and compute one result.               *)
EXTENDS ValueWalk, RequestScrub, IntentShapes, FileCaches, PayloadV2, TLC

CONSTANTS
  BudgetEvents,     \* events offered to applyTokenBudget
  Heaps,            \* heaps walked; the value is the object Root
  Root, ByteBudgets, Depths, Allowlists,
  Bodies, Headers,  \* requests the SDKs scrub
  Projects          \* declarations the intent sources read

VARIABLES part, input, result

vars == <<part, input, result, fileVars, payloadVars>>
NoResult == [of |-> "nothing"]

Inputs ==
  {[of |-> "budget", event |-> e, budget |-> b] : e \in BudgetEvents, b \in Budgets}
  \cup {[of |-> "walk", heap |-> h, bytes |-> b, depth |-> d, allowlist |-> a] :
          h \in Heaps, b \in ByteBudgets, d \in Depths, a \in Allowlists}
  \cup {[of |-> "request", body |-> b] : b \in Bodies}
  \cup {[of |-> "intent", decls |-> d] : d \in Projects}

Init ==
  /\ part \in {"data", "caches", "payload"}
  /\ input = NoResult /\ result = NoResult
  /\ FileInit /\ PayloadInit
  /\ part # "caches" => slot = "lines" /\ head.repo = FALSE /\ disk["schema1"] = 0
  /\ part # "payload" => keyFile = NoKey

Budgeted(i) == [of |-> "budget", event |-> ApplyTokenBudget(i.event, i.budget)]
Walked(i) ==
  [of |-> "walk",
   node |-> SerializeValue(i.heap, Root, i.bytes, i.depth),
   python |-> PySerializeValue(i.heap, Root, i.bytes, i.depth),
   redacted |-> RedactPayload(i.heap, Root, i.allowlist, i.depth)]
Scrubbed(i) == [of |-> "request", scrubbed |-> ScrubRequest(Headers, i.body)]
Contracts(i) ==
  LET d == i.decls IN
  [of |-> "intent",
   handler |-> TsExtract(d, "handler"), ts |-> TsExtract(d, First), zod |-> ZodExtract(d, First),
   openapi |-> OpenapiExtract(d), pydantic |-> PyExtract(d, First),
   graphql |-> GqlExtract(d, First), prisma |-> PrismaExtract(d, First),
   drizzle |-> DrizzleExtract(d, First), rust |-> RustExtract(d, First),
   java |-> JavaExtract(d, First)]

Compute ==
  /\ result = NoResult
  /\ input' \in Inputs
  /\ result' = CASE input'.of = "budget" -> Budgeted(input')
                 [] input'.of = "walk" -> Walked(input')
                 [] input'.of = "request" -> Scrubbed(input')
                 [] input'.of = "intent" -> Contracts(input')

Next ==
  /\ UNCHANGED part
  /\ \/ part = "data" /\ Compute /\ UNCHANGED <<fileVars, payloadVars>>
     \/ part = "caches" /\ FileNext /\ UNCHANGED <<input, result, payloadVars>>
     \/ part = "payload" /\ PayloadNext /\ UNCHANGED <<input, result, fileVars>>

Spec == Init /\ [][Next]_vars

TypeOK ==
  /\ part \in {"data", "caches", "payload"}
  /\ result.of = input.of
  /\ FileTypeOK /\ PayloadTypeOK

---------------------------------------------------------------------------
\* The walks, as the heap defines them: a path is a sequence of positions.
Positions == 1 .. 2
PathsUpTo(n) == UNION {[1 .. k -> Positions] : k \in 0 .. n}

RECURSIVE ValueAt(_, _)
\* The value at a path, or "nowhere".
ValueAt(heap, path) ==
  IF path = <<>> THEN Root
  ELSE LET o == ValueAt(heap, SubSeq(path, 1, Len(path) - 1))
           i == path[Len(path)]
       IN IF o \notin Objects THEN "nowhere"
          ELSE IF i > Len(heap[o].entries) THEN "nowhere" ELSE heap[o].entries[i].value

Prefix(path, k) == SubSeq(path, 1, k)
Above(heap, path) == {ValueAt(heap, Prefix(path, k)) : k \in 0 .. Len(path) - 1}
\* Reached without entering an object below itself.
Acyclic(heap, path) ==
  \A j, k \in 0 .. Len(path) - 1 :
    j < k => ValueAt(heap, Prefix(path, j)) # ValueAt(heap, Prefix(path, k))
KeyHidden(heap, path) ==
  \E k \in 0 .. Len(path) - 1 :
    LET o == ValueAt(heap, Prefix(path, k)) IN
    heap[o].kind = "dict" /\ ShouldRedactName(heap[o].entries[path[k + 1]].key)

\* What a serialization that left nothing out shows: every leaf, and a mark
\* where an object lies below itself.
Unfolding(heap, depth, secret, hides) ==
  LET shown(path) ==
        LET v == ValueAt(heap, path) IN
        CASE hides /\ KeyHidden(heap, path) -> <<path, "redacted">>
          [] v \in Objects -> <<path, "circular">>
          [] v = "secret" -> <<path, secret>>
          [] OTHER -> <<path, v>>
      hiddenAbove(path) == hides /\ path # <<>> /\ KeyHidden(heap, Prefix(path, Len(path) - 1))
      ends(path) == LET v == ValueAt(heap, path) IN
        /\ v # "nowhere" /\ Acyclic(heap, path) /\ ~hiddenAbove(path)
        /\ v \in Objects => v \in Above(heap, path) \/ (hides /\ KeyHidden(heap, path))
  IN {shown(path) : path \in {q \in PathsUpTo(depth) : ends(q)}}

Shown(walk) == {<<s[1], s[2]>> : s \in walk.shown}
Charged(walk) == MapThenSumSet(LAMBDA s : s[3], walk.shown)
\* No object is reached by two paths.
Unshared(heap, depth) ==
  \A a, b \in PathsUpTo(depth) :
    a # b /\ ValueAt(heap, a) \in Objects /\ Acyclic(heap, a) /\ Acyclic(heap, b) =>
      ValueAt(heap, a) # ValueAt(heap, b) \/ IsPrefix(a, b) \/ IsPrefix(b, a)

\* A serialization that says it is not truncated shows the whole value, and one
\* that says it is has met its depth or the end of its budget.  The texts that
\* take of the budget stay within it; what is printed besides them is not bounded
\* (types.ts:78 calls the budget a cap of the value).  The Node serializer marks an
\* object it has met before as circular even when it is only shared.
SerializersFaithful(i, r) ==
  /\ ~r.python.truncated => Shown(r.python) = Unfolding(i.heap, i.depth, "redacted", TRUE)
  /\ ~r.node.truncated /\ Unshared(i.heap, i.depth) =>
       Shown(r.node) = Unfolding(i.heap, i.depth, "secret", FALSE)
  /\ \A w \in {r.python, r.node} :
       /\ Charged(w) <= i.bytes
       /\ w.truncated => OutOfBytes(w) \/ \E s \in w.shown : s[2] = "object"

\* The redactor leaves a value alone only below its depth or on the allowlist.
RedactionComplete(i, r) ==
  \A s \in r.redacted :
    s[2] \in {"raw", "secret"} => Len(s[1]) > i.depth \/ s[1] \in i.allowlist

---------------------------------------------------------------------------
\* The sources agree about a project.
RECURSIVE InlinedOnce(_, _), RefsAreAbove(_, _), Nameless(_)
Children(s) == {s.props[f] : f \in DOMAIN s.props} \cup {s.items[k] : k \in DOMAIN s.items}
\* A name is inlined once on the way down from below the root.
InlinedOnce(s, above) ==
  /\ s.symbol \in above => s.ref # ""
  /\ \A c \in Children(s) : InlinedOnce(c, above \cup (IF s.ref = "" THEN {s.symbol} \ {""} ELSE {}))
\* A reference stands only where its name is above it: siblings are inlined.
RefsAreAbove(s, above) ==
  /\ s.ref # "" => s.symbol \in above
  /\ \A c \in Children(s) : RefsAreAbove(c, above \cup {s.symbol})

\* A shape without the names of what is inlined; its references by name.
Nameless(s) ==
  [s EXCEPT !.symbol = "",
            !.ref = IF s.ref = "" THEN "" ELSE s.symbol,
            !.props = [f \in DOMAIN s.props |-> Nameless(s.props[f])],
            !.items = [k \in DOMAIN s.items |-> Nameless(s.items[k])]]

RECURSIVE TypesIn(_)
TypesIn(t) == {t.k} \cup IF t.k \in {"list", "null"} THEN TypesIn(t.of) ELSE {}
Fields(d) == UNION {{d[n][f] : f \in DOMAIN d[n]} : n \in DOMAIN d}
\* No null and no intersection: the sources that follow references read alike;
\* and without modifiers Zod as well.
Plain(d) == \A f \in Fields(d) : TypesIn(f.type) \cap {"null", "both"} = {}
NoModifiers(d) == \A f \in Fields(d) : ~f.opt /\ ~f.dflt

AllContracts(r) == {r.ts, r.zod, r.openapi, r.pydantic, r.graphql, r.prisma, r.drizzle, r.rust, r.java}

\* Shapes are compared without the names: Zod gives one only to the schema asked
\* for, OpenAPI calls its root after the operation and refers by pointers.
ContractsAgree(i, r) ==
  LET d == i.decls
      field(f) == d[First][f]
  IN /\ \A f \in DOMAIN d[First] :
          /\ field(f).opt => \A s \in AllContracts(r) : f \notin s.required
          /\ ~field(f).opt /\ ~field(f).dflt /\ TypesIn(field(f).type) \subseteq {"string", "enum", "list"}
               => \A s \in AllContracts(r) : f \in s.required
          /\ field(f).dflt => \A s \in {r.pydantic, r.prisma, r.drizzle, r.rust} : f \notin s.required
     /\ InlinedOnce(r.handler, {}) /\ InlinedOnce(r.openapi, {First})
     /\ Plain(d) /\ NoModifiers(d) =>
          /\ Nameless(r.openapi) = Nameless(r.handler) /\ Nameless(r.zod) = Nameless(r.ts)
          /\ Reaches(d, First) => r.pydantic = r.handler
          /\ ~Reaches(d, First) => r.ts = r.handler /\ r.pydantic = r.handler
     /\ Plain(d) => /\ \A s \in {r.handler, r.ts, r.pydantic} : RefsAreAbove(s, {})
                    /\ RefsAreAbove(r.openapi, {First})

\* A contract is sent whole when it fits, and otherwise cut at the greatest
\* depth that fits, or to its root.
CapFits(s) ==
  LET c == CapShapeSize(s)
      fits == {k \in 1 .. 4 : Size(TruncateAtDepth(s, k)) <= MAX_SHAPE}
  IN IF Size(s) <= MAX_SHAPE THEN c = s
     ELSE IF fits = {} THEN c = Stub(s)
     ELSE \E k \in fits : c = TruncateAtDepth(s, k) /\ \A j \in fits : j <= k

---------------------------------------------------------------------------
\* What was captured arrives as it was: a serialization, a redaction and a
\* budget leave out what they must and nothing else.
DataFaithful ==
  /\ result.of = "budget" => LeastDrops(input.event, input.budget, result.event)
  /\ result.of = "walk" => SerializersFaithful(input, result) /\ RedactionComplete(input, result)
  /\ result.of = "request" => RequestsAlike(input.body, result.scrubbed)

\* The contracts of all sources agree on what their languages can say.
SourcesAgree ==
  result.of = "intent" =>
    ContractsAgree(input, result) /\ \A s \in AllContracts(result) : CapFits(s)

=============================================================================
