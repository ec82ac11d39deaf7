----------------------------- MODULE RequestScopes -----------------------------
(***************************************************************************)
(* The scopes of the SDKs: user, tags and request context, set while a     *)
(* request is handled and read when an event of it is captured             *)
(* (src/src/scope.ts, browser-v2, go/scope.go, python scope.py, rust       *)
(* scope.rs, Java and C# Scope), entered by the middleware or by the host. *)
(*                                                                         *)
(* They differ in where a scope lives and when it is given back:           *)
(*   "own"      async storage, task-local or AsyncLocal: the request's own *)
(*   "context"  Go: in the request's context; events read the global one   *)
(*   "thread"   Java ThreadLocal; a context variable under Django, Flask   *)
(*   "swapped"  edge, browser and Node's ES modules, where require is not  *)
(*              defined: one global, given back when fn returns a promise  *)
(*   "locked"   rust with_scope: one global, given back at the end         *)
(*   "global"   the axum layer: one global that only takes the context     *)
(*   "ambient"  ASP.NET: an own one, unless the host wrote before it       *)
(***************************************************************************)
EXTENDS Naturals, FiniteSets

CONSTANTS
  Kinds,     \* the kinds explored
  Handled,   \* requests
  Unwrapped, \* bound: those that may come without the middleware
  Workers,   \* threads: a request of the kind "thread" has one to itself
  App,       \* who writes outside any request
  Unset

ASSUME RequestScopesAssumption ==
  /\ App \notin Handled \cup Workers /\ Unwrapped \subseteq Handled
  /\ Kinds \subseteq {"own", "context", "thread", "swapped", "locked", "global", "ambient"}

VARIABLES
  scopeKind,
  handling,   \* where each request stands
  workerOf,   \* its thread
  scopes,     \* the contents of every place a scope can live in
  kept,       \* the contents each request will put back
  bare,       \* requests without the middleware, or with no context handed on
  wrote,      \* history: requests under way that set a tag
  lost,       \* history: requests an event of which lacks the tag
  event,      \* history: what the last event of each request under way carried
  spoiled     \* history: requests whose isolation the code does not promise

scopeVars == <<scopeKind, handling, workerOf, scopes, kept, bare, wrote, lost, event,
              spoiled>>

Owners == Handled \cup {App}
Places == Handled \cup Workers \cup {App}
Contents == [user : Owners \cup {Unset}, tags : SUBSET Owners, request : Handled \cup {Unset}]
Blank == [user |-> Unset, tags |-> {}, request |-> Unset]

ScopesTypeOK ==
  /\ scopeKind \in Kinds
  /\ handling \in [Handled -> {"new", "running", "suspended", "done"}]
  /\ workerOf \in [Handled -> Workers]
  /\ scopes \in [Places -> Contents]
  /\ kept \in [Handled -> Contents]
  /\ event \in [Handled -> Contents]
  /\ UNION {bare, wrote, lost, spoiled} \subseteq Handled

ScopesInit ==
  /\ scopeKind \in Kinds
  /\ handling = [r \in Handled |-> "new"]
  /\ workerOf \in [Handled -> Workers]
  /\ scopeKind # "thread" => workerOf = [r \in Handled |-> CHOOSE w \in Workers : TRUE]
  /\ scopes = [p \in Places |-> Blank]
  /\ kept = [r \in Handled |-> Blank] /\ event = kept
  /\ bare \in SUBSET Unwrapped
  /\ wrote = {} /\ lost = {} /\ spoiled = {}

Live == {r \in Handled : handling[r] \in {"running", "suspended"}}

\* What currentScope finds: async storage or the request's context, a global when
\* the request is bare.
AsyncPlace(r) == IF r \in bare THEN App ELSE r

\* An AsyncLocal written before the request is inherited by it.
AmbientPlace(r) == IF scopes[App] = Blank THEN r ELSE App

\* Where the code of r reads and writes.
Place(r) ==
  CASE scopeKind \in {"own", "context"} -> AsyncPlace(r)
    [] scopeKind = "thread" -> workerOf[r]
    [] scopeKind = "ambient" -> AmbientPlace(r)
    [] OTHER -> App

\* enrichEvent has no context at hand: only the request reaches a Go event, and
\* only that of a panic.
EventOf(r) == IF scopeKind = "context" THEN scopes[App] ELSE scopes[Place(r)]

\* A middleware opens a scope and sets the request context.
Opened(r) == scopes' = [scopes EXCEPT ![Place(r)] = [Blank EXCEPT !.request = r]]

\* The axum layer and the ASP.NET middleware set the context in what is there.
ContextOnly(r) == scopes' = [scopes EXCEPT ![Place(r)].request = r]

\* One thread runs the fns of a runtime without async storage, a servlet thread
\* has one request at a time; Rust threads share their scope.
MayRun(r) ==
  CASE scopeKind = "swapped" -> \A q \in Live : handling[q] = "suspended"
    [] scopeKind = "thread" -> \A q \in Live \ {r} : workerOf[q] # workerOf[r]
    [] OTHER -> TRUE

Begin(r) ==
  /\ handling[r] = "new" /\ MayRun(r)
  /\ handling' = [handling EXCEPT ![r] = "running"]
  /\ kept' = [kept EXCEPT ![r] = scopes[Place(r)]]
  /\ \/ r \in bare /\ UNCHANGED scopes
     \/ r \notin bare /\ scopeKind \in {"global", "ambient"} /\ ContextOnly(r)
     \/ r \notin bare /\ scopeKind \notin {"global", "ambient"} /\ Opened(r)
  /\ spoiled' = spoiled
       \cup (IF r \in bare \/ (scopeKind = "ambient" /\ Place(r) = App) THEN {r} ELSE {})
       \cup (IF scopeKind \in {"locked", "global"} /\ Live # {} THEN Handled ELSE {})
  /\ UNCHANGED <<scopeKind, workerOf, bare, wrote, lost, event>>

SetTag(r) ==
  /\ handling[r] = "running"
  /\ scopes' = [scopes EXCEPT ![Place(r)].tags = @ \cup {r}]
  /\ wrote' = wrote \cup {r}
  /\ UNCHANGED <<scopeKind, handling, workerOf, kept, bare, lost, event, spoiled>>

SetUser(r) ==
  /\ handling[r] = "running"
  /\ scopes' = [scopes EXCEPT ![Place(r)].user = r]
  /\ UNCHANGED <<scopeKind, handling, workerOf, kept, bare, wrote, lost, event, spoiled>>

HostWrites ==
  /\ Live = {}
  /\ scopes' = [scopes EXCEPT ![App].tags = @ \cup {App}, ![App].user = App]
  /\ UNCHANGED <<scopeKind, handling, workerOf, kept, bare, wrote, lost, event, spoiled>>

CaptureEvent(r) ==
  /\ handling[r] = "running"
  /\ event' = [event EXCEPT ![r] = EventOf(r)]
  /\ lost' = IF r \in wrote /\ r \notin EventOf(r).tags THEN lost \cup {r} ELSE lost
  /\ UNCHANGED <<scopeKind, handling, workerOf, scopes, kept, bare, wrote, spoiled>>

\* Mutation: nothing is put back.
GivenBackNever(r) == UNCHANGED scopes

\* runWithScope's finally, with_scope, ThreadLocal.set(prev), reset(token).
GivenBack(r) ==
  IF r \in bare \/ scopeKind \in {"global", "ambient"} THEN UNCHANGED scopes
  ELSE scopes' = [scopes EXCEPT ![Place(r)] = kept[r]]

\* The first await of a request: with one global, fn has returned, and the rest
\* of the request finds what was there before it.  A thread does not await.
Suspend(r) ==
  /\ handling[r] = "running" /\ scopeKind \notin {"thread", "locked"}
  /\ handling' = [handling EXCEPT ![r] = "suspended"]
  /\ IF scopeKind = "swapped" /\ r \notin spoiled
     THEN GivenBack(r) /\ spoiled' = spoiled \cup {r}
     ELSE UNCHANGED <<scopes, spoiled>>
  /\ UNCHANGED <<scopeKind, workerOf, kept, bare, wrote, lost, event>>

Resume(r) ==
  /\ handling[r] = "suspended" /\ MayRun(r)
  /\ handling' = [handling EXCEPT ![r] = "running"]
  /\ UNCHANGED <<scopeKind, workerOf, scopes, kept, bare, wrote, lost, event, spoiled>>

\* A panic skips the end of with_scope, which has no guard; a request that awaited
\* has given its scope back before.
Abandoned(r, panics) ==
  (scopeKind = "locked" /\ panics) \/ (scopeKind = "swapped" /\ r \in spoiled)

End(r, panics) ==
  /\ handling[r] = "running"
  /\ handling' = [handling EXCEPT ![r] = "done"]
  /\ IF Abandoned(r, panics) THEN UNCHANGED scopes ELSE GivenBack(r)
  /\ kept' = [kept EXCEPT ![r] = Blank]
  /\ event' = [event EXCEPT ![r] = Blank] /\ wrote' = wrote \ {r}
  /\ spoiled' = IF scopeKind = "locked" /\ panics THEN Handled ELSE spoiled
  /\ UNCHANGED <<scopeKind, workerOf, bare, lost>>

ScopesNext ==
  \/ \E r \in Handled : Begin(r) \/ SetTag(r) \/ SetUser(r) \/ CaptureEvent(r) \/ Suspend(r)
                        \/ Resume(r) \/ End(r, TRUE) \/ End(r, FALSE)
  \/ HostWrites

-----------------------------------------------------------------------------
(* Properties *)

\* An event carries the data of its own request and of the host only.  Not
\* promised: for requests the scope was not opened for, after an await where the
\* scope is one global, when Rust threads overlap or panic, and when an ASP.NET
\* host wrote first; the axum layer isolates the request context only, of
\* requests that do not overlap (scope.ts:150-156, scope.py:210-230,
\* Scope.java:70-80, scope.rs:153-169, Scope.cs:61-67).
NothingForeign ==
  \A r \in Handled \ spoiled :
    /\ event[r].request \in {r, Unset}
    /\ scopeKind # "global" /\ (scopeKind = "context" => bare = {}) =>
         event[r].user \in {r, App, Unset} /\ event[r].tags \subseteq {r, App}

\* With the same exceptions, an event of a request carries the tag the request
\* set; a Go event never does (go/client.go:127-132).
OwnDataPresent == lost \subseteq spoiled \/ scopeKind = "context"

\* A request's data does not outlive it: once every request has ended, a shared
\* place holds the host's data only.
GivenBackAtEnd ==
  Live = {} /\ spoiled = {} /\ bare = {} /\ scopeKind \in {"swapped", "locked", "thread"} =>
    \A p \in Workers \cup {App} : scopes[p].tags \subseteq {App} /\ scopes[p].user \in {App, Unset}

\* What scope.ts:3 says of Node: "Uses AsyncLocalStorage for per-request
\* isolation in Node.js".
IsolatedPerRequest ==
  bare = {} => \A r \in Handled : event[r].user \in {r, App, Unset}

=============================================================================
