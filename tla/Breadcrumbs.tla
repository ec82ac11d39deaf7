------------------------------- MODULE Breadcrumbs -------------------------------
(***************************************************************************)
(* The breadcrumb ring of the SDKs (src/src/breadcrumbs.ts and its         *)
(* counterparts): console calls and fetches leave a crumb, a fetch that    *)
(* fails another when it settles.                                          *)
(***************************************************************************)
EXTENDS Naturals, Sequences, SequencesExt

CONSTANTS
  Requested,        \* fetches
  MAX_BREADCRUMBS,
  MaxLogs,          \* bound: console calls
  MaxInits          \* bound: calls of initBreadcrumbs

ASSUME BreadcrumbsAssumption ==
  MAX_BREADCRUMBS \in Nat \ {0} /\ MaxLogs \in Nat /\ MaxInits \in Nat

VARIABLES
  wrapped,      \* how often console and fetch are wrapped
  crumbs,       \* breadcrumbs
  settling,     \* fetches under way
  fetched,      \* fetches made
  everything,   \* history: every crumb, in order
  logs          \* history: console calls

crumbVars == <<wrapped, crumbs, settling, fetched, everything, logs>>

Crumbs == [of : {"log"}, n : 1..MaxLogs] \cup [of : {"fetch", "failed"}, n : Requested]

CrumbsTypeOK ==
  /\ wrapped \in 0..MaxInits /\ logs \in 0..MaxLogs
  /\ crumbs \in Seq(Crumbs) /\ everything \in Seq(Crumbs)
  /\ settling \subseteq fetched /\ fetched \subseteq Requested

CrumbsInit ==
  /\ wrapped = 0 /\ logs = 0 /\ crumbs = <<>> /\ everything = <<>>
  /\ settling = {} /\ fetched = {}

WrapOnce == wrapped' = 1

InitBreadcrumbs ==
  /\ wrapped < MaxInits
  /\ WrapOnce
  /\ UNCHANGED <<crumbs, settling, fetched, everything, logs>>

AddBreadcrumb(ring, crumb) ==
  IF Len(ring) < MAX_BREADCRUMBS THEN Append(ring, crumb) ELSE Append(Tail(ring), crumb)

\* A crumb per wrapper.
Left(crumb) ==
  LET new == [k \in 1..wrapped |-> crumb]
  IN  /\ crumbs' = FoldLeft(AddBreadcrumb, crumbs, new)
      /\ everything' = Append(everything, crumb)

ConsoleCall ==
  /\ wrapped > 0 /\ logs < MaxLogs
  /\ logs' = logs + 1
  /\ Left([of |-> "log", n |-> logs + 1])
  /\ UNCHANGED <<wrapped, settling, fetched>>

FetchStarts(f) ==
  /\ wrapped > 0 /\ f \notin fetched
  /\ fetched' = fetched \cup {f} /\ settling' = settling \cup {f}
  /\ Left([of |-> "fetch", n |-> f])
  /\ UNCHANGED <<wrapped, logs>>

\* The response is an error, or the fetch throws.
FetchFails(f) ==
  /\ f \in settling
  /\ settling' = settling \ {f}
  /\ Left([of |-> "failed", n |-> f])
  /\ UNCHANGED <<wrapped, fetched, logs>>

FetchSucceeds(f) ==
  /\ f \in settling
  /\ settling' = settling \ {f}
  /\ UNCHANGED <<wrapped, crumbs, fetched, everything, logs>>

CrumbsNext ==
  \/ InitBreadcrumbs \/ ConsoleCall
  \/ \E f \in Requested : FetchStarts(f) \/ FetchFails(f) \/ FetchSucceeds(f)

-----------------------------------------------------------------------------
(* Properties *)

\* The ring holds the newest crumbs, each once and in order, and no more than
\* it may (breadcrumbs.ts:53-62, 72-74).
NewestCrumbs ==
  crumbs = SubSeq(everything, 1 + (IF Len(everything) > MAX_BREADCRUMBS
                                   THEN Len(everything) - MAX_BREADCRUMBS ELSE 0),
                  Len(everything))

=============================================================================
