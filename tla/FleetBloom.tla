------------------------------- MODULE FleetBloom -------------------------------
(***************************************************************************)
(* The fleet bloom client of the Node SDK, src/src/fleet: the fetches of   *)
(* FleetBloomClient (client.ts), the filter as the set of fingerprints it  *)
(* was built from (bloom.ts) and the integration that asks it about every  *)
(* event and contributes those it does not have (integration.ts).          *)
(***************************************************************************)
EXTENDS Naturals, FiniteSets

CONSTANTS
  Fetches,       \* calls of fetchOnce; the first is that of init
  FirstFetch,
  Fingerprints,
  MaxVersion,    \* bound: filters the server builds
  MaxAsked       \* bound: events per fingerprint

ASSUME FleetBloomAssumption ==
  FirstFetch \in Fetches /\ MaxVersion \in Nat /\ MaxAsked \in Nat

VARIABLES
  serverVersion,  \* the newest filter, 0 before there is one
  built,          \* built[v]: the fingerprints of filter v
  observed,       \* the fingerprints the server was told of
  bloom, etag,    \* the version loaded and the one asked about, 0 for none
  fetching,       \* the fetches under way or not yet made
  refreshTimer,   \* the interval is set
  closed,         \* close() has been called
  contributions,  \* _seenContributions
  posting,        \* fingerprints with a POST under way
  posts, asked,   \* history: POSTs made and events seen, per fingerprint
  newest,         \* history: the newest version a fetch has loaded
  fetchesOverlapped, closedEarly

fleetVars == <<serverVersion, built, observed, bloom, etag, fetching, refreshTimer, closed,
               contributions, posting, posts, asked, newest, fetchesOverlapped, closedEarly>>

Versions == 0..MaxVersion

NotMade == [stage |-> "new", ifNoneMatch |-> 0, answer |-> 0]

FleetTypeOK ==
  /\ {serverVersion, bloom, etag, newest} \subseteq Versions
  /\ built \in [Versions -> SUBSET Fingerprints]
  /\ UNION {observed, contributions, posting} \subseteq Fingerprints
  /\ fetching \in [Fetches -> [stage : {"new", "sent", "304", "503", "200", "done"},
                               ifNoneMatch : Versions, answer : Versions]]
  /\ {refreshTimer, closed, fetchesOverlapped, closedEarly} \subseteq BOOLEAN
  /\ {posts, asked} \subseteq [Fingerprints -> 0..MaxAsked]

FleetInit ==
  /\ serverVersion = 0 /\ bloom = 0 /\ etag = 0 /\ newest = 0
  /\ built = [v \in Versions |-> {}]
  /\ observed = {} /\ contributions = {} /\ posting = {}
  /\ fetching = [f \in Fetches |-> NotMade]
  /\ refreshTimer = FALSE /\ closed = FALSE /\ fetchesOverlapped = FALSE /\ closedEarly = FALSE
  /\ posts = [p \in Fingerprints |-> 0] /\ asked = posts

client == <<bloom, etag, newest>>
server == <<serverVersion, built, observed>>
contributing == <<contributions, posting, posts, asked>>
lifecycle == <<refreshTimer, closed, closedEarly>>

UnderWay == {f \in Fetches : fetching[f].stage \notin {"new", "done"}}

\* A version is built from what the server was told; it never forgets.
ServerBuilds ==
  /\ serverVersion < MaxVersion
  /\ serverVersion' = serverVersion + 1
  /\ built' = [built EXCEPT ![serverVersion + 1] = observed]
  /\ UNCHANGED <<observed, client, fetching, lifecycle, contributing, fetchesOverlapped>>

\* Those of init, of the interval and of refresh().
SendFetch(f) ==
  /\ fetching[f].stage = "new"
  /\ f # FirstFetch => fetching[FirstFetch].stage # "new"
  /\ fetching' = [fetching EXCEPT ![f].stage = "sent", ![f].ifNoneMatch = etag]
  /\ fetchesOverlapped' = (fetchesOverlapped \/ UnderWay # {})
  /\ UNCHANGED <<server, client, lifecycle, contributing>>

ServerAnswers(f) ==
  /\ fetching[f].stage = "sent"
  /\ fetching' = [fetching EXCEPT ![f].answer = serverVersion,
       ![f].stage = CASE serverVersion = 0 -> "503"
                      [] serverVersion # 0 /\ fetching[f].ifNoneMatch = serverVersion -> "304"
                      [] OTHER -> "200"]
  /\ UNCHANGED <<server, client, lifecycle, contributing, fetchesOverlapped>>

\* Only init goes on after its fetch: it sets the interval.
FetchReturns(f) ==
  /\ fetching' = [fetching EXCEPT ![f].stage = "done"]
  /\ refreshTimer' = (refreshTimer \/ f = FirstFetch)
  /\ UNCHANGED <<server, closed, closedEarly, contributing, fetchesOverlapped>>

\* Mutation: the etag is taken from the headers before the body has been read.
EtagAnyway(f) ==
  /\ etag' = IF fetching[f].stage = "200" THEN fetching[f].answer ELSE etag
  /\ UNCHANGED bloom

\* 304, 503, any other status, a timeout, or a body deserialize rejects.
KeptAfter(f) == UNCHANGED <<bloom, etag>>

Kept(f) ==
  /\ f \in UnderWay
  /\ KeptAfter(f)
  /\ UNCHANGED newest
  /\ FetchReturns(f)

Loaded(f) ==
  /\ fetching[f].stage = "200"
  /\ bloom' = fetching[f].answer
  /\ etag' = fetching[f].answer
  /\ newest' = IF fetching[f].answer > newest THEN fetching[f].answer ELSE newest
  /\ FetchReturns(f)

Close ==
  /\ ~closed /\ fetching[FirstFetch].stage # "new"
  /\ closed' = TRUE
  /\ refreshTimer' = FALSE
  /\ closedEarly' = (fetching[FirstFetch].stage # "done")
  /\ UNCHANGED <<server, client, fetching, contributing, fetchesOverlapped>>

-----------------------------------------------------------------------------
(* onBeforeSend and contributeFingerprint *)

\* A filter may also hit on what is not in it.
MayHit(p) == bloom # 0
MustHit(p) == bloom # 0 /\ p \in built[bloom]

Noted(p) == contributions' = contributions \cup {p}

Contribute(p) ==
  /\ p \notin contributions
  /\ Noted(p)
  /\ posting' = posting \cup {p}
  /\ posts' = [posts EXCEPT ![p] = @ + 1]

\* hit: what hasAnyoneElseHit returns.  Without metadata nothing is contributed.
FleetOnBeforeSend(p, hit) ==
  /\ fetching[FirstFetch].stage # "new" /\ asked[p] < MaxAsked
  /\ hit => MayHit(p)
  /\ MustHit(p) => hit
  /\ asked' = [asked EXCEPT ![p] = @ + 1]
  /\ \/ ~hit /\ bloom # 0 /\ Contribute(p)
     \/ (hit \/ bloom = 0 \/ p \in contributions) /\ UNCHANGED <<contributions, posting, posts>>
  /\ UNCHANGED <<server, client, fetching, lifecycle, fetchesOverlapped>>

\* A POST that fails is not made again.
PostSettles(p, arrived) ==
  /\ p \in posting
  /\ posting' = posting \ {p}
  /\ observed' = IF arrived THEN observed \cup {p} ELSE observed
  /\ UNCHANGED <<serverVersion, built, client, fetching, lifecycle, contributions, posts,
                 asked, fetchesOverlapped>>

FleetNext ==
  \/ ServerBuilds \/ Close
  \/ \E f \in Fetches : SendFetch(f) \/ ServerAnswers(f) \/ Kept(f) \/ Loaded(f)
  \/ \E p \in Fingerprints, b \in BOOLEAN : FleetOnBeforeSend(p, b) \/ PostSettles(p, b)

-----------------------------------------------------------------------------
(* Properties *)

\* The etag is that of the filter in use, so a 304 means the filter is current,
\* and the filter is the newest that was loaded unless two fetches overlapped
\* (client.ts:94, 111-114).
BloomCurrent ==
  /\ etag = bloom
  /\ ~fetchesOverlapped => bloom = newest

\* A 304 never answers for a filter the client does not have.
NotModifiedMeansLoaded ==
  \A f \in Fetches : fetching[f].stage = "304" /\ ~fetchesOverlapped => fetching[f].answer = bloom

\* A fingerprint is contributed once, however many events carry it (client.ts:137-139).
OneContribution == \A p \in Fingerprints : posts[p] <= 1

\* After close() no interval is left, unless it came before init's fetch had
\* returned (client.ts:51-52, 63).
NoTimerAfterClose == closed /\ ~closedEarly => ~refreshTimer

=============================================================================
