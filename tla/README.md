# InariWatch Capture: specifications

TLA+ models of the InariWatch capture SDKs, TLC runs that check them on small instances, and
TLAPS proofs about all but the recursive ones. File names below are relative to the repository (`src/`), so
`src/client.ts` is `src/src/client.ts` in PROJECT.json.

## 1. The system

An application calls `init` and the capture functions; an event passes a chain of integrations
and is handed to a transport, which posts it, signed, to an endpoint and keeps it for another
attempt if that fails. Ports of the SDK exist in Go, Python, Java, C#, Rust and for the browser.
Around that core stand optional subsystems: a gossip mesh between processes, a causal graph of
operations, forensic capture of local variables, a bloom filter of fingerprints known to the
fleet, signing keys, samplers, request scopes, and a page's detectors.

| Component | State it keeps | Operations | Hard because | Correct if |
|---|---|---|---|---|
| Node transport, `src/transport.ts` | `retryBuffer`, `pendingSends` | `send`, `flush`; `sendOne`, `flushRetries` inside | callbacks of many requests interleave; batches come back to a buffer that filled meanwhile | buffer bounded, an event in one place, given up only for a stated reason, `flush` covers what it found and returns |
| Node client, `src/client.ts` | `globalTransport`, `globalConfig`, `resolvedRedactConfig`, registered integrations, `lastReportedRelease`, lazily loaded redactor and substrate | `init`, `captureException/Message/Log`, `reportDeploy`, `flush` | five awaits between capture and hand-over; `init` may replace every global meanwhile | one hand-over per event, redacted as the receiving transport asks, markers keep their transport |
| Go transport, `go/transport.go` | channel, retry buffer, ticker, `done` | `Send`, `Flush`, `Close`, worker | worker, flushers and `Close` are threads | as above, and queued and buffered events are tried |
| Python transport, `python/.../transport.py` | queue, buffer, stop event | `send`, `flush`, `close`, worker | `flush` retries in the caller's thread beside the worker | as above |
| Browser, Java, C#, Rust transports | buffer, `seen` fingerprints | `send`, `flush` in the caller | calls overlap; each port locks differently or not at all | as above, as far as each port keeps it |
| Gossip client, `src/p2p/client.ts` | token buckets, duplicate windows, block lists, per runtime | `createPeer`, `publish`, `admit`, `shutdown` | limits over sliding time, two keys with one peer id | bounds on what is heard; only earned blocks |
| Gossip relay, `src/p2p/server-cf.ts`, `relay.ts` | sessions, key registry, buckets, blocks | accept, message, close; hibernation | memory is lost while sockets live on | one key per peer id, fan-out to the others |
| WebSocket transport, `src/p2p/transport-ws.ts` | socket, queue, retry delay | `publish`, `shutdown`, socket events, reconnect timer | error, close and dial failures race; the queue is drained on open | one socket or one timer; order and bound of the queue |
| Causal graph, `src/causal/graph.ts` | nodes, edges, evicted ids, current node per async slot | begin, end, merge, evict | ends out of order, eviction under load | bounded, no edge to an evicted node |
| SDK clients, `client.py`, `client.go`, `client.rs`, `Capture.java`, `Capture.cs`, `browser-v2/client.ts` | configuration, transport, last release, panic handlers | `init`, capture, log, panic, `before_send`, deploy marker | `init` runs again under a capture that reads the globals one by one | one event per capture, of one `init`, each release announced |
| Forensic capture, `src/forensic/*` | mode, inspector session, ring of captures, session file | register, unregister, pair, reinstall, exit | check before an await; pairing by score | a capture reaches one event; nothing is left installed; file removed on exit |
| Python forensics, `forensic.py`, `monitoring.py` | mode, hook, seen ids, frame cache | register, unregister, dispatch, look up | ids of freed objects come back; threads | a raise is captured once; frames are the exception's own |
| Request scopes, `scope.*` of seven SDKs | one scope per request, thread, lock or process | open, give back, tag, set user, capture | awaits, threads and panics between opening and giving back | an event carries its own request's data |
| Breadcrumbs, `src/session.ts`, `src/precursors.ts` | rings; pending imports, probes | add, start, stop, sample, snapshot | rings wrap; imports settle after stop | the newest, in order; stopped means stopped |
| FullTrace, `src/fulltrace.ts` | id in window, cookie, sessionStorage | init, set, inject | tabs share one cookie that may expire or be blocked | one id per user |
| Fleet bloom, `src/fleet/client.ts` | filter, etag, interval | `init`, refresh, `close`, contribute | close before the first fetch, answers out of order | no interval after close; etag and filter belong together |
| Peer agent, `src/agent/*` | one dialogue | `onBeforeSend`, `diagnose`, tools | a deadline around a loop of requests | every tool call answered; the event leaves, unspoilt |
| Page detectors, `src/awake/*` | clicks, pending checks, samples, totals | click, mutation, timer, navigation, load | any order of callbacks, samples that dip | each burst, route, load and leak told once |
| Payload v2, `src/v2-emit.ts`, `signing.ts`, `v2-budget.ts` | `keypair.json`, cached key | create or load a key, build, trim, sign | two processes create one file, crashes; signing before rewriting | one key per machine, root over what is sent, fewest drops |
| Serializers, redactor, request scrubbing | none | walks over values, bodies, headers, URLs | shared and cyclic values, limits, seven ports | shown is true, hidden is hidden, ports agree |
| Intent sources, source context | caches keyed by mtime | compile, load, blame | files change between stat and read, with or without a new mtime; git fails; nine languages | answers are of the disk during the call, as far as mtimes tell; contracts agree |

Components interact by calls (client to transport, client to integrations), by shared module
state (`init` against events under way), and over the network (gossip). The list with the
status of every component is in PROJECT.json, as is the list of hazards with their lines.

## 2. Modules

```
EventDelivery            what a transport promises about an event (abstract)
  ^ implemented by
NodeTransport
  ^ two instances in
CaptureClient
WorkerTransport (Go, Python)        also implements EventDelivery
CallerTransport (browser, Java, C#, Rust)

RateLimits               token bucket, block list, duplicate window (operators)
  ^ used by
GossipPeer, GossipRoom, WsTransport
  ^ composed, with a network, by
GossipMesh

CausalGraph              the operations of one request

Evidence                 what goes into an event, one part per behaviour:
  ValueWalk RequestScrub IntentShapes                 operators, input -> result
  FileCaches PayloadV2 (with the token budget)        state machines

Observers                what an SDK learns from its process, one part per behaviour:
  ForensicHook (with the session file) PyForensicHook RaiseCache RequestScopes
  Breadcrumbs SessionRecorder FullTrace Precursors FleetBloom SdkClients PeerAgent Awake

SequenceLemmas           lemmas about sequences, finite sets and recursive functions
  ^ used by
NodeTransportProofs <- CaptureClientProofs (also of PayloadV2 and FileCaches),
WorkerTransportProofs, CallerTransportProofs, CausalGraphProofs, ObserversProofs;
beside them GossipMeshProofs
```

Each `MC*` module is a small instance of the module it is named for.

**Grain of a step.** In JavaScript an action is the code between two awaits (or one callback);
in Go, Python, C# and Rust a critical section; in Java, whose transport takes no lock, one
operation on a concurrent collection. A request is folded into the step that reads its result.
Payloads, headers, signatures, logging and delays are abstracted; an event is a model value with
a fingerprint, and may be one that cannot be serialised.

**EventDelivery.** `held`, `delivered`, `dropped`. An event may be given up (`MayDrop`) only if
it cannot be serialised, if one of its fingerprint stays with the SDK, or if the SDK is left
holding a full buffer; and refused (`Refuse`) only by an SDK with a full load. An SDK that does
not catch every exception may lose what a thread had in hand (`Lose`), a buffer of events at most;
of the ports only Python's does. An event that was given up may happen again (`Recur`).

**NodeTransport.** `pendingSends` are first attempts; `batches` are the runs of `flushRetries`
under way, each with its owner (a caller of `flush`, or `Background`) and what is left of it,
the event on the wire first. `SendOk`, `SendFail` and
`SendThrow` are the outcomes of `sendOne`, `BatchOk` and `BatchFail` one turn of the loop of
`flushRetries`, `FlushCall` and `FlushSettled` the two halves of `flush`.

**CaptureClient.** `stage` says before which await an event waits; `configs` is the history of
`init`, whose last member is `globalConfig`. Both transports are real instances of
NodeTransport, so their buffers, batches and flushes go on while events pass the chain. The local
transport prints an event and then stringifies its context, which throws on a cyclic one; `context`
says whether an event's is a tree, cyclic, or cyclic only below the depth at which the redactor cuts.
Where that throw ends, in the v2 branch, which goes on with v1 (`HandUnsigned`), or at the caller, is
modelled; `prints` and `thrown` are its history. What a remote transport makes of the same event is
`Unserialisable` of NodeTransport.

**WorkerTransport.** One spec for Go and Python, with `sdk` naming the port: Go's queue is
bounded and its `Flush` only watches; Python's `flush` runs `_flush_retries` itself and its
worker looks at the stop flag between two events. `ItemRaised` and `BatchRaised` are a request that
ends with an exception `_send_one` does not catch (`http.client.HTTPException`, `transport.py:216`):
the worker "died" or `flush` raised, and what the thread had in hand is `lost`.

**CallerTransport.** Four ports; `todo` and `step` of a call say what is left of its batch and
where in the code it stands. `Sound` names the histories under which a port keeps its promise:
always for Rust, unless a flush overlaps another call in the browser, until a flush in C#
(`Flush` dequeues the head, `Capture.cs:97`, which need not be what it delivered), and only
while calls do not overlap in Java.

**Gossip.** GossipPeer is a runtime of `client.ts`, GossipRoom the Durable Object of
`server-cf.ts` (the in-memory `relay.ts` has the same rules), WsTransport the client's socket
with its queue and timers, RateLimits the arithmetic all share: time in ticks, tokens in parts
of a token, and full buckets in place of entries not created yet. GossipMesh joins them with a
network that keeps the order within a connection and loses what is under way when it dies, be it
while the client drains its queue into it. `Recent` keeps the times of a window that are young
enough, as the filters of the code do. `forgot` records that the relay was unloaded: until then
the key registered first for a peer id is the only one heard (`OneKeyPerPeer`). The connections of a process are counted up with every dial; beside the
live one the relay may still believe in an older one and hold frames that came in on it. `via` of a
message is the connection it came in on, `nth` of what is heard its place in the order of hearing.

**CausalGraph.** The slot of one request: `nodes`, `edges`, `parent`, `evictedIds`, `lastSibling`
are its buffer, `current` is `currentNodeId`; `open` lists the handles not ended and `previous`
what each has closed over. `RecordOp` is `recordOp`, `EndOp` the `end` of a handle,
`EndWithSubgraph` the trailers callback of the HTTP hook, which merges the downstream graph and
then ends. `Kept` is the filter that eviction runs over the edges. `Search` is the breadth-first search of
`extractSubgraph`, level by level, `Included` all the ids it takes in and `Extracted` those of them
that are nodes of the buffer; `Chain` is what the search is for, the operations around the current
one. Requests have slots of their own and do not meet.

**Evidence.** For the pure code, `input` is one abstract input and `result` what every port
computes from it. `ValueWalk` has the serializers of Node and Python and the redactor on heaps of
two objects that may be shared and cyclic; `Evidence` states what they owe against the tree
unfolding of the heap. `RequestScrub` has the seven scrubbers of headers, bodies
and URL parameters, and `RequestsAlike`, what they owe one another; a text is of a class that tells the
three units in which the ports measure it (code points, UTF-16 units, bytes) apart. `IntentShapes` writes one abstract project in every source's language and reads it as
each of nine sources does; `TsExtract`, `ZodExtract`, ... are those readings, `CapShapeSize` is
`capShapeSize`. Sources are compared up to the names they give to inlined
schemas, which Zod does not keep below the root and OpenAPI overwrites there. In Zod a recursive schema is
taken to be written without `z.lazy`, which the source does not read; in TypeScript a list of a union is
written `Array<...>`. The last section of `PayloadV2` is the drop order of `v2-budget.ts`, compared with the least number
of drops. `FileCaches` is stepwise: a reader is between `stat` and `read` while others write or
commit; a write may leave the mtime as it was, or set it back, a repository may be a worktree whose `.git`
is a file, and git may fail. The compiler's key has the frame's mtime and the caller's commit; its sources run
one after the other. `PayloadV2` has processes that share `keypair.json`, with a crash between any two file
operations, and `prepareV2Payload` up to the wire.

**Observers.** Thirteen small state machines that share no state, composed by interleaving with
`part` saying which one a behaviour follows; each module begins with the file it models. A step is
the code between two awaits, a callback, or in threads one access to shared state.
An action of `SdkClients` is one read of a capture: Python, Java and C# read configuration, hook
and transport one by one, Go, Rust and the browser what they read under a lock or without an await.
In PyForensicHook threads are started while hooks come and go (`StartThread`) and get what
`threading.settrace` was given; they do not end. The leak detector of `Awake` looks at the heap (in MB, 0
in a browser that does not tell) and at the nodes, with the tolerance and the least growth of each.
`RequestScopes.scopeKind` is how a port keeps a scope: its own per request, a Rust context, a
thread, a swapped global, a locked one, an ASP.NET global, or ambient.

## 3. Runs

| Run | Asks | States | Verdict |
|---|---|---|---|
| `node_transport` | bound, one place, flush covers and returns, refinement | 153 k | holds |
| `capture_client` | one hand-over, redaction, markers, events end | 235 k | holds |
| `worker_transport` | as `node_transport`, for Go and Python; queue and retries are served | 235 k | holds |
| `caller_transport` | what each port keeps, under `Sound`; calls return | 108 k | holds |
| `java_silent_loss` | Transport.java:18 "mirrors the Node SDK" | | violated |
| `gossip_mesh` | one socket or timer, order, heard once, duplicate and rate bounds, earned blocks, one key per peer id | 2.69 M | holds |
| `causal_graph` | node bound, current node, edges, the chain that is extracted | 448 k | holds |
| `causal_chain` | graph.ts:285 "up the parent chain to depth `maxDepth`" | | violated |
| `evidence` | faithful data, agreeing sources, explained caches, one identity | 918 k | holds |
| `merkle_root` | PAYLOAD_V2_SPEC.md:128 "Recompute Merkle root ... Compare" | | violated |
| `observers` | told once, nothing left installed, own data, readers agree, rings in order | 1.39 M | holds |
| `node_scope` | scope.ts:3 "per-request isolation in Node.js" | | violated |

Every property of a passing run has a mutation of the code, an operator beside the one it
mutates (comment "Mutation" or "mutant"), that TLC shows to break it. The properties of
`evidence` and `observers` are conjunctions, one conjunct for each part they concern; the
conjuncts are defined in the parts' modules.

**What the violations mean.** (1) Java's `send` empties `retry` and not `seen`, so a second
failure drops the event. (2) `v2-emit.ts:157` rewrites `tokens_estimated_total`, a member of the
evidence, after the root over the evidence was signed. (3) The published Node module is an ES
module; `require` at `scope.ts:28` is undefined there, the error is caught, and every request
shares one global scope that `runWithScope` restores at the first await. (4)
`extractSubgraph` stops as soon as it has taken in `maxNodes` ids, and counts among them ids that
are no longer in the buffer: the parent of the oldest nodes, or the end of an edge admitted after
`evictedIds` was cleared. In a full buffer such an id may take the place of an ancestor that is in
it; `ChainExtracted` is the property with exactly this exception. PROJECT.json quotes the lines.

**Bounds.** A buffer of two with two events of one fingerprint, one of another and one that
cannot be serialised is the least in which a batch of two comes back to a buffer that filled
meanwhile, the partial put-back happens, and deduplication meets it; more events repeat these
cases. One flusher suffices, as background batches overlap its own; the proofs are for any
number. In WorkerTransport one event happens again and again (`Recurring`), so that Python's queue need never be
idle. In CaptureClient two inits of any of four configurations, two of them local, one event under way and two
markers; the transports get a buffer of one. Two overlapping calls (`MaxCalls`) expose every
race of CallerTransport. The mesh has two processes with two peer ids or
with two keys of one, three messages over three ticks, a queue of two, three dials a process (`MaxDials`), and one fault: a lost
connection, a failed dial or a hibernation (`MaxFaults`). A publisher gets one message a tick,
and what arrives late is heard in one tick, so that the receiver meets its rate limit, blocks the
peer for two rejections, and counts three messages of a topic with room for two (`DEDUP_MAX`);
what more faults, messages or keys could do to these properties is covered by the proofs, which
are for any number of each. `MaxTime`, `MaxStarts` and `MaxPublished` bound clock, runtimes and
messages. The causal graph
has six operations in a buffer of three, so that half of them are evicted; `EVICTED_MAX` is one
in place of four times the buffer, so that the clearing of `evictedIds` happens; the operations
are symmetric. `causal_chain` needs a buffer of four: the current operation, its child, its parent
and the grandparent that is left out. `evidence` enumerates every heap of two objects with two entries, byte budgets that cut
in the middle, bodies of two leaves, and projects of two declarations that may refer to each other
and themselves; two writes with any of three mtimes, the first of them the one the files begin with
(`MaxWrites`, `Mtimes`), three reads (`MaxReads`), two processes and three keys; bodies have texts of
five classes, two of them outside ASCII.
`observers` has two of whatever must meet (callers, throws, threads, requests, tabs, inits,
handlers) and three of what must push one of them out (`Errors` with a cache of two,
`Interactions`, `Fetches`); one request may come without the middleware (`Unwrapped`), and one
fingerprint is contributed, since no step relates two. Rings of two hold the newest of four samples
(`MaxSamples`, of counters up to `MaxSignals` = 1) or three crumbs (`MaxLogs`). Clocks are bounded
by `MaxClock` and `MaxNow` = 6, page events by `MaxSteps` = 3, raises by `MaxRaises` = 2; one of two threads is there from the start; a page has
three sizes (`PageSizes`), in the order of which the heap grows over a dip, and the window of the leak
detector is three samples; the agent's `Deadline` is two units of the
100 ms below which no chat begins, `MAX_TOOL_ITERATIONS` = 2. In SdkClients one capture is
followed, since captures share nothing they write, against two inits that differ in hook and
release.

**Assumptions on the constants** are named in the module that declares them, and TLC evaluates
them in every run. They say what the code's constants are: bounds are natural numbers and
capacities positive; sets of events, processes and operations are finite; the values that stand
for `null`, "nobody" or "no id" are none of the real ones; a downstream graph is made of its own
ids and of edges between operations; each key has one peer id; an interaction on a page is not a
navigation.

**Deadlock** is not checked anywhere: an application may stop calling, and all models may rest.

**Fairness.** Only what the code's runtimes give: a request settles and its callback runs
(Node, browser), a thread is scheduled and its request times out (Go `requestTimeout`, Python,
Java, C#, Rust), a hook's promise settles ("hooks must respect their own deadline",
`types.ts:103`). Go's `select` picks at random among ready cases, hence strong fairness for
taking from the queue and for the ticker. Python's worker does nothing else while the queue is not
empty, and sweeps only when its `get` has found the queue empty for a second, which is weak fairness:
where failing events keep coming, buffered ones wait for ever, and `NothingStarves` says so. A request
ends, but in Python perhaps with the exception that ends the worker; `NothingStarves` is about a worker that
lives. Nothing obliges the application to send or flush. Node's
`fetch` has no timeout of its own (`transport.ts:236`): a request that never settles would hang
`flush`, and `FlushReturns` assumes it away. The other
models have no liveness property: nothing obliges an application, a page or another process to act.

## 4. Proofs

Checked by TLAPS (SMT, Zenon, PTL), for every value of the constants that satisfies the named
assumption of the module, with no bound on events, callers, processes or operations.

| Proof module | Theorem | States |
|---|---|---|
| NodeTransportProofs | `TypeCorrect`, `BufferBounded`, `EventInOnePlace`, `FlushIsCovering` | `[]TypeOK`, `[]RetryBufferBounded`, `[]OnePlace`, `[]FlushCovers` |
| | `TransportImplementsDelivery` | refines EventDelivery |
| WorkerTransportProofs | `TypeCorrect`, `EventInOnePlace`, `FlushIsCovering` | `[]TypeOK`, `[]OnePlace`, `[]FlushCovers` |
| | `TransportImplementsDelivery` | refines EventDelivery |
| CallerTransportProofs | `TypeCorrect`, `EventInOneHand` | `[]TypeOK`, `[]OneCopy` |
| | `LossExplained` | the action property `NoSilentLoss` |
| CaptureClientProofs | `TypeCorrect`, `EventHandedOnce`, `RedactionFits`, `DeployGoesHome` | `[]TypeOK`, `[]HandedOnce`, `[]RedactionMatchesTransport`, `[]DeployKeepsTransport` |
| | `OneKeyInMemory` | `[]OneIdentity` of PayloadV2 |
| | `CachesAnswerForTheirCall` | `[]CachesExplained` of FileCaches |
| | `FewestDrops` | `LeastDrops` of every event: the budget's part of `DataFaithful` |
| | `RequestsScrubbedAlike` | `RequestsAlike` for every body: the requests' part of `DataFaithful` |
| GossipMeshProofs | `TypeCorrect`, `OneWayBack`, `OrderKept`, `WindowBounded`, `LimitsHold`, `FirstKeyStays` | `[]TypeOK`, `[]SocketOrTimer`, `[]InOrder`, `[]DedupBound`, `[]LimitsKept`, `[]OneKeyPerPeer` |
| CausalGraphProofs | `TypeCorrect`, `InnermostIsCurrent`, `DanglingIsExplained`, `ChainIsExtracted` | `[]TypeOK`, `[]CurrentIsInnermost`, `[]DanglingExplained`, `[]ChainExtracted` |
| ObserversProofs | `TypesKept`, `RegistrationStays`, `ReadersDoAgree` | `[]TypeOK`, `[]RegistrationHolds`, `[]ReadersAgree` |
| | `EverythingToldOnce`, `EventsCarryTheirOwn`, `RingsStayInOrder` | `[]CapturedOnce`, `[]OwnDataOnly`, `[]RingsInOrder` |

Each module proves one invariant `IInv` inductive, with one lemma per action (or per group of
actions with one effect), and derives its theorems from it. Why the properties alone are not
inductive:

*NodeTransport.* A step of a batch takes the head of its queue, so no batch may be
empty; and a flush stands at "retrying" exactly while it has one batch of its own, or its return
could not be told from the end of another's: both are `AwaitedBatch`. `FlushCovers` speaks of the
moment of return; `FlushOwes` says at every stage where the events the flush found may be: among
the sends it awaits, in the buffer, in a batch or acknowledged while it settles its sends, and
acknowledged or in a batch afterwards, unless an attempt failed. The refinement uses the same
invariant; its core is that what `Kept` leaves out finds a buffer of `MAX_RETRY_BUFFER` distinct
events (`FullBufferAllowsDrop`), the third reason of `MayDrop`.

*WorkerTransport.* The same plan with threads for owners: `BatchWhileRetrying` ties a thread's
batch to where it stands in `flush_retries`, and `FlushOwes` follows a flush from polling over
drained to returned, leaving out what is in the worker's hand in Go, which `Flush` does not watch.
An exception is a `Lose` of EventDelivery, for a thread has one event in hand, or a batch (`BatchFits`) that came out of the
buffer.

*CallerTransport.* One invariant for four ports. `Alone`, `NotFlushing`, `Bounded` and
`SeenIsHeld` hold in every history; `Promised` (distinct events, in one hand, copies still in the
buffer, fingerprints recorded) only in a `Sound` one, so the invariant has `Sound => Promised`.
`OneCopy` follows, and `NoSilentLoss` from the same facts about the step.

*CaptureClient.* `P1` and `P2` are two instances of NodeTransportProofs, so that each transport's
invariant and the lemmas about its actions are used and not repeated. `WhereItWent` says that what
a transport has reached is what was handed to it; `PrintsCounted` and `ThrownState` follow an event on
which the local transport threw until it is printed again; `DeployState` at which init a marker may be due.

*GossipMesh.* `OncePerMessage` separates all the places a message may be in (queues, uplinks,
downlinks, what was heard), which makes uniqueness local to a step. For the order a second invariant is
proved on top of `IInv`: `SendOrder`, that what a process sent on one connection is older than what it sent
on the next and that older than what it queues, and `HearOrder`, that what came in on one connection goes down
each other in that order and is heard so. `BucketPays` is the
invariant of a token bucket: from any moment on, what was heard and the tokens left are paid for
by a full bucket and its gain; the rate bound of `LimitsKept` is its instance. `WindowCounts` says
that a window counts all that was heard within its reach, `BlockExplained` that what counts
towards a block was rejected, and `KeyKnown` that a relay that forgot nothing has registered the
key of every message it sent on.

*CausalGraph.* `Known` and `Accounted` say that every id seen is in the buffer, evicted, or
cleared from the evicted ids, so that an edge can dangle only for the reasons the property names;
`Nesting` that the open handles are a stack as long as they are ended as one. `Kept` is a recursive
function; what it keeps is proved by `IndexInduction` over the set of indices at which
the claim holds. So are `Search`, `Deepen`, `IncludeAll` and `Ancestor`. `ChainExtracted` is a fact about these
operators in any state of the right types: each step of the search extends what was included
(`Extends`), a search with room left has looked at all that is next to what it has seen
(`SeenIsSearched`), so that level `d` holds the ancestor `d` steps up (`RoomSuffices`), and a full one
whose ids are all in the buffer holds the buffer (`FullIsAll`).

*Payload key and file caches.* `IdentityInv`: until two creations met or a read failed, a process
creates only while the file holds no key and no other does, so no key is in memory that is not the
file's. `FilesInv`: an entry is kept under a sum of mtimes its files had before they were read (`Keyed`). As
long as each write brings an mtime later than all before, which `newer` and `retimed` record, a
later `stat` that finds the same sum finds files not written since; two readers that saw one
key may hold different contents, each on the disk during the calls of both (`LoadsAnswer`).
`ContractsAnswer` says the same of the compiler's entries, commit by commit; `HeadRead` and `BlamesAnswer` that a
blame is no older than the commit it is kept under, and that no older than the last write of `.git/HEAD`
that was read.

*Token budget and requests.* `Stops` is carried through the numbered steps of `applyTokenBudget`:
what is left is the event after some of the first `k` drops, none fewer makes it fit, and it fits or
all `k` are spent; the two drops of the locals, with the container that goes when nothing is left in it, are
`StopsAtLocals`. The estimate stays closed, so the result holds for any. `Image` is what becomes of
one leaf of a body; the first sensitive name above a leaf is unique (`FirstHidden`) and stays where it was in what
stands for the hidden part (`HiddenInPrefix`), hence a second redaction finds the same; what was cut is
not cut again, unless it bears only Rust's mark.

*Observers.* The parts share no state: `EachSteps` says that a step of the whole is a step of one
part and leaves the others, so the invariant is a conjunction with a conjunct or two for each part, in
two halves. `IInv` says how each part stands: `HookInv` holds
mode, session and listening together under overlapping unregistrations; `PyInv` says that a thread
past the check finds no mode under the lock, and that a thread with our trace function is the
registered one or was started while one was (`TracingExplained`); `SamplerInv` that a state is made only when no probe is
left; `FleetInv` that the fetch under way asked about the filter in use and is answered by no
older one; `TraceInv` that with cookies the first tab to write sets the id of all, and that without
them each keeps what it stored; `ScopesInv`, one part for each way to keep a scope, what may be in
the place a request writes to and what each has to put back; `CacheInv` that the cache has the frames of an
error's own raises until as many other errors came as it has room for; `ClientInv` of which init
configuration and transport are; `AgentInv` that a call of the dialogue is answered before the next
chat. `Told` compares what a part has told with what has happened: `HookTold` and `PyTold` follow a
throw and an exception from one place to the next; `SamplerTold` says that of two samples in
the ring a counter differs just where its channel signalled in between; `CrumbsTold` that the ring is the
end of all that was left; `RecorderTold` that each event of the one recorder is in the buffer once
and in order; `ClientTold` what a capture may still send and that a release is announced again only
after another; `AwakeTold` sets the reports of clicks, checks, routes and loads against the clicks, page
changes and navigations they are due to, and a leak against the windows of samples up to then, none of
which grew.

*SequenceLemmas* has what the arguments share: appending a new element, joining disjoint
sequences, a head or a middle removed, a prefix, each with its range and injectivity; the size of
a buffer without repetition; the least and the greatest of a set of indices; `Iterated`, that
steps which stay in a set define a function, which is what a recursive definition wants; and
`IndexInduction`. The induction theorems of the library take an
operator as a parameter, which the provers cannot instantiate; over a *set* of indices the
principle is first-order and follows from the least element.

*Only model-checked:* the liveness properties (`FlushReturns`, `CaptureEnds`, `NothingStarves`,
`CallsReturn`: fairness and `ENABLED` are beyond the prover), and of Evidence the walks of `DataFaithful` and
`SourcesAgree`, what recursive operators compute on heaps and projects, which no backend takes; the other two parts
of `DataFaithful`, `LeastDrops` and `RequestsAlike`, are proved as facts about the operators, `Evidence` itself
being out of the provers' reach. Every other invariant, action property and refinement of a passing run is stated by a theorem.

## 5. Not modelled

* A second, overlapping `Close` in Go, which closes a channel twice (`go/transport.go:303`), and
  the loss of what is queued when `Close` ends the worker.
* Clock skew between peers (one clock), forged or malformed messages (messages are those
  `publish` makes), workspaces other than one, a subscriber that throws.
* The in-memory relay's own `connect` and `shutdown`.
* The fan-out leaves out the sending *socket*, not the sending process: a process that has
  reconnected may get its own message back, read late from its old connection. The mesh allows
  it; no property forbids it.
* A capture in SdkClients that runs beside another one: they write nothing in common.
* Text: parsing of sources, regular expressions of the redactor, fingerprint normalisation,
  formatting of events. Where a property needs it, a text is a member of a small class.
* Shield (matching of request values against the arguments of sinks), the feedback widget, the
  measurements of `performance` and the one-shot detectors of `awake`: no state of their own.
* Command line, doctor, bundler plugins, MCP server, edge entry points: files and arguments are
  rewritten without a life cycle; the edge entries replace features by empty functions.
* The patches of database drivers around the causal graph's `recordOp`.

## 6. Not violations, but worth knowing

Behaviour the models made visible. The properties are stated so that they hold; these are the
exceptions they name, or facts beside them.

*Transports.* In Node a buffered event is tried again after a later success or by `flush`, and by
nothing else. Node's `flush` awaits the transport and not the chain before it (`client.ts:122`
says "all pending events"). Go's `Flush` looks at the channel and the buffer, not at the event in
the worker's hand (`go/client.go:292` says "blocks until queued events are sent"). A Go user of a
transport that a second `Init` closed gets no error. Python's worker ends with an exception outside
`URLError`, `TimeoutError` and `OSError` (`transport.py:216`, 258-264); what is queued then is never sent, and
`flush` waits out its deadline. While failing events keep its queue busy, Python retries nothing.

*Client.* The local transport throws after it has printed an event with a cyclic context
(`transport.ts:187`); if signing had failed, the catch at `client.ts:98` hands the same event over and it is
printed again. `client.ts:54` leaves the loop at the first integration without `onBeforeSend`, so those
behind it are skipped (line 41: "Run all"). Python's `init` says a second call "reuses the config"
(`client.py:78`); it replaces configuration and transport and leaves the old worker running.
Concurrent inits in Python and C# can leave the configuration of one with the transport of the
other for ever. Java and C# read `beforeSend` twice; an `init` between may take it away. Rust holds
its lock while the hook runs, so a hook that calls `init` waits for itself; its `before_send`
survives an `init` without one. Panic handlers of Rust, Java and C# stack, one event each. Only Python
catches what `before_send` throws; only Node, Python and Go send deploy markers.

*Scopes.* Rust's axum layer isolates the request context but not user and tags (`axum.rs:62`). The
ASP.NET middleware calls `Scope.WithScope(() => { })`, which opens and closes a scope around nothing
(`AspNetCoreMiddleware.cs:20`). User and tags of a Go context never reach an event
(`go/client.go:125-132`). Node, Python and Go redact the first level of a body only, the others all;
the field lists differ though `python/scope.py:13` calls them in sync; `x-forwarded-for` is hidden
by some ports only. A text is measured in characters, UTF-16 units or bytes, so the ports cut others outside ASCII;
Rust tests bytes and takes characters (`scope.rs:106`), so it marks a text as truncated that it left whole, once
for each time it is redacted.

*Gossip.* After a hibernation of the Durable Object each restored socket is closed with 1011 at its
first frame (`server-cf.ts:144`), and that frame is lost.

*Causal graph.* Two operations that overlap and end in the order they began leave `currentNodeId`
at one that has ended (`graph.ts:255`). A search looks at all that is next to a node, both ends of its
edges, before it goes a level up. A downstream graph merged after its request was evicted
hangs on a node that is gone, and the serialiser drops that edge.

*Forensics.* Overlapping `registerForensicHook` calls both pass (`index.ts:43,63`); a failed
re-install of the session file leaves the first one behind (`session-file.ts:180`); Python's
dedupe and frame cache are keyed by `id()`, which comes back. `monitoring.py:6` promises an eviction
that line 206 says does not exist. `threading.settrace` gives Python's trace function to every thread started
while a hook is registered, and unregister clears it in the calling thread alone (`forensic.py:666, 674`).
Node's serializer shows a shared object as `[Circular]`; the byte cap of a value (`types.ts:78`) is
charged by leaves that are not null (in Python, nor booleans), so nulls, keys, punctuation and the marks of what is hidden
come on top of it.

*Fleet, FullTrace, recorder.* `close` during `init` leaves the interval; of two overlapping
fetches the older may win. FullTrace says its cookie is renewed on every emit; only init and set
do. `session.ts` stores a navigation after later clicks, and keeps the raw text of rrweb events.

*Peer agent.* The deadline is said to be for the whole call (`agent.ts:70`); each chat gets all
of it, so the call may take almost twice that. Tool arguments `null` throw away the whole diagnosis.

*Page.* `pagehide` disconnects the mutation observer for good, so after a return from the
back-forward cache every interactive click is dead; a change within the click's own millisecond
does not count; `popstate` takes two leak samples per navigation; a third party's impact below the
threshold of an interval is dropped.

*Payload and caches.* Redaction after signing breaks the root as well. Contracts are cached under
the frame's mtime and the caller's commit, so a changed schema goes unseen; paths once missing stay missing; blame
survives a commit until `.git/HEAD` is written, and in a worktree or submodule, where `.git` is a file, for as long
as the file's mtime stays (`source-context.ts:187, 264`); a blame that failed is asked for again. Two processes that create a key at once may each keep
one; the file has the later.

*Intent sources.* A nullable object becomes an enum of type names in TypeScript and OpenAPI, an
enum cut to size claims "object", an unknown symbol falls back to the first schema, and a cut leaf
can be larger than what it replaces.

## 7. Left

The modules are written and the invariants proved but for those section 4 names. What remains is
outside the tools (liveness, recursion over data) or listed in section 5.

## 8. Running

`tlc -config X.cfg M` for each run of PROJECT.json; `tlapm M.tla` for each proof module, of which
ObserversProofs takes about eleven minutes, CaptureClientProofs seven and GossipMeshProofs three. With two workers
`observers` and `gossip_mesh` take about three minutes, every other run about one.
