--------------------------- MODULE WorkerTransport ---------------------------
(***************************************************************************)
(* The transports of the Go SDK (go/transport.go) and of the Python SDK    *)
(* (python/src/inariwatch_capture/transport.py).  Both put an event on a   *)
(* queue that one worker thread serves, and keep failed events in a retry  *)
(* buffer that the worker tries again after every success and when it is   *)
(* idle.  They differ where "sdk" is tested: the Go queue is bounded; Go's *)
(* Flush only watches, Python's flush retries in the caller's thread; the  *)
(* Python worker looks at the stop flag between two events, and an         *)
(* exception that _send_one does not catch ends the thread it is in.       *)
(*                                                                         *)
(* A step is a critical section, or a request folded into the step that    *)
(* reads its result.  The endpoint is external; "answered" is an answer    *)
(* for good: 2xx, or 4xx, which both SDKs take as final.                   *)
(***************************************************************************)
EXTENDS Naturals, Sequences, FiniteSets, Functions

CONSTANTS
  Sdks,             \* the SDKs under study, a subset of {"go", "python"}
  Events, FingerprintOf, Unserialisable,
  Recurring,        \* the events that happen again after they were given up
  MAX_RETRY_BUFFER, \* maxRetryBuffer, _MAX_RETRY_BUFFER
  QueueDepth,       \* sendQueueDepth, the capacity of Go's queue
  Flushers,         \* the callers of flush
  Worker,           \* the worker thread, as the owner of a batch
  NoEvent

ASSUME WorkerTransportAssumption ==
  /\ Sdks \subseteq {"go", "python"}
  /\ IsFiniteSet(Events)
  /\ DOMAIN FingerprintOf = Events
  /\ Unserialisable \subseteq Events
  /\ MAX_RETRY_BUFFER \in Nat \ {0}
  /\ QueueDepth \in Nat /\ QueueDepth >= MAX_RETRY_BUFFER
  /\ Worker \notin Flushers
  /\ NoEvent \notin Events

VARIABLES
  sdk,        \* which SDK this is
  queue,      \* events waiting for the worker
  worker,     \* where the worker stands; "died" of an exception
  item,       \* the event the worker is sending
  retry,      \* the retry buffer
  batch,      \* what is left of each thread's flush_retries, head on the wire
  stopping,   \* "no", "asked" (Close was called), "seen" (None was taken)
  flusher,    \* where each caller of flush stands
  answered,   \* events the endpoint answered for good
  dropped,    \* events given up
  lost,       \* events a thread had in hand when an exception ended it
  owed,       \* history: events in the transport when each flush began
  troubled    \* history: an attempt has failed since that flush began

vars == <<sdk, queue, worker, item, retry, batch, stopping, flusher, answered,
          dropped, lost, owed, troubled>>

Owners == Flushers \cup {Worker}
InItem == {item} \ {NoEvent}
InBatch == UNION {Range(batch[o]) : o \in Owners}
Held == Range(queue) \cup InItem \cup Range(retry) \cup InBatch

TypeOK ==
  /\ sdk \in Sdks
  /\ queue \in Seq(Events) /\ (sdk = "go" => Len(queue) <= QueueDepth)
  /\ worker \in {"waiting", "sending", "retrying", "sweeping", "stopped", "died"}
  /\ item \in Events \cup {NoEvent}
  /\ (worker = "sending") <=> (item # NoEvent)
  /\ retry \in Seq(Events) /\ Len(retry) <= MAX_RETRY_BUFFER
  /\ batch \in [Owners -> Seq(Events)]
  /\ stopping \in {"no", "asked", "seen"}
  /\ flusher \in [Flushers -> {"idle", "polling", "drained", "retrying",
                               "returned", "timedOut", "raised"}]
  /\ answered \subseteq Events
  /\ dropped \subseteq Events
  /\ lost \subseteq Events
  /\ owed \in [Flushers -> SUBSET Events]
  /\ troubled \in [Flushers -> BOOLEAN]

Init ==
  /\ sdk \in Sdks
  /\ queue = <<>>
  /\ worker = "waiting"
  /\ item = NoEvent
  /\ retry = <<>>
  /\ batch = [o \in Owners |-> <<>>]
  /\ stopping = "no"
  /\ flusher = [f \in Flushers |-> "idle"]
  /\ answered = {}
  /\ dropped = {}
  /\ lost = {}
  /\ owed = [f \in Flushers |-> {}]
  /\ troubled = [f \in Flushers |-> FALSE]

-----------------------------------------------------------------------------
(* Helpers *)

\* Python's loops look at the stop flag before each event.
PythonStops == sdk = "python" /\ stopping # "no"

\* Where the worker goes from the end of an iteration.
NextWorker == IF PythonStops THEN "stopped" ELSE "waiting"

NoteFailure == troubled' = [f \in Flushers |-> TRUE]

\* _send_one returned true: a malformed event is dropped, any other is answered.
Settled(e) ==
  IF e \in Unserialisable
  THEN dropped' = dropped \cup {e} /\ UNCHANGED answered
  ELSE answered' = answered \cup {e} /\ UNCHANGED dropped

\* Mutation: the buffer is copied, not taken.
TakeRetriesCopying(o) ==
  /\ batch' = [batch EXCEPT ![o] = retry]
  /\ UNCHANGED retry

\* The first critical section of flush_retries.
TakeRetries(o) ==
  /\ batch' = [batch EXCEPT ![o] = retry]
  /\ retry' = <<>>

Room == MAX_RETRY_BUFFER - Len(retry)

\* Mutation: the put-back loop does not look at the capacity.
KeptAll(q) == q

\* The part of a batch that the put-back loop finds room for.
Kept(q) == SubSeq(q, 1, IF Len(q) <= Room THEN Len(q) ELSE Room)

\* Mutation: the event that failed is not put back.
PutBackTail(o) ==
  LET rest == Tail(batch[o])
  IN  /\ retry' = retry \o Kept(rest)
      /\ dropped' = dropped \cup (Range(batch[o]) \ Range(Kept(rest)))
      /\ batch' = [batch EXCEPT ![o] = <<>>]

\* The second critical section of flush_retries.
PutBack(o) ==
  /\ retry' = retry \o Kept(batch[o])
  /\ dropped' = dropped \cup (Range(batch[o]) \ Range(Kept(batch[o])))
  /\ batch' = [batch EXCEPT ![o] = <<>>]

\* The thread o comes back from flush_retries.
BatchOver(o) ==
  IF o = Worker
  THEN worker' = NextWorker /\ UNCHANGED flusher
  ELSE flusher' = [flusher EXCEPT ![o] = "returned"] /\ UNCHANGED worker

-----------------------------------------------------------------------------
(* send *)

\* An event that was given up happens again: for a flush that found it, the
\* first one is settled.
Recur(e) ==
  /\ e \in dropped \cap Recurring
  /\ dropped' = dropped \ {e}
  /\ owed' = [f \in Flushers |-> owed[f] \ {e}]
  /\ UNCHANGED <<sdk, queue, worker, item, retry, batch, stopping, flusher, answered,
                 lost, troubled>>

\* Go gives up an event that finds the queue full; Python's queue is unbounded.
Send(e) ==
  /\ e \notin Held \cup answered \cup dropped \cup lost
  /\ IF sdk = "go" /\ Len(queue) = QueueDepth
     THEN dropped' = dropped \cup {e} /\ UNCHANGED queue
     ELSE queue' = Append(queue, e) /\ UNCHANGED dropped
  /\ UNCHANGED <<sdk, worker, item, retry, batch, stopping, flusher, answered, lost,
                 owed, troubled>>

-----------------------------------------------------------------------------
(* The worker: run, _run *)

Take ==
  /\ worker = "waiting"
  /\ queue # <<>>
  /\ worker' = "sending"
  /\ item' = Head(queue)
  /\ queue' = Tail(queue)
  /\ UNCHANGED <<sdk, retry, batch, stopping, flusher, answered, dropped, lost, owed,
                 troubled>>

ItemDone ==
  /\ worker = "sending"
  /\ Settled(item)
  /\ item' = NoEvent
  /\ TakeRetries(Worker)
  /\ worker' = IF retry = <<>> THEN NextWorker ELSE "retrying"
  /\ UNCHANGED <<sdk, queue, stopping, flusher, lost, owed, troubled>>

\* enqueueRetry: nothing happens when the buffer is full or has the fingerprint.
ItemFailed ==
  /\ worker = "sending"
  /\ item \notin Unserialisable
  /\ IF /\ Len(retry) < MAX_RETRY_BUFFER
        /\ \A x \in Range(retry) : FingerprintOf[x] # FingerprintOf[item]
     THEN retry' = Append(retry, item) /\ UNCHANGED dropped
     ELSE dropped' = dropped \cup {item} /\ UNCHANGED retry
  /\ item' = NoEvent
  /\ worker' = NextWorker
  /\ NoteFailure
  /\ UNCHANGED <<sdk, queue, batch, stopping, flusher, answered, lost, owed>>

\* The request ends with an exception that _send_one does not catch
\* (http.client.HTTPException): _run only counts the item, and its thread ends.
ItemRaised ==
  /\ sdk = "python"
  /\ worker = "sending"
  /\ item \notin Unserialisable
  /\ lost' = lost \cup {item}
  /\ item' = NoEvent
  /\ worker' = "died"
  /\ NoteFailure
  /\ UNCHANGED <<sdk, queue, retry, batch, stopping, flusher, answered, dropped, owed>>

\* Go's ticker fires; Python's queue.get timed out on an empty queue.
Sweep ==
  /\ worker = "waiting"
  /\ retry # <<>>
  /\ sdk = "python" => queue = <<>>
  /\ TakeRetries(Worker)
  /\ worker' = "sweeping"
  /\ UNCHANGED <<sdk, queue, item, stopping, flusher, answered, dropped, lost, owed,
                 troubled>>

\* Go's select sees done, whatever is still queued.  Python's loop sees the flag
\* before its next get, and the None of close stays on the queue; or its get
\* returns that None, which is behind every event and then counts as finished.
WorkerStop ==
  /\ worker = "waiting"
  /\ stopping = "asked"
  /\ worker' = "stopped"
  /\ \/ sdk = "python" /\ UNCHANGED stopping
     \/ (sdk = "python" => queue = <<>>) /\ stopping' = "seen"
  /\ UNCHANGED <<sdk, queue, item, retry, batch, flusher, answered, dropped, lost,
                 owed, troubled>>

-----------------------------------------------------------------------------
(* flush_retries, by the worker or by a caller of Python's flush *)

BatchDone(o) ==
  /\ batch[o] # <<>>
  /\ ~PythonStops
  /\ Settled(Head(batch[o]))
  /\ batch' = [batch EXCEPT ![o] = Tail(@)]
  /\ IF Len(batch[o]) = 1 THEN BatchOver(o) ELSE UNCHANGED <<worker, flusher>>
  /\ UNCHANGED <<sdk, queue, item, retry, stopping, lost, owed, troubled>>

\* Mutation: the loop goes on with the next event and comes back to this one.
BatchFailedRotates(o) ==
  /\ batch[o] # <<>>
  /\ PythonStops \/ Head(batch[o]) \notin Unserialisable
  /\ batch' = [batch EXCEPT ![o] = Append(Tail(@), Head(@))]
  /\ NoteFailure
  /\ UNCHANGED <<sdk, queue, worker, item, retry, stopping, flusher, answered, dropped,
                 lost, owed>>

\* The attempt failed, or Python's loop saw the stop flag before it.
BatchFailed(o) ==
  /\ batch[o] # <<>>
  /\ PythonStops \/ Head(batch[o]) \notin Unserialisable
  /\ PutBack(o)
  /\ BatchOver(o)
  /\ NoteFailure
  /\ UNCHANGED <<sdk, queue, item, stopping, answered, lost, owed>>

\* The same exception from a batch: what is left of it was taken from the buffer
\* and goes with the worker's thread, or with flush, which raises at its caller.
BatchRaised(o) ==
  /\ sdk = "python"
  /\ batch[o] # <<>>
  /\ ~PythonStops
  /\ Head(batch[o]) \notin Unserialisable
  /\ lost' = lost \cup Range(batch[o])
  /\ batch' = [batch EXCEPT ![o] = <<>>]
  /\ IF o = Worker
     THEN worker' = "died" /\ UNCHANGED flusher
     ELSE flusher' = [flusher EXCEPT ![o] = "raised"] /\ UNCHANGED worker
  /\ NoteFailure
  /\ UNCHANGED <<sdk, queue, item, retry, stopping, answered, dropped, owed>>

-----------------------------------------------------------------------------
(* flush and close *)

FlushCall(f) ==
  /\ flusher[f] \in {"idle", "returned", "timedOut", "raised"}
  /\ flusher' = [flusher EXCEPT ![f] = "polling"]
  /\ owed' = [owed EXCEPT ![f] = Held]
  /\ troubled' = [troubled EXCEPT ![f] = FALSE]
  /\ UNCHANGED <<sdk, queue, worker, item, retry, batch, stopping, answered, dropped,
                 lost>>

\* Mutation: Python's flush looks at the queue's length, as Go's does.
QueueDrainedByLength(f) ==
  /\ flusher[f] = "polling"
  /\ queue = <<>>
  /\ flusher' = [flusher EXCEPT ![f] = "drained"]
  /\ UNCHANGED <<sdk, queue, worker, item, retry, batch, stopping, answered, dropped,
                 lost, owed, troubled>>

\* Go: the channel is empty.  Python: no unfinished task, which counts the event
\* the worker is busy with and the None of close.
QueueDrained(f) ==
  /\ flusher[f] = "polling"
  /\ queue = <<>>
  /\ sdk = "python" => worker \notin {"sending", "retrying"} /\ stopping # "asked"
  /\ flusher' = [flusher EXCEPT ![f] = "drained"]
  /\ UNCHANGED <<sdk, queue, worker, item, retry, batch, stopping, answered, dropped,
                 lost, owed, troubled>>

\* Go reads the retry buffer under its lock, and starts over if there is any.
RetryRead(f) ==
  /\ sdk = "go"
  /\ flusher[f] = "drained"
  /\ flusher' = [flusher EXCEPT ![f] = IF retry = <<>> THEN "returned" ELSE "polling"]
  /\ UNCHANGED <<sdk, queue, worker, item, retry, batch, stopping, answered, dropped,
                 lost, owed, troubled>>

\* Python's flush runs _flush_retries itself.
FlushRetry(f) ==
  /\ sdk = "python"
  /\ flusher[f] = "drained"
  /\ TakeRetries(f)
  /\ flusher' = [flusher EXCEPT ![f] = IF retry = <<>> THEN "returned" ELSE "retrying"]
  /\ UNCHANGED <<sdk, queue, worker, item, stopping, answered, dropped, lost, owed,
                 troubled>>

\* The deadline passes: Go looks at it only before it reads the queue.
FlushTimeout(f) ==
  /\ flusher[f] = "polling" \/ (sdk = "python" /\ flusher[f] = "drained")
  /\ flusher' = [flusher EXCEPT ![f] = "timedOut"]
  /\ UNCHANGED <<sdk, queue, worker, item, retry, batch, stopping, answered, dropped,
                 lost, owed, troubled>>

\* Close, close: at most one call, for a second one overlapping the first would
\* close Go's channel twice.
Close ==
  /\ stopping = "no"
  /\ stopping' = "asked"
  /\ UNCHANGED <<sdk, queue, worker, item, retry, batch, flusher, answered, dropped,
                 lost, owed, troubled>>

-----------------------------------------------------------------------------

Next ==
  \/ \E e \in Events : Recur(e)
  \/ \E e \in Events : Send(e)
  \/ Take
  \/ ItemDone
  \/ ItemFailed
  \/ ItemRaised
  \/ Sweep
  \/ WorkerStop
  \/ \E o \in Owners : BatchDone(o)
  \/ \E o \in Owners : BatchFailed(o)
  \/ \E o \in Owners : BatchRaised(o)
  \/ \E f \in Flushers : FlushCall(f)
  \/ \E f \in Flushers : QueueDrained(f)
  \/ \E f \in Flushers : RetryRead(f)
  \/ \E f \in Flushers : FlushRetry(f)
  \/ \E f \in Flushers : FlushTimeout(f)
  \/ Close

Spec == Init /\ [][Next]_vars

\* A live worker is scheduled and a request ends (requestTimeout), well, badly or,
\* in Python, with an exception.  Go's select picks at random among the cases that
\* are ready, so one that is ready again and again is picked in the end; Python
\* sweeps only after a whole second without an event.
Fairness ==
  /\ SF_vars(Take)
  /\ SF_vars(sdk = "go" /\ Sweep)
  /\ WF_vars(Sweep)
  /\ WF_vars(ItemDone \/ ItemFailed \/ ItemRaised)
  /\ \A o \in Owners : WF_vars(BatchDone(o) \/ BatchFailed(o) \/ BatchRaised(o))

FairSpec == Spec /\ Fairness

-----------------------------------------------------------------------------
(* Properties *)

\* An event is in one place though the worker and a caller of Python's flush
\* may both run flush_retries: queued, with the worker, in the buffer, in one
\* thread's batch, answered, dropped or lost (transport.go:212-270,
\* transport.py:220-264).
OnePlace ==
  /\ Range(queue) \cap (InItem \cup Range(retry) \cup InBatch) = {}
  /\ InItem \cap (Range(retry) \cup InBatch) = {}
  /\ Range(retry) \cap InBatch = {}
  /\ Held \cap (answered \cup dropped \cup lost) = {}
  /\ answered \cap dropped = {}
  /\ lost \cap (answered \cup dropped) = {}
  /\ IsInjective(queue) /\ IsInjective(retry)
  /\ \A o, p \in Owners :
       /\ IsInjective(batch[o])
       /\ o # p => Range(batch[o]) \cap Range(batch[p]) = {}

\* Refinement: an event is given up only for the reasons of EventDelivery; a
\* full queue is the one reason to refuse an event, and no more than a buffer of
\* events is lost at a time.
Delivery == INSTANCE EventDelivery
  WITH held <- Held, delivered <- answered, Capacity <- MAX_RETRY_BUFFER

ImplementsDelivery == Delivery!Spec

\* When flush returns before its deadline and nothing failed since it was
\* called, what the transport held then is settled or is in a batch of another
\* thread; in Go it may also be with the worker, which Flush does not watch.
FlushCovers ==
  \A f \in Flushers :
    flusher[f] = "returned" /\ ~troubled[f]
      => owed[f] \subseteq answered \cup dropped \cup InBatch
                             \cup (IF sdk = "go" THEN InItem ELSE {})

\* Until Close, or until Python's worker dies of an exception, the worker gets to
\* every queued event, however busy the retry buffer keeps it, and a buffered event
\* is tried again without the application's help (the ticker, the get timeout) --
\* in Python unless events that fail keep coming: its worker retries only after a
\* success or a second without an event (transport.py:247-264).
NothingStarves ==
  LET Over == stopping # "no" \/ worker = "died"
  IN  /\ \A e \in Events : e \in Range(queue) ~> e \notin Range(queue) \/ Over
      /\ \/ sdk = "python" /\ []<><<ItemFailed>>_vars
         \/ \A e \in Events : e \in Range(retry) ~> e \notin Range(retry) \/ Over

=============================================================================
