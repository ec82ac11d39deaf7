---------------------------- MODULE NodeTransport ----------------------------
(***************************************************************************)
(* The transport of the Node SDK, createTransport in src/src/transport.ts: *)
(* send, flush and the retry buffer they share.                            *)
(*                                                                         *)
(* JavaScript runs one callback at a time, so an action is the code        *)
(* between two awaits.  The only awaits are those of sendOne (the request) *)
(* and of flush (the pending sends, then its flushRetries).  The endpoint  *)
(* is external: a request ends well (2xx) or badly (any other status, or a *)
(* network error), at any time.                                            *)
(***************************************************************************)
EXTENDS Naturals, Sequences, FiniteSets, Functions

CONSTANTS
  Events,           \* the events handed to send, each an object of its own
  FingerprintOf,    \* the fingerprint of each event
  Unserialisable,   \* events whose sendOne throws before the request is made
  MAX_RETRY_BUFFER, \* capacity of the retry buffer
  Flushers,         \* the callers of flush
  Background        \* owner of a flushRetries that nobody awaits

ASSUME NodeTransportAssumption ==
  /\ IsFiniteSet(Events)
  /\ DOMAIN FingerprintOf = Events
  /\ Unserialisable \subseteq Events
  /\ MAX_RETRY_BUFFER \in Nat \ {0}
  /\ Background \notin Flushers

VARIABLES
  retryBuffer,   \* sequence of events waiting for another attempt
  pendingSends,  \* events whose first attempt has not settled
  batches,       \* the flushRetries in progress: who awaits it, what is left
  flusher,       \* where each caller of flush stands
  awaited,       \* the pending sends each flush found when it was called
  acked,         \* events the endpoint acknowledged
  dropped,       \* events given up
  owed,          \* history: events in the transport when each flush began
  troubled       \* history: an attempt has failed since that flush began

vars == <<retryBuffer, pendingSends, batches, flusher, awaited, acked, dropped,
          owed, troubled>>

Owners == Flushers \cup {Background}

\* A flushRetries in progress.  Its head is the event on the wire.
Batch == [owner : Owners, queue : Seq(Events)]

InFlight == UNION {Range(b.queue) : b \in batches}
Held == pendingSends \cup Range(retryBuffer) \cup InFlight

TypeOK ==
  /\ retryBuffer \in Seq(Events)
  /\ pendingSends \subseteq Events
  /\ batches \subseteq Batch
  /\ flusher \in [Flushers -> {"idle", "settling", "retrying", "returned"}]
  /\ awaited \in [Flushers -> SUBSET Events]
  /\ acked \subseteq Events
  /\ dropped \subseteq Events
  /\ owed \in [Flushers -> SUBSET Events]
  /\ troubled \in [Flushers -> BOOLEAN]

Init ==
  /\ retryBuffer = <<>>
  /\ pendingSends = {}
  /\ batches = {}
  /\ flusher = [f \in Flushers |-> "idle"]
  /\ awaited = [f \in Flushers |-> {}]
  /\ acked = {}
  /\ dropped = {}
  /\ owed = [f \in Flushers |-> {}]
  /\ troubled = [f \in Flushers |-> FALSE]

-----------------------------------------------------------------------------
(* Helpers *)

\* A failed attempt, as every flush under way will remember it.
NoteFailure == troubled' = [f \in Flushers |-> TRUE]

\* Mutation: the batch is a copy, and the buffer is not emptied.
StartBatchCopying(owner) ==
  /\ batches' = IF retryBuffer = <<>>
                THEN batches
                ELSE batches \cup {[owner |-> owner, queue |-> retryBuffer]}
  /\ UNCHANGED retryBuffer

\* flushRetries up to its first await: the whole buffer becomes one batch.
StartBatch(owner) ==
  /\ batches' = IF retryBuffer = <<>>
                THEN batches
                ELSE batches \cup {[owner |-> owner, queue |-> retryBuffer]}
  /\ retryBuffer' = <<>>

\* The number of events that still fit in the buffer.
Room == MAX_RETRY_BUFFER - Len(retryBuffer)

\* Mutation: the put-back loop does not look at the capacity.
KeptAll(q) == q

\* Mutation: the put-back loop stops one event early.
KeptOneShort(q) == SubSeq(q, 1, IF Len(q) < Room THEN Len(q) ELSE Room - 1)

\* The put-back loop: the events of q that fit, in order; the rest are lost.
Kept(q) == SubSeq(q, 1, IF Len(q) <= Room THEN Len(q) ELSE Room)

\* The flush that awaited batch b returns when the batch is over.
ReleaseOwner(b) ==
  flusher' = IF b.owner = Background
             THEN flusher
             ELSE [flusher EXCEPT ![b.owner] = "returned"]

-----------------------------------------------------------------------------
(* send *)

Send(e) ==
  /\ e \notin Held \cup acked \cup dropped
  /\ pendingSends' = pendingSends \cup {e}
  /\ UNCHANGED <<retryBuffer, batches, flusher, awaited, acked, dropped, owed,
                 troubled>>

\* sendOne resolved to true: the buffered events are tried in the background.
SendOk(e) ==
  /\ e \in pendingSends \ Unserialisable
  /\ pendingSends' = pendingSends \ {e}
  /\ acked' = acked \cup {e}
  /\ StartBatch(Background)
  /\ UNCHANGED <<flusher, awaited, dropped, owed, troubled>>

\* Mutation: the fingerprint is buffered in place of the event.
SendFailKeepsKey(e) ==
  /\ e \in pendingSends \ Unserialisable
  /\ pendingSends' = pendingSends \ {e}
  /\ retryBuffer' = Append(retryBuffer, FingerprintOf[e])
  /\ NoteFailure
  /\ UNCHANGED <<batches, flusher, awaited, acked, dropped, owed>>

\* sendOne resolved to false: buffer the event unless the buffer is full or
\* already has its fingerprint.
SendFail(e) ==
  /\ e \in pendingSends \ Unserialisable
  /\ pendingSends' = pendingSends \ {e}
  /\ IF /\ Len(retryBuffer) < MAX_RETRY_BUFFER
        /\ \A x \in Range(retryBuffer) : FingerprintOf[x] # FingerprintOf[e]
     THEN /\ retryBuffer' = Append(retryBuffer, e)
          /\ UNCHANGED dropped
     ELSE /\ dropped' = dropped \cup {e}
          /\ UNCHANGED retryBuffer
  /\ NoteFailure
  /\ UNCHANGED <<batches, flusher, awaited, acked, owed>>

\* sendOne threw (JSON.stringify, signPayload): its promise rejects, and the
\* callback that would have buffered the event never runs.
SendThrow(e) ==
  /\ e \in pendingSends \cap Unserialisable
  /\ pendingSends' = pendingSends \ {e}
  /\ dropped' = dropped \cup {e}
  /\ NoteFailure
  /\ UNCHANGED <<retryBuffer, batches, flusher, awaited, acked, owed>>

-----------------------------------------------------------------------------
(* flushRetries *)

\* The event on the wire is acknowledged; the next one goes out.
BatchOk(b) ==
  /\ b \in batches
  /\ acked' = acked \cup {Head(b.queue)}
  /\ IF Len(b.queue) = 1
     THEN /\ batches' = batches \ {b}
          /\ ReleaseOwner(b)
     ELSE /\ batches' = (batches \ {b}) \cup {[b EXCEPT !.queue = Tail(@)]}
          /\ UNCHANGED flusher
  /\ UNCHANGED <<retryBuffer, pendingSends, awaited, dropped, owed, troubled>>

\* Mutation: the failed event goes to the back of the batch and the loop goes on.
BatchFailRotates(b) ==
  /\ b \in batches
  /\ batches' = (batches \ {b})
                  \cup {[b EXCEPT !.queue = Append(Tail(@), Head(@))]}
  /\ NoteFailure
  /\ UNCHANGED <<retryBuffer, pendingSends, flusher, awaited, acked, dropped, owed>>

\* The event on the wire failed: the batch is over and what is left of it goes
\* back to the end of the buffer while there is room.
BatchFail(b) ==
  /\ b \in batches
  /\ retryBuffer' = retryBuffer \o Kept(b.queue)
  /\ dropped' = dropped \cup (Range(b.queue) \ Range(Kept(b.queue)))
  /\ batches' = batches \ {b}
  /\ ReleaseOwner(b)
  /\ NoteFailure
  /\ UNCHANGED <<pendingSends, awaited, acked, owed>>

-----------------------------------------------------------------------------
(* flush *)

\* flush up to its first await: allSettled takes the pending sends as they are.
FlushCall(f) ==
  /\ flusher[f] \in {"idle", "returned"}
  /\ flusher' = [flusher EXCEPT ![f] = "settling"]
  /\ awaited' = [awaited EXCEPT ![f] = pendingSends]
  /\ owed' = [owed EXCEPT ![f] = Held]
  /\ troubled' = [troubled EXCEPT ![f] = FALSE]
  /\ UNCHANGED <<retryBuffer, pendingSends, batches, acked, dropped>>

\* Mutation: flush does not wait for the pending sends.
FlushSettledEarly(f) ==
  /\ flusher[f] = "settling"
  /\ StartBatch(f)
  /\ flusher' = [flusher EXCEPT
                   ![f] = IF retryBuffer = <<>> THEN "returned" ELSE "retrying"]
  /\ awaited' = [awaited EXCEPT ![f] = {}]
  /\ UNCHANGED <<pendingSends, acked, dropped, owed, troubled>>

\* All of those sends have settled: flush runs flushRetries, and returns at
\* once when the buffer is empty.
FlushSettled(f) ==
  /\ flusher[f] = "settling"
  /\ awaited[f] \cap pendingSends = {}
  /\ StartBatch(f)
  /\ flusher' = [flusher EXCEPT
                   ![f] = IF retryBuffer = <<>> THEN "returned" ELSE "retrying"]
  /\ awaited' = [awaited EXCEPT ![f] = {}]
  /\ UNCHANGED <<pendingSends, acked, dropped, owed, troubled>>

-----------------------------------------------------------------------------

\* What happens by itself once send or flush has been called.
Settle ==
  \/ \E e \in Events : SendOk(e)
  \/ \E e \in Events : SendFail(e)
  \/ \E e \in Events : SendThrow(e)
  \/ \E b \in batches : BatchOk(b)
  \/ \E b \in batches : BatchFail(b)
  \/ \E f \in Flushers : FlushSettled(f)

Next ==
  \/ \E e \in Events : Send(e)
  \/ \E f \in Flushers : FlushCall(f)
  \/ Settle

Spec == Init /\ [][Next]_vars

\* A request settles in the end, one way or the other, and the callbacks run.
\* Nothing obliges the application to send or to flush.
Settles(e) == SendOk(e) \/ SendFail(e) \/ SendThrow(e)

BatchSettles(e) ==
  \E b \in batches : Head(b.queue) = e /\ (BatchOk(b) \/ BatchFail(b))

Fairness ==
  /\ \A e \in Events : WF_vars(Settles(e))
  /\ \A e \in Events : WF_vars(BatchSettles(e))
  /\ \A f \in Flushers : WF_vars(FlushSettled(f))

FairSpec == Spec /\ Fairness

-----------------------------------------------------------------------------
(* Properties *)

\* The retry buffer never outgrows its capacity, though put-back and failed
\* first attempts fill it concurrently (transport.ts:267-271, 284-288).
RetryBufferBounded == Len(retryBuffer) <= MAX_RETRY_BUFFER

\* An event is in one place: on its first attempt, in the buffer, in one batch,
\* acknowledged or dropped.  So it is never on the wire twice at the same time,
\* never sent again once acknowledged and never buffered twice, whatever the
\* order in which sends, background batches and flushes finish.
OnePlace ==
  /\ pendingSends \cap (Range(retryBuffer) \cup InFlight \cup acked \cup dropped) = {}
  /\ Range(retryBuffer) \cap (InFlight \cup acked \cup dropped) = {}
  /\ InFlight \cap (acked \cup dropped) = {}
  /\ acked \cap dropped = {}
  /\ IsInjective(retryBuffer)
  /\ \A b \in batches : IsInjective(b.queue)
  /\ \A b, c \in batches : b # c => Range(b.queue) \cap Range(c.queue) = {}

\* A batch always has an event on the wire, and a flush that awaits a batch
\* awaits exactly one, so no flush is left waiting for nothing.
AwaitedBatch ==
  /\ \A b \in batches : b.queue # <<>>
  /\ \A f \in Flushers :
       (flusher[f] = "retrying") <=> (\E b \in batches : b.owner = f)
  /\ \A b, c \in batches : b.owner = c.owner /\ b.owner # Background => b = c

\* When flush returns and no attempt has failed since it was called, every
\* event the transport held at that call has been acknowledged or is on its way
\* in a batch that another caller started.
FlushCovers ==
  \A f \in Flushers :
    flusher[f] = "returned" /\ ~troubled[f] => owed[f] \subseteq acked \cup InFlight

\* Refinement: under "held = anywhere inside the transport", the transport
\* gives an event up only for the reasons EventDelivery lists.
Delivery == INSTANCE EventDelivery
  WITH held <- Held, delivered <- acked, lost <- {}, Capacity <- MAX_RETRY_BUFFER

ImplementsDelivery == Delivery!Spec

\* A call of flush returns, whatever the endpoint answers: a failure ends the
\* batch instead of being tried again at once (transport.ts:272).
FlushReturns ==
  \A f \in Flushers : flusher[f] # "idle" ~> flusher[f] = "returned"

=============================================================================
