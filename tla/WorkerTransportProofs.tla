------------------------ MODULE WorkerTransportProofs ------------------------
(***************************************************************************)
(* Proofs about WorkerTransport, the transports of the Go and the Python   *)
(* SDKs: type correctness, OnePlace, FlushCovers, and that both implement  *)
(* EventDelivery, for every set of events, every capacity of the buffer    *)
(* and of the queue, and any number of callers of flush.                   *)
(***************************************************************************)
EXTENDS WorkerTransport, SequenceLemmas

-----------------------------------------------------------------------------
(* The inductive invariant *)

\* A thread has a batch exactly while it stands in flush_retries.
BatchWhileRetrying ==
  /\ (worker \in {"retrying", "sweeping"}) <=> (batch[Worker] # <<>>)
  /\ \A f \in Flushers : (flusher[f] = "retrying") <=> (batch[f] # <<>>)

Done == answered \cup dropped

\* A batch was the buffer once.
BatchFits == \A o \in Owners : Len(batch[o]) <= MAX_RETRY_BUFFER

\* The event that Go's Flush does not watch.
Unwatched == IF sdk = "go" THEN InItem ELSE {}

\* What is still to be settled for a flush that met no failure: everything while
\* it polls, then nothing that is queued, then nothing that is buffered.
FlushOwes ==
  \A f \in Flushers : ~troubled[f] =>
    /\ flusher[f] = "polling" => owed[f] \subseteq Done \cup Held
    /\ flusher[f] = "drained" =>
         owed[f] \subseteq Done \cup Range(retry) \cup InBatch \cup Unwatched
    /\ flusher[f] \in {"retrying", "returned"} =>
         owed[f] \subseteq Done \cup InBatch \cup Unwatched

IInv ==
  /\ TypeOK
  /\ OnePlace
  /\ BatchWhileRetrying
  /\ FlushOwes

-----------------------------------------------------------------------------
(* What the actions are made of *)

\* Replacing a thread's batch by one that shares no event with the others.
LEMMA BatchReplaced ==
  ASSUME IInv, NEW o \in Owners, NEW q \in Seq(Events), IsInjective(q),
         \A p \in Owners : p # o => Range(q) \cap Range(batch[p]) = {},
         batch' = [batch EXCEPT ![o] = q]
  PROVE  /\ batch' \in [Owners -> Seq(Events)]
         /\ \A p \in Owners : batch'[p] = IF p = o THEN q ELSE batch[p]
         /\ \A p, r \in Owners :
              /\ IsInjective(batch'[p])
              /\ p # r => Range(batch'[p]) \cap Range(batch'[r]) = {}
         /\ InBatch' = (InBatch \ Range(batch[o])) \cup Range(q)
         /\ Range(batch[o]) \subseteq InBatch
<1>1. batch \in [Owners -> Seq(Events)]
  BY DEF IInv, TypeOK
<1>2. /\ batch' \in [Owners -> Seq(Events)]
      /\ \A p \in Owners : batch'[p] = IF p = o THEN q ELSE batch[p]
  BY <1>1
<1>3. \A p, r \in Owners :
        /\ IsInjective(batch'[p])
        /\ p # r => Range(batch'[p]) \cap Range(batch'[r]) = {}
  BY <1>2 DEF IInv, OnePlace
<1>4. InBatch' = (InBatch \ Range(batch[o])) \cup Range(q)
  <2>1. \A x : x \in InBatch' <=> \E p \in Owners : x \in Range(batch'[p])
    BY DEF InBatch
  <2>2. \A x : x \in InBatch <=> \E p \in Owners : x \in Range(batch[p])
    BY DEF InBatch
  <2>3. \A p \in Owners : p # o => Range(batch[p]) \cap Range(batch[o]) = {}
    BY DEF IInv, OnePlace
  <2> QED
    BY <1>2, <2>1, <2>2, <2>3
<1>5. Range(batch[o]) \subseteq InBatch
  BY DEF InBatch
<1> QED
  BY <1>2, <1>3, <1>4, <1>5

\* A thread without a batch takes the buffer's events, as they are, for its own.
LEMMA RetriesTaken ==
  ASSUME IInv, NEW o \in Owners, batch[o] = <<>>, TakeRetries(o)
  PROVE  /\ retry' = <<>> /\ Range(retry') = {} /\ IsInjective(retry')
         /\ retry' \in Seq(Events) /\ Len(retry') <= MAX_RETRY_BUFFER
         /\ batch' \in [Owners -> Seq(Events)]
         /\ \A p \in Owners : batch'[p] = IF p = o THEN retry ELSE batch[p]
         /\ \A p, r \in Owners :
              /\ IsInjective(batch'[p])
              /\ p # r => Range(batch'[p]) \cap Range(batch'[r]) = {}
         /\ InBatch' = InBatch \cup Range(retry)
<1>1. Len(<<>>) = 0 /\ <<>> \in Seq(Events) /\ Range(<<>>) = {} /\ IsInjective(<<>>)
  BY EmptySeq DEF Range, IsInjective
<1>2. retry' = <<>> /\ batch' = [batch EXCEPT ![o] = retry]
  BY DEF TakeRetries
<1>3. retry \in Seq(Events) /\ IsInjective(retry)
  BY DEF IInv, TypeOK, OnePlace
<1>4. \A p \in Owners : p # o => Range(retry) \cap Range(batch[p]) = {}
  BY DEF IInv, OnePlace, InBatch
<1>5. /\ batch' \in [Owners -> Seq(Events)]
      /\ \A p \in Owners : batch'[p] = IF p = o THEN retry ELSE batch[p]
      /\ \A p, r \in Owners :
           /\ IsInjective(batch'[p])
           /\ p # r => Range(batch'[p]) \cap Range(batch'[r]) = {}
      /\ InBatch' = (InBatch \ Range(batch[o])) \cup Range(retry)
  BY <1>2, <1>3, <1>4, BatchReplaced
<1>6. Len(retry') <= MAX_RETRY_BUFFER
  BY <1>1, <1>2, WorkerTransportAssumption
<1>7. InBatch' = InBatch \cup Range(retry)
  BY <1>1, <1>5
<1> QED
  BY <1>1, <1>2, <1>5, <1>6, <1>7

\* An event that is settled becomes done, and nothing else changes there.
LEMMA SettledIsDone ==
  ASSUME IInv, NEW e \in Events, e \in Held, Settled(e)
  PROVE  /\ Done' = Done \cup {e}
         /\ answered' \subseteq Events /\ dropped' \subseteq Events
         /\ answered' \cap dropped' = {} /\ lost \cap (answered' \cup dropped') = {}
  BY DEF IInv, TypeOK, OnePlace, Settled, Done

LEMMA NextWorkerType == NextWorker \in {"waiting", "stopped"}
  BY DEF NextWorker

LEMMA HeldIsEvents == IInv => Held \subseteq Events
<1> SUFFICES ASSUME IInv
             PROVE  Held \subseteq Events
  OBVIOUS
<1>1. Range(queue) \subseteq Events /\ Range(retry) \subseteq Events
  BY RangeOfSeq DEF IInv, TypeOK
<1>2. \A o \in Owners : Range(batch[o]) \subseteq Events
  BY RangeOfSeq DEF IInv, TypeOK
<1> QED
  BY <1>1, <1>2 DEF Held, InItem, InBatch, IInv, TypeOK

-----------------------------------------------------------------------------
(* Every action keeps the invariant *)

LEMMA RecurKeeps ==
  ASSUME IInv, NEW e \in Events, Recur(e)
  PROVE  IInv' /\ Held' = Held
<1>1. /\ e \in dropped /\ dropped' = dropped \ {e}
      /\ UNCHANGED <<sdk, queue, worker, item, retry, batch, stopping, flusher, answered,
                     lost, troubled>>
  BY DEF Recur
<1>2. \A f \in Flushers : owed'[f] = owed[f] \ {e}
  BY DEF Recur
<1>3. InBatch' = InBatch /\ InItem' = InItem
  BY <1>1 DEF InBatch, InItem
<1>4. /\ Held' = Held /\ Unwatched' = Unwatched
      /\ Done' = Done \ {e} /\ e \notin answered
  BY <1>1, <1>3 DEF Held, Unwatched, Done, IInv, OnePlace
<1>5. TypeOK'
  BY <1>1 DEF IInv, TypeOK, Recur
<1>6. OnePlace' /\ BatchWhileRetrying'
  BY <1>1, <1>3, <1>4 DEF IInv, OnePlace, BatchWhileRetrying
<1>7. FlushOwes'
  BY <1>1, <1>2, <1>3, <1>4 DEF IInv, FlushOwes
<1> QED
  BY <1>4, <1>5, <1>6, <1>7 DEF IInv

LEMMA SendKeeps ==
  ASSUME IInv, NEW e \in Events, Send(e)
  PROVE  IInv'
<1>1. InBatch' = InBatch /\ InItem' = InItem
  BY DEF Send, InBatch, InItem
<1>2. e \notin Range(queue) /\ e \notin Held \cup Done \cup lost
  BY DEF Send, Held, Done
<1>3. /\ Append(queue, e) \in Seq(Events)
      /\ Range(Append(queue, e)) = Range(queue) \cup {e}
      /\ IsInjective(Append(queue, e))
      /\ Len(Append(queue, e)) = Len(queue) + 1
      /\ Len(queue) \in Nat
  BY <1>2, AppendNew, AppendProperties, LenProperties DEF IInv, TypeOK, OnePlace
<1>4. \/ /\ queue' = Append(queue, e) /\ dropped' = dropped
         /\ ~(sdk = "go" /\ Len(queue) = QueueDepth)
      \/ /\ queue' = queue /\ dropped' = dropped \cup {e}
  BY DEF Send
<1>5. UNCHANGED <<sdk, worker, item, retry, batch, stopping, flusher, answered, lost,
                  owed, troubled>>
  BY DEF Send
<1>6. TypeOK'
  <2>1. QueueDepth \in Nat /\ (sdk = "go" => Len(queue) <= QueueDepth)
    BY WorkerTransportAssumption DEF IInv, TypeOK
  <2>2. sdk = "go" => Len(queue') <= QueueDepth
    BY <1>3, <1>4, <2>1
  <2>3. queue' \in Seq(Events)
    BY <1>3, <1>4 DEF IInv, TypeOK
  <2> QED
    BY <1>4, <1>5, <2>2, <2>3 DEF IInv, TypeOK
<1>7. OnePlace'
  <2>1. /\ Held' \cap (answered' \cup dropped' \cup lost') = {}
        /\ answered' \cap dropped' = {} /\ lost' \cap (answered' \cup dropped') = {}
    <3>1. \/ Held' = Held \cup {e} /\ dropped' = dropped
          \/ Held' = Held /\ dropped' = dropped \cup {e}
      <4>1. CASE queue' = Append(queue, e) /\ dropped' = dropped
        BY <1>1, <1>3, <1>5, <4>1 DEF Held
      <4>2. CASE queue' = queue /\ dropped' = dropped \cup {e}
        BY <1>1, <1>5, <4>2 DEF Held
      <4> QED
        BY <1>4, <4>1, <4>2
    <3> QED
      BY <1>2, <1>5, <3>1 DEF IInv, OnePlace, Done
  <2>2. Range(queue') \cap (InItem' \cup Range(retry') \cup InBatch') = {}
    BY <1>1, <1>2, <1>3, <1>4, <1>5 DEF IInv, OnePlace, Held
  <2>3. IsInjective(queue')
    BY <1>3, <1>4 DEF IInv, OnePlace
  <2> QED
    BY <1>1, <1>5, <2>1, <2>2, <2>3 DEF IInv, OnePlace
<1>8. BatchWhileRetrying'
  BY <1>5 DEF IInv, BatchWhileRetrying
<1>9. FlushOwes'
  <2>1. Done \cup Held \subseteq Done' \cup Held' /\ Done \subseteq Done'
    BY <1>1, <1>3, <1>4, <1>5 DEF Done, Held
  <2>2. Unwatched' = Unwatched
    BY <1>1, <1>5 DEF Unwatched
  <2> QED
    BY <1>1, <1>5, <2>1, <2>2 DEF IInv, FlushOwes
<1> QED
  BY <1>6, <1>7, <1>8, <1>9 DEF IInv

LEMMA TakeKeeps ==
  ASSUME IInv, Take
  PROVE  IInv' /\ Held' = Held
<1>1. InBatch' = InBatch
  BY DEF Take, InBatch
<1>2. /\ Head(queue) \in Range(queue)
      /\ Tail(queue) \in Seq(Events)
      /\ Range(Tail(queue)) = Range(queue) \ {Head(queue)}
      /\ IsInjective(Tail(queue))
      /\ Len(Tail(queue)) = Len(queue) - 1 /\ Len(queue) \in Nat
  BY TailRemovesHead, HeadTailProperties, LenProperties DEF Take, IInv, TypeOK, OnePlace
<1>3. Head(queue) \in Events /\ Head(queue) # NoEvent
  BY <1>2, RangeOfSeq, WorkerTransportAssumption DEF IInv, TypeOK
<1>4. /\ worker = "waiting" /\ worker' = "sending"
      /\ item' = Head(queue) /\ queue' = Tail(queue)
      /\ UNCHANGED <<sdk, retry, batch, stopping, flusher, answered, dropped, lost,
                     owed, troubled>>
  BY DEF Take
<1>5. InItem = {} /\ InItem' = {Head(queue)}
  BY <1>3, <1>4 DEF IInv, TypeOK, InItem
<1>6. Held' = Held
  BY <1>1, <1>2, <1>4, <1>5 DEF Held
<1>7. TypeOK'
  BY <1>2, <1>3, <1>4, WorkerTransportAssumption DEF IInv, TypeOK
<1>8. OnePlace'
  BY <1>1, <1>2, <1>4, <1>5, <1>6 DEF IInv, OnePlace
<1>9. BatchWhileRetrying'
  BY <1>4 DEF IInv, BatchWhileRetrying
<1>10. FlushOwes'
  <2>1. Unwatched \subseteq Unwatched' /\ Done' = Done
    BY <1>4, <1>5 DEF Unwatched, Done
  <2> QED
    BY <1>1, <1>4, <1>6, <2>1 DEF IInv, FlushOwes
<1> QED
  BY <1>6, <1>7, <1>8, <1>9, <1>10 DEF IInv

LEMMA ItemDoneKeeps ==
  ASSUME IInv, ItemDone
  PROVE  IInv' /\ Held' = Held \ {item} /\ item \in Held \cap Events
<1>1. /\ worker = "sending" /\ item' = NoEvent /\ Settled(item) /\ TakeRetries(Worker)
      /\ worker' = IF retry = <<>> THEN NextWorker ELSE "retrying"
      /\ UNCHANGED <<sdk, queue, stopping, flusher, lost, owed, troubled>>
  BY DEF ItemDone
<1>2. item \in Events /\ InItem = {item} /\ InItem' = {} /\ item \in Held
  BY <1>1 DEF IInv, TypeOK, InItem, Held
<1>3. batch[Worker] = <<>> /\ Worker \in Owners
  BY <1>1 DEF IInv, BatchWhileRetrying, Owners
<1>4. /\ retry' = <<>> /\ Range(retry') = {} /\ IsInjective(retry')
      /\ retry' \in Seq(Events) /\ Len(retry') <= MAX_RETRY_BUFFER
      /\ batch' \in [Owners -> Seq(Events)]
      /\ \A p \in Owners : batch'[p] = IF p = Worker THEN retry ELSE batch[p]
      /\ \A p, r \in Owners :
           /\ IsInjective(batch'[p])
           /\ p # r => Range(batch'[p]) \cap Range(batch'[r]) = {}
      /\ InBatch' = InBatch \cup Range(retry)
  BY <1>1, <1>3, RetriesTaken
<1>5. /\ Done' = Done \cup {item}
      /\ answered' \subseteq Events /\ dropped' \subseteq Events
      /\ answered' \cap dropped' = {} /\ lost \cap (answered' \cup dropped') = {}
  BY <1>1, <1>2, SettledIsDone
<1>6. Held' = Held \ {item}
  BY <1>1, <1>2, <1>4 DEF Held, IInv, OnePlace
<1>7. worker' \in {"waiting", "stopped", "retrying"} /\ (worker' = "retrying" <=> retry # <<>>)
  BY <1>1, NextWorkerType
<1>8. TypeOK'
  BY <1>1, <1>4, <1>5, <1>7 DEF IInv, TypeOK
<1>9. OnePlace'
  <2>1. Held' \cap (answered' \cup dropped' \cup lost') = {}
    BY <1>1, <1>5, <1>6 DEF IInv, OnePlace, Done
  <2> QED
    BY <1>1, <1>2, <1>4, <1>5, <2>1 DEF IInv, OnePlace
<1>10. BatchWhileRetrying'
  <2>1. \A f \in Flushers : f \in Owners /\ f # Worker
    BY WorkerTransportAssumption DEF Owners
  <2> QED
    BY <1>1, <1>3, <1>4, <1>7, <2>1 DEF IInv, BatchWhileRetrying
<1>11. FlushOwes'
  <2>1. Unwatched \subseteq Unwatched' \cup {item}
    BY <1>2 DEF Unwatched
  <2> QED
    BY <1>1, <1>4, <1>5, <1>6, <2>1 DEF IInv, FlushOwes
<1> QED
  BY <1>2, <1>6, <1>8, <1>9, <1>10, <1>11 DEF IInv

LEMMA ItemFailedKeeps ==
  ASSUME IInv, ItemFailed
  PROVE  IInv'
<1>1. InBatch' = InBatch
  BY DEF ItemFailed, InBatch
<1>2. /\ worker = "sending" /\ item' = NoEvent /\ worker' = NextWorker
      /\ UNCHANGED <<sdk, queue, batch, stopping, flusher, answered, lost, owed>>
      /\ troubled' = [f \in Flushers |-> TRUE]
  BY DEF ItemFailed, NoteFailure
<1>3. item \in Events /\ InItem = {item} /\ InItem' = {}
  BY <1>2 DEF IInv, TypeOK, InItem
<1>4. /\ Append(retry, item) \in Seq(Events)
      /\ Range(Append(retry, item)) = Range(retry) \cup {item}
      /\ IsInjective(Append(retry, item))
      /\ Len(Append(retry, item)) = Len(retry) + 1
      /\ Len(retry) \in Nat
  BY <1>3, AppendNew, AppendProperties, LenProperties DEF IInv, TypeOK, OnePlace
<1>5. \/ /\ Len(retry) < MAX_RETRY_BUFFER
         /\ retry' = Append(retry, item)
         /\ dropped' = dropped
      \/ /\ retry' = retry
         /\ dropped' = dropped \cup {item}
  BY DEF ItemFailed
<1>6. TypeOK'
  <2>0. MAX_RETRY_BUFFER \in Nat /\ Len(retry) <= MAX_RETRY_BUFFER
    BY WorkerTransportAssumption DEF IInv, TypeOK
  <2>1. retry' \in Seq(Events) /\ Len(retry') <= MAX_RETRY_BUFFER
    <3>1. Len(retry') <= MAX_RETRY_BUFFER
      BY <1>4, <1>5, <2>0
    <3> QED
      BY <1>4, <1>5, <3>1 DEF IInv, TypeOK
  <2>2. dropped' \subseteq Events
    BY <1>3, <1>5 DEF IInv, TypeOK
  <2>3. worker' # "sending" /\ worker' \in {"waiting", "stopped"}
    BY <1>2, NextWorkerType
  <2> QED
    BY <1>2, <2>1, <2>2, <2>3 DEF IInv, TypeOK
<1>7. OnePlace'
  BY <1>1, <1>2, <1>3, <1>4, <1>5 DEF IInv, OnePlace, Held
<1>8. BatchWhileRetrying'
  BY <1>2, NextWorkerType DEF IInv, BatchWhileRetrying
<1>9. FlushOwes'
  BY <1>2 DEF FlushOwes
<1> QED
  BY <1>6, <1>7, <1>8, <1>9 DEF IInv

LEMMA ItemRaisedKeeps ==
  ASSUME IInv, ItemRaised
  PROVE  /\ IInv' /\ Held' = Held \ {item} /\ item \in Held \cap Events
<1>1. /\ worker = "sending" /\ item' = NoEvent /\ worker' = "died"
      /\ lost' = lost \cup {item}
      /\ UNCHANGED <<sdk, queue, retry, batch, stopping, flusher, answered, dropped, owed>>
      /\ troubled' = [f \in Flushers |-> TRUE]
  BY DEF ItemRaised, NoteFailure
<1>2. item \in Events /\ InItem = {item} /\ InItem' = {} /\ InBatch' = InBatch
  BY <1>1 DEF IInv, TypeOK, InItem, InBatch
<1>3. Held' = Held \ {item} /\ item \in Held
  BY <1>1, <1>2 DEF Held, IInv, OnePlace
<1>4. TypeOK' /\ BatchWhileRetrying'
  BY <1>1, <1>2 DEF IInv, TypeOK, BatchWhileRetrying
<1>5. OnePlace'
  BY <1>1, <1>2, <1>3 DEF IInv, OnePlace
<1>6. FlushOwes'
  BY <1>1 DEF FlushOwes
<1> QED
  BY <1>2, <1>3, <1>4, <1>5, <1>6 DEF IInv

LEMMA SweepKeeps ==
  ASSUME IInv, Sweep
  PROVE  IInv' /\ Held' = Held
<1>1. /\ worker = "waiting" /\ retry # <<>> /\ TakeRetries(Worker) /\ worker' = "sweeping"
      /\ UNCHANGED <<sdk, queue, item, stopping, flusher, answered, dropped, lost,
                     owed, troubled>>
  BY DEF Sweep
<1>2. InItem' = InItem /\ Done' = Done /\ Unwatched' = Unwatched
  BY <1>1 DEF InItem, Done, Unwatched
<1>3. batch[Worker] = <<>> /\ Worker \in Owners
  BY <1>1 DEF IInv, BatchWhileRetrying, Owners
<1>4. /\ retry' = <<>> /\ Range(retry') = {} /\ IsInjective(retry')
      /\ retry' \in Seq(Events) /\ Len(retry') <= MAX_RETRY_BUFFER
      /\ batch' \in [Owners -> Seq(Events)]
      /\ \A p \in Owners : batch'[p] = IF p = Worker THEN retry ELSE batch[p]
      /\ \A p, r \in Owners :
           /\ IsInjective(batch'[p])
           /\ p # r => Range(batch'[p]) \cap Range(batch'[r]) = {}
      /\ InBatch' = InBatch \cup Range(retry)
  BY <1>1, <1>3, RetriesTaken
<1>5. Held' = Held
  BY <1>1, <1>2, <1>4 DEF Held
<1>6. TypeOK'
  BY <1>1, <1>4 DEF IInv, TypeOK
<1>7. OnePlace'
  BY <1>1, <1>2, <1>4, <1>5 DEF IInv, OnePlace
<1>8. BatchWhileRetrying'
  <2>1. \A f \in Flushers : f \in Owners /\ f # Worker
    BY WorkerTransportAssumption DEF Owners
  <2> QED
    BY <1>1, <1>3, <1>4, <2>1 DEF IInv, BatchWhileRetrying
<1>9. FlushOwes'
  BY <1>1, <1>2, <1>4, <1>5 DEF IInv, FlushOwes
<1> QED
  BY <1>5, <1>6, <1>7, <1>8, <1>9 DEF IInv

LEMMA WorkerStopKeeps ==
  ASSUME IInv, WorkerStop
  PROVE  IInv' /\ Held' = Held
<1>1. /\ worker = "waiting" /\ worker' = "stopped" /\ stopping' \in {stopping, "seen"}
      /\ UNCHANGED <<sdk, queue, item, retry, batch, flusher, answered, dropped, lost,
                     owed, troubled>>
  BY DEF WorkerStop
<1>2. InBatch' = InBatch /\ InItem' = InItem /\ Done' = Done
  BY <1>1 DEF InBatch, InItem, Done
<1>3. Held' = Held /\ Unwatched' = Unwatched
  BY <1>1, <1>2 DEF Held, Unwatched
<1>4. TypeOK'
  BY <1>1 DEF IInv, TypeOK
<1>5. OnePlace' /\ BatchWhileRetrying'
  BY <1>1, <1>2, <1>3 DEF IInv, OnePlace, BatchWhileRetrying
<1>6. FlushOwes'
  BY <1>1, <1>2, <1>3 DEF IInv, FlushOwes
<1> QED
  BY <1>3, <1>4, <1>5, <1>6 DEF IInv

\* The thread whose batch ends leaves flush_retries, and no other thread does.
LEMMA OwnerReleased ==
  ASSUME IInv, NEW o \in Owners, batch[o] # <<>>, BatchOver(o),
         batch' = [batch EXCEPT ![o] = <<>>]
  PROVE  /\ worker' \in {"waiting", "sending", "retrying", "sweeping", "stopped", "died"}
         /\ (worker' = "sending") <=> (worker = "sending")
         /\ flusher' \in [Flushers -> {"idle", "polling", "drained", "retrying",
                                       "returned", "timedOut", "raised"}]
         /\ \A f \in Flushers : \/ flusher'[f] = flusher[f]
                                \/ flusher[f] = "retrying" /\ flusher'[f] = "returned"
         /\ BatchWhileRetrying'
<1>1. \A p \in Owners : batch'[p] = IF p = o THEN <<>> ELSE batch[p]
  BY DEF IInv, TypeOK
<1>2. Worker \in Owners /\ \A f \in Flushers : f \in Owners /\ f # Worker
  BY WorkerTransportAssumption DEF Owners
<1>3. CASE o = Worker
  <2>1. worker \in {"retrying", "sweeping"} /\ worker' \in {"waiting", "stopped"}
    BY <1>3, NextWorkerType DEF IInv, BatchWhileRetrying, BatchOver
  <2>2. flusher' = flusher
    BY <1>3 DEF BatchOver
  <2> QED
    BY <1>1, <1>2, <1>3, <2>1, <2>2 DEF IInv, TypeOK, BatchWhileRetrying
<1>4. CASE o # Worker
  <2>1. o \in Flushers /\ flusher[o] = "retrying"
    BY <1>4 DEF Owners, IInv, BatchWhileRetrying
  <2>2. flusher' = [flusher EXCEPT ![o] = "returned"] /\ worker' = worker
    BY <1>4 DEF BatchOver
  <2>3. \A f \in Flushers : flusher'[f] = IF f = o THEN "returned" ELSE flusher[f]
    BY <2>1, <2>2 DEF IInv, TypeOK
  <2>4. BatchWhileRetrying'
    BY <1>1, <1>2, <1>4, <2>2, <2>3 DEF IInv, BatchWhileRetrying
  <2> QED
    BY <2>1, <2>2, <2>3, <2>4 DEF IInv, TypeOK
<1> QED
  BY <1>3, <1>4

LEMMA BatchDoneKeeps ==
  ASSUME IInv, NEW o \in Owners, BatchDone(o)
  PROVE  /\ IInv' /\ Held' = Held \ {Head(batch[o])}
         /\ Head(batch[o]) \in Held \cap Events
<1> DEFINE h == Head(batch[o])
           rest == Tail(batch[o])
<1>1. /\ batch[o] # <<>> /\ Settled(h) /\ batch' = [batch EXCEPT ![o] = rest]
      /\ UNCHANGED <<sdk, queue, item, retry, stopping, lost, owed, troubled>>
  BY DEF BatchDone, IInv, TypeOK
<1>2. batch[o] \in Seq(Events) /\ IsInjective(batch[o])
  BY DEF IInv, TypeOK, OnePlace
<1>3. /\ h \in Range(batch[o])
      /\ rest \in Seq(Events)
      /\ Range(rest) = Range(batch[o]) \ {h}
      /\ IsInjective(rest)
      /\ Len(batch[o]) # 1 => rest # <<>>
  BY <1>1, <1>2, TailRemovesHead
<1>4. Len(batch[o]) = 1 => rest = <<>>
  <2>1. ASSUME Len(batch[o]) = 1
        PROVE  Len(rest) = 0
    BY <1>1, <1>2, <2>1, HeadTailProperties
  <2> QED
    BY <1>3, <2>1, EmptySeq
<1>5. \A p \in Owners : p # o => Range(rest) \cap Range(batch[p]) = {}
  BY <1>3 DEF IInv, OnePlace
<1> HIDE DEF rest
<1>6. /\ batch' \in [Owners -> Seq(Events)]
      /\ \A p \in Owners : batch'[p] = IF p = o THEN rest ELSE batch[p]
      /\ \A p, r \in Owners :
           /\ IsInjective(batch'[p])
           /\ p # r => Range(batch'[p]) \cap Range(batch'[r]) = {}
      /\ InBatch' = (InBatch \ Range(batch[o])) \cup Range(rest)
      /\ Range(batch[o]) \subseteq InBatch
  BY <1>1, <1>3, <1>5, BatchReplaced
<1>7. h \in InBatch /\ h \in Events /\ h \in Held /\ InBatch' = InBatch \ {h}
  BY <1>2, <1>3, <1>6, RangeOfSeq DEF Held
<1> HIDE DEF h
<1>8. /\ Done' = Done \cup {h}
      /\ answered' \subseteq Events /\ dropped' \subseteq Events
      /\ answered' \cap dropped' = {} /\ lost \cap (answered' \cup dropped') = {}
  BY <1>1, <1>7, SettledIsDone
<1>9. /\ worker' \in {"waiting", "sending", "retrying", "sweeping", "stopped", "died"}
      /\ (worker' = "sending") <=> (worker = "sending")
      /\ flusher' \in [Flushers -> {"idle", "polling", "drained", "retrying",
                                    "returned", "timedOut", "raised"}]
      /\ \A f \in Flushers : \/ flusher'[f] = flusher[f]
                             \/ flusher[f] = "retrying" /\ flusher'[f] = "returned"
      /\ BatchWhileRetrying'
  <2>1. CASE Len(batch[o]) = 1
    <3>1. BatchOver(o) /\ batch' = [batch EXCEPT ![o] = <<>>]
      BY <1>1, <1>4, <2>1 DEF BatchDone
    <3> QED
      BY <1>1, <3>1, OwnerReleased
  <2>2. CASE Len(batch[o]) # 1
    <3>1. UNCHANGED <<worker, flusher>>
      BY <2>2 DEF BatchDone
    <3>2. \A p \in Owners : (batch'[p] # <<>>) <=> (batch[p] # <<>>)
      BY <1>1, <1>3, <1>6, <2>2
    <3>3. BatchWhileRetrying'
      BY <3>1, <3>2 DEF IInv, BatchWhileRetrying, Owners
    <3> QED
      BY <3>1, <3>3 DEF IInv, TypeOK
  <2> QED
    BY <2>1, <2>2
<1>10. InItem' = InItem /\ Unwatched' = Unwatched
  BY <1>1 DEF InItem, Unwatched
<1>11. Held' = Held \ {h}
  BY <1>1, <1>7, <1>10 DEF Held, IInv, OnePlace
<1>12. TypeOK'
  BY <1>1, <1>6, <1>8, <1>9 DEF IInv, TypeOK
<1>13. OnePlace'
  <2>1. Held' \cap (answered' \cup dropped' \cup lost') = {}
    BY <1>1, <1>8, <1>11 DEF IInv, OnePlace, Done
  <2> QED
    BY <1>1, <1>6, <1>7, <1>8, <1>10, <2>1 DEF IInv, OnePlace
<1>14. FlushOwes'
  BY <1>1, <1>7, <1>8, <1>9, <1>10, <1>11 DEF IInv, FlushOwes
<1> QED
  BY <1>7, <1>9, <1>11, <1>12, <1>13, <1>14 DEF IInv, h

\* How the put-back loop splits a batch: what fits is a prefix, it fits, and if
\* anything is left out the buffer is full.
LEMMA KeptFits ==
  ASSUME NEW q \in Seq(Events), TypeOK
  PROVE  /\ Kept(q) \in Seq(Events)
         /\ Range(Kept(q)) \subseteq Range(q)
         /\ IsInjective(q) => IsInjective(Kept(q))
         /\ retry \o Kept(q) \in Seq(Events)
         /\ Range(retry \o Kept(q)) = Range(retry) \cup Range(Kept(q))
         /\ Len(retry \o Kept(q)) <= MAX_RETRY_BUFFER
         /\ \/ Kept(q) = q
            \/ Len(retry \o Kept(q)) = MAX_RETRY_BUFFER
<1> DEFINE m == IF Len(q) <= Room THEN Len(q) ELSE Room
<1>1. /\ retry \in Seq(Events)
      /\ Len(retry) \in Nat
      /\ Len(q) \in Nat
      /\ MAX_RETRY_BUFFER \in Nat
      /\ Room \in Nat
      /\ Room = MAX_RETRY_BUFFER - Len(retry)
  BY WorkerTransportAssumption, LenProperties DEF TypeOK, Room
<1>2. m \in 0..Len(q)
  BY <1>1
<1>3. /\ Kept(q) \in Seq(Events)
      /\ Len(Kept(q)) = m
      /\ Range(Kept(q)) \subseteq Range(q)
      /\ IsInjective(q) => IsInjective(Kept(q))
      /\ m = Len(q) => Kept(q) = q
  BY <1>2, PrefixOfInjective DEF Kept
<1>4. /\ retry \o Kept(q) \in Seq(Events)
      /\ Len(retry \o Kept(q)) = Len(retry) + m
  BY <1>1, <1>3, ConcatProperties
<1>5. Range(retry \o Kept(q)) = Range(retry) \cup Range(Kept(q))
  BY <1>1, <1>3, RangeConcatenation
<1>6. Len(retry \o Kept(q)) <= MAX_RETRY_BUFFER
  BY <1>1, <1>4
<1>7. Kept(q) = q \/ Len(retry \o Kept(q)) = MAX_RETRY_BUFFER
  BY <1>1, <1>3, <1>4
<1> QED
  BY <1>3, <1>4, <1>5, <1>6, <1>7

\* What becomes of the events of a batch that ends early: those that fit are
\* buffered, the others are spilt, and if any is spilt the buffer is full.
LEMMA BatchPutBack ==
  ASSUME IInv, NEW o \in Owners, BatchFailed(o)
  PROVE  LET spilt == Range(batch[o]) \ Range(Kept(batch[o]))
         IN  /\ retry' = retry \o Kept(batch[o]) /\ retry' \in Seq(Events)
             /\ Len(retry') <= MAX_RETRY_BUFFER /\ IsInjective(retry')
             /\ Range(retry') = Range(retry) \cup (Range(batch[o]) \ spilt)
             /\ spilt = {} \/ Len(retry') = MAX_RETRY_BUFFER
             /\ dropped' = dropped \cup spilt
             /\ spilt \subseteq Range(batch[o])
             /\ Range(batch[o]) \subseteq InBatch \cap Events
             /\ InBatch' = InBatch \ Range(batch[o])
             /\ InItem' = InItem
             /\ Held' = Held \ spilt
<1> DEFINE kept == Kept(batch[o])
           spilt == Range(batch[o]) \ Range(kept)
<1>1. /\ batch[o] # <<>> /\ batch' = [batch EXCEPT ![o] = <<>>]
      /\ retry' = retry \o kept
      /\ dropped' = dropped \cup spilt
      /\ UNCHANGED <<sdk, queue, item, stopping, answered, lost, owed>>
  BY DEF BatchFailed, PutBack
<1>2. batch[o] \in Seq(Events) /\ IsInjective(batch[o])
  BY DEF IInv, TypeOK, OnePlace
<1>3. /\ kept \in Seq(Events)
      /\ Range(kept) \subseteq Range(batch[o])
      /\ IsInjective(kept)
      /\ retry \o kept \in Seq(Events)
      /\ Range(retry \o kept) = Range(retry) \cup Range(kept)
      /\ Len(retry \o kept) <= MAX_RETRY_BUFFER
      /\ kept = batch[o] \/ Len(retry \o kept) = MAX_RETRY_BUFFER
  BY <1>2, KeptFits DEF IInv
<1> HIDE DEF kept
<1>4. <<>> \in Seq(Events) /\ Range(<<>>) = {} /\ IsInjective(<<>>)
  BY EmptySeq DEF Range, IsInjective
<1>5. InBatch' = InBatch \ Range(batch[o]) /\ Range(batch[o]) \subseteq InBatch
  <2>1. \A p \in Owners : p # o => Range(<<>>) \cap Range(batch[p]) = {}
    BY <1>4
  <2>2. /\ InBatch' = (InBatch \ Range(batch[o])) \cup Range(<<>>)
        /\ Range(batch[o]) \subseteq InBatch
    BY <1>1, <1>4, <2>1, BatchReplaced
  <2> QED
    BY <1>4, <2>2
<1>6. IsInjective(retry')
  <2>1. Range(retry) \cap Range(kept) = {}
    BY <1>3, <1>5 DEF IInv, OnePlace
  <2> QED
    BY <1>1, <1>3, <2>1, ConcatDisjoint DEF IInv, TypeOK, OnePlace
<1>7. Range(retry') = Range(retry) \cup (Range(batch[o]) \ spilt)
  BY <1>1, <1>3
<1>8. spilt = {} \/ Len(retry') = MAX_RETRY_BUFFER
  BY <1>1, <1>3
<1>9. InItem' = InItem
  BY <1>1 DEF InItem
<1>10. Held' = Held \ spilt
  BY <1>1, <1>5, <1>7, <1>9 DEF Held, IInv, OnePlace
<1>11. Range(batch[o]) \subseteq Events
  BY <1>2, RangeOfSeq
<1> QED
  BY <1>1, <1>3, <1>5, <1>6, <1>7, <1>8, <1>9, <1>10, <1>11 DEF kept

LEMMA BatchFailedKeeps ==
  ASSUME IInv, NEW o \in Owners, BatchFailed(o)
  PROVE  IInv'
<1> DEFINE spilt == Range(batch[o]) \ Range(Kept(batch[o]))
<1>1. /\ batch[o] # <<>> /\ batch' = [batch EXCEPT ![o] = <<>>]
      /\ BatchOver(o)
      /\ UNCHANGED <<sdk, queue, item, stopping, answered, lost, owed>>
      /\ troubled' = [f \in Flushers |-> TRUE]
  BY DEF BatchFailed, PutBack, NoteFailure
<1>2. /\ retry' \in Seq(Events)
      /\ Len(retry') <= MAX_RETRY_BUFFER /\ IsInjective(retry')
      /\ Range(retry') = Range(retry) \cup (Range(batch[o]) \ spilt)
      /\ dropped' = dropped \cup spilt
      /\ spilt \subseteq Range(batch[o])
      /\ Range(batch[o]) \subseteq InBatch \cap Events
      /\ InBatch' = InBatch \ Range(batch[o])
      /\ InItem' = InItem
      /\ Held' = Held \ spilt
  BY BatchPutBack
<1> HIDE DEF spilt
<1>3. <<>> \in Seq(Events) /\ Range(<<>>) = {} /\ IsInjective(<<>>)
  BY EmptySeq DEF Range, IsInjective
<1>4. /\ batch' \in [Owners -> Seq(Events)]
      /\ \A p, r \in Owners :
           /\ IsInjective(batch'[p])
           /\ p # r => Range(batch'[p]) \cap Range(batch'[r]) = {}
  BY <1>1, <1>3, BatchReplaced
<1>5. /\ worker' \in {"waiting", "sending", "retrying", "sweeping", "stopped", "died"}
      /\ (worker' = "sending") <=> (worker = "sending")
      /\ flusher' \in [Flushers -> {"idle", "polling", "drained", "retrying",
                                    "returned", "timedOut", "raised"}]
      /\ BatchWhileRetrying'
  BY <1>1, OwnerReleased
<1>6. TypeOK'
  BY <1>1, <1>2, <1>4, <1>5 DEF IInv, TypeOK
<1>7. OnePlace'
  <2>1. Held' \cap (answered' \cup dropped' \cup lost') = {} /\ answered' \cap dropped' = {}
    BY <1>1, <1>2 DEF IInv, OnePlace, Held
  <2>2. lost' \cap (answered' \cup dropped') = {}
    BY <1>1, <1>2 DEF IInv, OnePlace, Held
  <2> QED
    BY <1>1, <1>2, <1>4, <2>1, <2>2 DEF IInv, OnePlace
<1>8. FlushOwes'
  BY <1>1 DEF FlushOwes
<1> QED
  BY <1>5, <1>6, <1>7, <1>8 DEF IInv

LEMMA BatchRaisedKeeps ==
  ASSUME IInv, NEW o \in Owners, BatchRaised(o)
  PROVE  /\ IInv' /\ Held' = Held \ Range(batch[o])
         /\ Range(batch[o]) \subseteq Held \cap Events
<1>1. /\ batch[o] # <<>> /\ batch' = [batch EXCEPT ![o] = <<>>]
      /\ lost' = lost \cup Range(batch[o])
      /\ UNCHANGED <<sdk, queue, item, retry, stopping, answered, dropped, owed>>
      /\ troubled' = [f \in Flushers |-> TRUE]
  BY DEF BatchRaised, NoteFailure
<1>2. <<>> \in Seq(Events) /\ Range(<<>>) = {} /\ IsInjective(<<>>)
  BY EmptySeq DEF Range, IsInjective
<1>3. /\ batch' \in [Owners -> Seq(Events)]
      /\ \A p \in Owners : batch'[p] = IF p = o THEN <<>> ELSE batch[p]
      /\ \A p, r \in Owners :
           /\ IsInjective(batch'[p])
           /\ p # r => Range(batch'[p]) \cap Range(batch'[r]) = {}
      /\ InBatch' = InBatch \ Range(batch[o])
      /\ Range(batch[o]) \subseteq InBatch
  <2>1. \A p \in Owners : p # o => Range(<<>>) \cap Range(batch[p]) = {}
    BY <1>2
  <2> QED
    BY <1>1, <1>2, <2>1, BatchReplaced
<1>4. Range(batch[o]) \subseteq Events
  BY RangeOfSeq DEF IInv, TypeOK
<1>5. InItem' = InItem
  BY <1>1 DEF InItem
<1>6. Held' = Held \ Range(batch[o]) /\ Range(batch[o]) \subseteq Held
  BY <1>1, <1>3, <1>5 DEF Held, IInv, OnePlace
<1>7. Worker \in Owners /\ \A f \in Flushers : f \in Owners /\ f # Worker
  BY WorkerTransportAssumption DEF Owners
<1>8. ASSUME o = Worker
      PROVE  TypeOK' /\ BatchWhileRetrying'
  <2>1. worker \in {"retrying", "sweeping"} /\ worker' = "died" /\ flusher' = flusher
    BY <1>1, <1>8 DEF IInv, BatchWhileRetrying, BatchRaised
  <2>2. TypeOK' /\ BatchWhileRetrying'
    BY <1>1, <1>3, <1>4, <1>7, <1>8, <2>1 DEF IInv, TypeOK, BatchWhileRetrying
  <2> QED
    BY <2>2
<1>9. ASSUME o # Worker
      PROVE  TypeOK' /\ BatchWhileRetrying'
  <2>1. /\ o \in Flushers /\ worker' = worker
        /\ flusher' = [flusher EXCEPT ![o] = "raised"]
    BY <1>9 DEF Owners, BatchRaised
  <2>2. \A f \in Flushers : flusher'[f] = IF f = o THEN "raised" ELSE flusher[f]
    BY <2>1 DEF IInv, TypeOK
  <2>3. TypeOK'
    BY <1>1, <1>3, <1>4, <2>1 DEF IInv, TypeOK
  <2>4. BatchWhileRetrying'
    BY <1>3, <1>7, <1>9, <2>1, <2>2 DEF IInv, BatchWhileRetrying
  <2> QED
    BY <2>3, <2>4
<1>10. OnePlace'
  BY <1>1, <1>3, <1>5, <1>6 DEF IInv, OnePlace
<1>11. FlushOwes'
  BY <1>1 DEF FlushOwes
<1> QED
  BY <1>4, <1>6, <1>8, <1>9, <1>10, <1>11 DEF IInv

\* Where only the callers of flush and their histories change, nothing moves.
LEMMA NothingMoves ==
  ASSUME IInv,
         UNCHANGED <<sdk, queue, worker, item, retry, batch, answered, dropped, lost>>
  PROVE  /\ InBatch' = InBatch /\ InItem' = InItem /\ Held' = Held
         /\ Done' = Done /\ Unwatched' = Unwatched
         /\ OnePlace'
<1>1. InBatch' = InBatch /\ InItem' = InItem
  BY DEF InBatch, InItem
<1>2. Held' = Held /\ Done' = Done /\ Unwatched' = Unwatched
  BY <1>1 DEF Held, Done, Unwatched
<1> QED
  BY <1>1, <1>2 DEF IInv, OnePlace

LEMMA FlushCallKeeps ==
  ASSUME IInv, NEW f \in Flushers, FlushCall(f)
  PROVE  IInv' /\ Held' = Held
<1>1. /\ flusher[f] \in {"idle", "returned", "timedOut", "raised"}
      /\ UNCHANGED <<sdk, queue, worker, item, retry, batch, stopping, answered,
                     dropped, lost>>
  BY DEF FlushCall
<1>2. \A g \in Flushers :
        /\ flusher'[g] = IF g = f THEN "polling" ELSE flusher[g]
        /\ owed'[g] = IF g = f THEN Held ELSE owed[g]
        /\ troubled'[g] = IF g = f THEN FALSE ELSE troubled[g]
  BY DEF FlushCall, IInv, TypeOK
<1>3. /\ InBatch' = InBatch /\ Held' = Held
      /\ Done' = Done /\ Unwatched' = Unwatched
      /\ OnePlace'
  BY <1>1, NothingMoves
<1>4. TypeOK'
  BY HeldIsEvents DEF IInv, TypeOK, FlushCall
<1>5. BatchWhileRetrying'
  BY <1>1, <1>2 DEF IInv, BatchWhileRetrying
<1>6. FlushOwes'
  BY <1>1, <1>2, <1>3 DEF IInv, FlushOwes
<1> QED
  BY <1>3, <1>4, <1>5, <1>6 DEF IInv

LEMMA QueueDrainedKeeps ==
  ASSUME IInv, NEW f \in Flushers, QueueDrained(f)
  PROVE  IInv' /\ Held' = Held
<1>1. /\ flusher[f] = "polling" /\ queue = <<>>
      /\ sdk = "python" => worker # "sending"
      /\ UNCHANGED <<sdk, queue, worker, item, retry, batch, stopping, answered,
                     dropped, lost, owed, troubled>>
  BY DEF QueueDrained
<1>2. \A g \in Flushers : flusher'[g] = IF g = f THEN "drained" ELSE flusher[g]
  BY DEF QueueDrained, IInv, TypeOK
<1>3. /\ InBatch' = InBatch /\ Held' = Held
      /\ Done' = Done /\ Unwatched' = Unwatched
      /\ OnePlace'
  BY <1>1, NothingMoves
<1>4. TypeOK'
  BY DEF IInv, TypeOK, QueueDrained
<1>5. BatchWhileRetrying'
  BY <1>1, <1>2 DEF IInv, BatchWhileRetrying
<1>6. Held = Range(retry) \cup InBatch \cup Unwatched
  <2>1. Range(queue) = {}
    BY <1>1, EmptySeq DEF Range
  <2>2. InItem = Unwatched
    BY <1>1, WorkerTransportAssumption DEF IInv, TypeOK, InItem, Unwatched
  <2> QED
    BY <2>1, <2>2 DEF Held
<1>7. FlushOwes'
  BY <1>1, <1>2, <1>3, <1>6 DEF IInv, FlushOwes
<1> QED
  BY <1>3, <1>4, <1>5, <1>7 DEF IInv

LEMMA RetryReadKeeps ==
  ASSUME IInv, NEW f \in Flushers, RetryRead(f)
  PROVE  IInv' /\ Held' = Held
<1>1. /\ flusher[f] = "drained"
      /\ UNCHANGED <<sdk, queue, worker, item, retry, batch, stopping, answered,
                     dropped, lost, owed, troubled>>
  BY DEF RetryRead
<1>2. \A g \in Flushers :
        flusher'[g] = IF g = f THEN IF retry = <<>> THEN "returned" ELSE "polling"
                               ELSE flusher[g]
  BY DEF RetryRead, IInv, TypeOK
<1>3. /\ InBatch' = InBatch /\ Held' = Held /\ InItem' = InItem
      /\ Done' = Done /\ Unwatched' = Unwatched
      /\ OnePlace'
  BY <1>1, NothingMoves
<1>4. TypeOK'
  BY DEF IInv, TypeOK, RetryRead
<1>5. BatchWhileRetrying'
  BY <1>1, <1>2 DEF IInv, BatchWhileRetrying
<1>6. retry = <<>> => Range(retry) = {}
  BY EmptySeq DEF Range
<1>7. Unwatched \subseteq Held /\ Range(retry) \subseteq Held /\ InBatch \subseteq Held
  BY DEF Unwatched, Held
<1>8. FlushOwes'
  BY <1>1, <1>2, <1>3, <1>6, <1>7 DEF IInv, FlushOwes
<1> QED
  BY <1>3, <1>4, <1>5, <1>8 DEF IInv

LEMMA FlushRetryKeeps ==
  ASSUME IInv, NEW f \in Flushers, FlushRetry(f)
  PROVE  IInv' /\ Held' = Held
<1>1. /\ flusher[f] = "drained" /\ TakeRetries(f)
      /\ UNCHANGED <<sdk, queue, worker, item, stopping, answered, dropped, lost, owed,
                     troubled>>
  BY DEF FlushRetry
<1>2. \A g \in Flushers :
        flusher'[g] = IF g = f THEN IF retry = <<>> THEN "returned" ELSE "retrying"
                               ELSE flusher[g]
  BY DEF FlushRetry, IInv, TypeOK
<1>3. InItem' = InItem /\ Done' = Done /\ Unwatched' = Unwatched
  BY <1>1 DEF InItem, Done, Unwatched
<1>4. batch[f] = <<>> /\ f \in Owners /\ f # Worker /\ Flushers \subseteq Owners
  BY <1>1, WorkerTransportAssumption DEF IInv, BatchWhileRetrying, Owners
<1>5. /\ Range(retry') = {} /\ IsInjective(retry')
      /\ retry' \in Seq(Events) /\ Len(retry') <= MAX_RETRY_BUFFER
      /\ batch' \in [Owners -> Seq(Events)]
      /\ \A p \in Owners : batch'[p] = IF p = f THEN retry ELSE batch[p]
      /\ \A p, r \in Owners :
           /\ IsInjective(batch'[p])
           /\ p # r => Range(batch'[p]) \cap Range(batch'[r]) = {}
      /\ InBatch' = InBatch \cup Range(retry)
  BY <1>1, <1>4, RetriesTaken
<1>6. Held' = Held
  BY <1>1, <1>3, <1>5 DEF Held
<1>7. TypeOK'
  BY <1>1, <1>5 DEF IInv, TypeOK, FlushRetry
<1>8. OnePlace'
  BY <1>1, <1>3, <1>5, <1>6 DEF IInv, OnePlace
<1>9. BatchWhileRetrying'
  BY <1>1, <1>2, <1>4, <1>5, WorkerTransportAssumption DEF IInv, BatchWhileRetrying, Owners
<1>10. FlushOwes'
  BY <1>1, <1>2, <1>3, <1>5, <1>6 DEF IInv, FlushOwes
<1> QED
  BY <1>6, <1>7, <1>8, <1>9, <1>10 DEF IInv

LEMMA FlushTimeoutKeeps ==
  ASSUME IInv, NEW f \in Flushers, FlushTimeout(f)
  PROVE  IInv' /\ Held' = Held
<1>1. /\ flusher[f] \in {"polling", "drained"}
      /\ UNCHANGED <<sdk, queue, worker, item, retry, batch, stopping, answered,
                     dropped, lost, owed, troubled>>
  BY DEF FlushTimeout
<1>2. \A g \in Flushers : flusher'[g] = IF g = f THEN "timedOut" ELSE flusher[g]
  BY DEF FlushTimeout, IInv, TypeOK
<1>3. /\ InBatch' = InBatch /\ Held' = Held
      /\ Done' = Done /\ Unwatched' = Unwatched
      /\ OnePlace'
  BY <1>1, NothingMoves
<1>4. TypeOK'
  BY DEF IInv, TypeOK, FlushTimeout
<1>5. BatchWhileRetrying'
  BY <1>1, <1>2 DEF IInv, BatchWhileRetrying
<1>6. FlushOwes'
  BY <1>1, <1>2, <1>3 DEF IInv, FlushOwes
<1> QED
  BY <1>3, <1>4, <1>5, <1>6 DEF IInv

LEMMA CloseKeeps ==
  ASSUME IInv, Close
  PROVE  IInv' /\ Held' = Held
<1>1. /\ stopping' = "asked"
      /\ UNCHANGED <<sdk, queue, worker, item, retry, batch, flusher, answered,
                     dropped, lost, owed, troubled>>
  BY DEF Close
<1>2. /\ InBatch' = InBatch /\ Held' = Held
      /\ Done' = Done /\ Unwatched' = Unwatched
      /\ OnePlace'
  BY <1>1, NothingMoves
<1>3. TypeOK' /\ BatchWhileRetrying' /\ FlushOwes'
  BY <1>1, <1>2 DEF IInv, TypeOK, BatchWhileRetrying, FlushOwes
<1> QED
  BY <1>2, <1>3 DEF IInv

-----------------------------------------------------------------------------
(* The theorems *)

LEMMA InvariantInit == Init => IInv
<1> SUFFICES ASSUME Init
             PROVE  IInv
  OBVIOUS
<1>1. Len(<<>>) = 0 /\ <<>> \in Seq(Events) /\ Range(<<>>) = {} /\ IsInjective(<<>>)
  BY EmptySeq DEF Range, IsInjective
<1>2. \A o \in Owners : batch[o] = <<>>
  BY DEF Init
<1>3. InBatch = {} /\ InItem = {}
  BY <1>1, <1>2 DEF Init, InBatch, InItem
<1>4. TypeOK
  BY <1>1, WorkerTransportAssumption DEF Init, TypeOK
<1>5. OnePlace
  BY <1>1, <1>2, <1>3 DEF Init, OnePlace, Held
<1>6. BatchWhileRetrying
  BY <1>2 DEF Init, BatchWhileRetrying, Owners
<1>7. FlushOwes
  BY DEF Init, FlushOwes
<1> QED
  BY <1>4, <1>5, <1>6, <1>7 DEF IInv

LEMMA InvariantStep == IInv /\ [Next]_vars => IInv'
<1> SUFFICES ASSUME IInv, [Next]_vars
             PROVE  IInv'
  OBVIOUS
<1>1. ASSUME NEW e \in Events, Send(e)
      PROVE  IInv'
  BY <1>1, SendKeeps
<1>2. CASE Take
  BY <1>2, TakeKeeps
<1>3. CASE ItemDone
  BY <1>3, ItemDoneKeeps
<1>4. CASE ItemFailed
  BY <1>4, ItemFailedKeeps
<1>5. CASE Sweep
  BY <1>5, SweepKeeps
<1>6. CASE WorkerStop
  BY <1>6, WorkerStopKeeps
<1>7. ASSUME NEW o \in Owners, BatchDone(o)
      PROVE  IInv'
  BY <1>7, BatchDoneKeeps
<1>8. ASSUME NEW o \in Owners, BatchFailed(o)
      PROVE  IInv'
  BY <1>8, BatchFailedKeeps
<1>9. ASSUME NEW f \in Flushers, FlushCall(f)
      PROVE  IInv'
  BY <1>9, FlushCallKeeps
<1>10. ASSUME NEW f \in Flushers, QueueDrained(f)
       PROVE  IInv'
  BY <1>10, QueueDrainedKeeps
<1>11. ASSUME NEW f \in Flushers, RetryRead(f)
       PROVE  IInv'
  BY <1>11, RetryReadKeeps
<1>12. ASSUME NEW f \in Flushers, FlushRetry(f)
       PROVE  IInv'
  BY <1>12, FlushRetryKeeps
<1>13. ASSUME NEW f \in Flushers, FlushTimeout(f)
       PROVE  IInv'
  BY <1>13, FlushTimeoutKeeps
<1>14. CASE Close
  BY <1>14, CloseKeeps
<1>15. ASSUME NEW e \in Events, Recur(e)
       PROVE  IInv'
  BY <1>15, RecurKeeps
<1>16. CASE ItemRaised
  BY <1>16, ItemRaisedKeeps
<1>17. ASSUME NEW o \in Owners, BatchRaised(o)
       PROVE  IInv'
  BY <1>17, BatchRaisedKeeps
<1>18. CASE UNCHANGED vars
  <2>1. /\ InBatch' = InBatch /\ Held' = Held
        /\ Done' = Done /\ Unwatched' = Unwatched
        /\ OnePlace'
    BY <1>18, NothingMoves DEF vars
  <2> QED
    BY <1>18, <2>1 DEF vars, IInv, TypeOK, BatchWhileRetrying, FlushOwes
<1> QED
  BY <1>1, <1>2, <1>3, <1>4, <1>5, <1>6, <1>7, <1>8, <1>9, <1>10, <1>11, <1>12, <1>13,
     <1>14, <1>15, <1>16, <1>17, <1>18 DEF Next

\* A batch starts as the buffer and only shrinks.
LEMMA BatchFitsStep == IInv /\ BatchFits /\ [Next]_vars => BatchFits'
<1> SUFFICES ASSUME IInv, BatchFits, [Next]_vars
             PROVE  BatchFits'
  OBVIOUS
<1>1. /\ Len(<<>>) = 0 /\ MAX_RETRY_BUFFER \in Nat
      /\ retry \in Seq(Events) /\ Len(retry) <= MAX_RETRY_BUFFER
      /\ \A p \in Owners : batch[p] \in Seq(Events)
  BY EmptySeq, WorkerTransportAssumption DEF IInv, TypeOK
<1>2. ASSUME NEW o \in Owners, TakeRetries(o)
      PROVE  BatchFits'
  <2>1. \A p \in Owners : batch'[p] = IF p = o THEN retry ELSE batch[p]
    BY <1>2 DEF TakeRetries, IInv, TypeOK
  <2> QED
    BY <1>1, <2>1 DEF BatchFits
<1>3. ASSUME NEW o \in Owners, BatchDone(o)
      PROVE  BatchFits'
  <2>1. \A p \in Owners : batch'[p] = IF p = o THEN Tail(batch[o]) ELSE batch[p]
    BY <1>3 DEF BatchDone, IInv, TypeOK
  <2>2. Len(Tail(batch[o])) = Len(batch[o]) - 1 /\ Len(batch[o]) \in Nat
    BY <1>1, <1>3, HeadTailProperties, LenProperties DEF BatchDone
  <2>3. Len(Tail(batch[o])) <= MAX_RETRY_BUFFER
    BY <1>1, <2>2 DEF BatchFits
  <2> QED
    BY <2>1, <2>3 DEF BatchFits
<1>4. ASSUME NEW o \in Owners, batch' = [batch EXCEPT ![o] = <<>>]
      PROVE  BatchFits'
  <2>1. \A p \in Owners : batch'[p] = IF p = o THEN <<>> ELSE batch[p]
    BY <1>4 DEF IInv, TypeOK
  <2> QED
    BY <1>1, <2>1 DEF BatchFits
<1>5. ASSUME batch' = batch
      PROVE  BatchFits'
  BY <1>5 DEF BatchFits
<1>6. CASE ItemDone \/ Sweep
  BY <1>2, <1>6 DEF ItemDone, Sweep, Owners
<1>7. ASSUME NEW o \in Owners, BatchFailed(o) \/ BatchRaised(o)
      PROVE  BatchFits'
  BY <1>4, <1>7 DEF BatchFailed, BatchRaised, PutBack
<1>8. ASSUME NEW f \in Flushers, FlushRetry(f)
      PROVE  BatchFits'
  BY <1>2, <1>8 DEF FlushRetry, Owners
<1>9. CASE Take \/ ItemFailed \/ ItemRaised \/ WorkerStop \/ Close \/ UNCHANGED vars
  BY <1>5, <1>9 DEF Take, ItemFailed, ItemRaised, WorkerStop, Close, vars
<1>10. ASSUME NEW e \in Events, Recur(e) \/ Send(e)
       PROVE  BatchFits'
  BY <1>5, <1>10 DEF Recur, Send
<1>11. ASSUME NEW f \in Flushers,
              FlushCall(f) \/ QueueDrained(f) \/ RetryRead(f) \/ FlushTimeout(f)
       PROVE  BatchFits'
  BY <1>5, <1>11 DEF FlushCall, QueueDrained, RetryRead, FlushTimeout
<1> QED
  BY <1>3, <1>6, <1>7, <1>8, <1>9, <1>10, <1>11 DEF Next

\* The inductive invariant holds in every reachable state.
LEMMA Invariant == Spec => [](IInv /\ BatchFits)
<1>1. Init => BatchFits
  BY EmptySeq, WorkerTransportAssumption DEF Init, BatchFits
<1> QED
  BY <1>1, InvariantInit, InvariantStep, BatchFitsStep, PTL DEF Spec

\* Type correctness; the Go queue and the retry buffer stay within their bounds
\* (transport.go:31-41, transport.py:220-235).
THEOREM TypeCorrect == Spec => []TypeOK
<1>1. IInv => TypeOK
  BY DEF IInv
<1> QED
  BY <1>1, Invariant, PTL

\* An event is in one place, though the worker and callers of Python's flush run
\* flush_retries at the same time (transport.go:212-270, transport.py:220-264).
THEOREM EventInOnePlace == Spec => []OnePlace
<1>1. IInv => OnePlace
  BY DEF IInv
<1> QED
  BY <1>1, Invariant, PTL

\* A flush that returned before its deadline and met no failure leaves nothing of
\* what it found but in another thread's batch, or, in Go, with the worker.
THEOREM FlushIsCovering == Spec => []FlushCovers
<1>1. IInv => FlushCovers
  BY DEF IInv, FlushOwes, FlushCovers, Done, Unwatched
<1> QED
  BY <1>1, Invariant, PTL

-----------------------------------------------------------------------------
(* Both transports implement EventDelivery *)

\* EventDelivery counts with the same Cardinality.
LEMMA SameCardinality ==
  ASSUME NEW S
  PROVE  Delivery!Cardinality(S) = Cardinality(S)
  BY DEF Delivery!Cardinality, Cardinality

\* A sequence without repetition that is as long as the buffer's capacity is a
\* full load for EventDelivery, wherever the transport keeps it.
LEMMA FullLoad ==
  ASSUME NEW s \in Seq(Events), IsInjective(s), Len(s) >= MAX_RETRY_BUFFER,
         NEW kept \in SUBSET Events, Range(s) \subseteq kept
  PROVE  Delivery!Cardinality(kept) >= MAX_RETRY_BUFFER
<1>1. IsFiniteSet(kept)
  BY WorkerTransportAssumption, FS_Subset
<1>2. Cardinality(Range(s)) = Len(s)
  BY CardinalityOfBuffer
<1>3. Cardinality(Range(s)) <= Cardinality(kept)
  BY <1>1, FS_Subset
<1>4. Cardinality(kept) \in Nat /\ Len(s) \in Nat /\ MAX_RETRY_BUFFER \in Nat
  BY <1>1, FS_CardinalityType, LenProperties, WorkerTransportAssumption
<1> QED
  BY <1>2, <1>3, <1>4, SameCardinality

\* send accepts the event, or turns it away when the Go queue is full.
LEMMA SendAccepts ==
  ASSUME IInv, NEW e \in Events, Send(e)
  PROVE  Delivery!Accept(e) \/ Delivery!Refuse(e)
<1>1. InBatch' = InBatch /\ InItem' = InItem /\ UNCHANGED <<retry, answered, lost>>
  BY DEF Send, InBatch, InItem
<1>2. e \notin Held \cup answered \cup dropped \cup lost
  BY DEF Send
<1>3. CASE sdk = "go" /\ Len(queue) = QueueDepth
  <2>1. queue' = queue /\ dropped' = dropped \cup {e}
    BY <1>3 DEF Send
  <2>2. Held' = Held
    BY <1>1, <2>1 DEF Held
  <2>3. /\ queue \in Seq(Events) /\ IsInjective(queue)
        /\ Len(queue) >= MAX_RETRY_BUFFER
        /\ Range(queue) \subseteq Held /\ Held \in SUBSET Events
    BY <1>3, HeldIsEvents, WorkerTransportAssumption DEF IInv, TypeOK, OnePlace, Held
  <2>4. Delivery!Cardinality(Held) >= MAX_RETRY_BUFFER
    BY <2>3, FullLoad
  <2> QED
    BY <1>1, <1>2, <2>1, <2>2, <2>4 DEF Delivery!Refuse
<1>4. CASE ~(sdk = "go" /\ Len(queue) = QueueDepth)
  <2>1. queue' = Append(queue, e) /\ dropped' = dropped
    BY <1>4 DEF Send
  <2>2. Range(queue') = Range(queue) \cup {e}
    BY <2>1, AppendNew DEF IInv, TypeOK
  <2>3. Held' = Held \cup {e}
    BY <1>1, <2>2 DEF Held
  <2> QED
    BY <1>1, <1>2, <2>1, <2>3 DEF Delivery!Accept
<1> QED
  BY <1>3, <1>4

\* A settled event leaves the transport answered, or dropped when malformed.
LEMMA SettledLeaves ==
  ASSUME NEW e \in Events, e \in Held, Settled(e), Held' = Held \ {e}, lost' = lost
  PROVE  Delivery!Next
<1>1. CASE e \in Unserialisable
  <2>1. Delivery!Drop({e})
    BY <1>1 DEF Settled, Delivery!Drop, Delivery!MayDrop
  <2>2. {e} \in SUBSET Events
    OBVIOUS
  <2> QED
    BY <2>1, <2>2 DEF Delivery!Next
<1>2. CASE e \notin Unserialisable
  <2>1. Delivery!Deliver(e)
    BY <1>2 DEF Settled, Delivery!Deliver
  <2> QED
    BY <2>1 DEF Delivery!Next
<1> QED
  BY <1>1, <1>2

\* A failed event is buffered, or dropped for a reason EventDelivery allows.
LEMMA ItemFailedMayDrop ==
  ASSUME IInv, ItemFailed
  PROVE  Delivery!Next \/ UNCHANGED Delivery!vars
<1>1. InBatch' = InBatch
  BY DEF ItemFailed, InBatch
<1>2. worker = "sending" /\ item' = NoEvent /\ UNCHANGED <<queue, answered, lost>>
  BY DEF ItemFailed
<1>3. /\ item \in Events /\ InItem = {item} /\ InItem' = {}
      /\ item \notin Range(queue) \cup Range(retry) \cup InBatch
  BY <1>2 DEF IInv, TypeOK, InItem, OnePlace
<1>4. CASE retry' = Append(retry, item) /\ dropped' = dropped
  <2>1. Range(retry') = Range(retry) \cup {item}
    BY <1>3, <1>4, AppendNew DEF IInv, TypeOK
  <2>2. Held' = Held
    BY <1>1, <1>2, <1>3, <2>1 DEF Held
  <2> QED
    BY <1>2, <1>4, <2>2 DEF Delivery!vars
<1>5. CASE /\ retry' = retry
           /\ dropped' = dropped \cup {item}
           /\ \/ ~(Len(retry) < MAX_RETRY_BUFFER)
              \/ \E x \in Range(retry) : FingerprintOf[x] = FingerprintOf[item]
  <2>1. Held' = Held \ {item} /\ item \in Held
    BY <1>1, <1>2, <1>3, <1>5 DEF Held
  <2>2. Range(retry) \subseteq Held \ {item} /\ Held \ {item} \in SUBSET Events
    BY <1>3, HeldIsEvents DEF Held
  <2>3. Delivery!MayDrop(item, Held \ {item})
    <3>1. CASE \E x \in Range(retry) : FingerprintOf[x] = FingerprintOf[item]
      BY <2>2, <3>1 DEF Delivery!MayDrop
    <3>2. CASE ~(Len(retry) < MAX_RETRY_BUFFER)
      <4>1. /\ retry \in Seq(Events)
            /\ IsInjective(retry)
            /\ Len(retry) >= MAX_RETRY_BUFFER
        BY <3>2, LenProperties, WorkerTransportAssumption DEF IInv, TypeOK, OnePlace
      <4> QED
        BY <2>2, <4>1, FullLoad DEF Delivery!MayDrop
    <3> QED
      BY <1>5, <3>1, <3>2
  <2>4. Delivery!Drop({item}) /\ {item} \in SUBSET Events
    BY <1>2, <1>3, <1>5, <2>1, <2>3 DEF Delivery!Drop
  <2> QED
    BY <2>4 DEF Delivery!Next
<1> QED
  BY <1>4, <1>5 DEF ItemFailed

\* What a batch that ends early cannot put back is dropped with a full buffer.
LEMMA BatchFailedMayDrop ==
  ASSUME IInv, NEW o \in Owners, BatchFailed(o)
  PROVE  Delivery!Next
<1> DEFINE spilt == Range(batch[o]) \ Range(Kept(batch[o]))
<1>1. /\ retry' \in Seq(Events) /\ IsInjective(retry')
      /\ spilt = {} \/ Len(retry') = MAX_RETRY_BUFFER
      /\ dropped' = dropped \cup spilt
      /\ spilt \subseteq Range(batch[o])
      /\ Range(batch[o]) \subseteq InBatch \cap Events
      /\ Held' = Held \ spilt
  BY BatchPutBack
<1>2. UNCHANGED <<answered, lost>>
  BY DEF BatchFailed
<1> HIDE DEF spilt
<1>3. /\ spilt \subseteq Held /\ spilt \in SUBSET Events
      /\ Range(retry') \subseteq Held \ spilt
      /\ Held \ spilt \in SUBSET Events
  BY <1>1, HeldIsEvents DEF Held
<1>4. \A e \in spilt : Delivery!MayDrop(e, Held \ spilt)
  <2>1. CASE spilt = {}
    BY <2>1
  <2>2. CASE Len(retry') = MAX_RETRY_BUFFER
    <3>1. Len(retry') >= MAX_RETRY_BUFFER
      BY <2>2, WorkerTransportAssumption
    <3>2. Delivery!Cardinality(Held \ spilt) >= MAX_RETRY_BUFFER
      BY <1>1, <1>3, <3>1, FullLoad
    <3> QED
      BY <3>2 DEF Delivery!MayDrop
  <2> QED
    BY <1>1, <2>1, <2>2
<1>5. Delivery!Drop(spilt)
  BY <1>1, <1>2, <1>3, <1>4 DEF Delivery!Drop
<1> QED
  BY <1>3, <1>5 DEF Delivery!Next

\* A sequence that fits the buffer has no more events than it has places.
LEMMA SmallLoad ==
  ASSUME NEW s \in Seq(Events), IsInjective(s), Len(s) <= MAX_RETRY_BUFFER
  PROVE  Delivery!Cardinality(Range(s)) <= MAX_RETRY_BUFFER
  BY CardinalityOfBuffer, SameCardinality

\* An exception that is not caught takes one event, or a thread's batch.
LEMMA RaisedMayLose ==
  ASSUME IInv, BatchFits
  PROVE  /\ ItemRaised => Delivery!Next
         /\ \A o \in Owners : BatchRaised(o) => Delivery!Next
<1>1. ASSUME ItemRaised
      PROVE  Delivery!Next
  <2>1. Held' = Held \ {item} /\ item \in Held \cap Events
    BY <1>1, ItemRaisedKeeps
  <2>2. lost' = lost \cup {item} /\ UNCHANGED <<answered, dropped>>
    BY <1>1 DEF ItemRaised
  <2>3. Delivery!Cardinality({item}) <= MAX_RETRY_BUFFER
    <3>1. Cardinality({item}) = 1
      BY FS_Singleton
    <3>2. 1 <= MAX_RETRY_BUFFER
      BY WorkerTransportAssumption
    <3> QED
      BY <3>1, <3>2, SameCardinality
  <2>4. Delivery!Lose({item}) /\ {item} \in SUBSET Events
    BY <2>1, <2>2, <2>3 DEF Delivery!Lose
  <2> QED
    BY <2>4 DEF Delivery!Next
<1>2. ASSUME NEW o \in Owners, BatchRaised(o)
      PROVE  Delivery!Next
  <2>1. Held' = Held \ Range(batch[o]) /\ Range(batch[o]) \subseteq Held \cap Events
    BY <1>2, BatchRaisedKeeps
  <2>2. lost' = lost \cup Range(batch[o]) /\ UNCHANGED <<answered, dropped>>
    BY <1>2 DEF BatchRaised
  <2>3. Delivery!Cardinality(Range(batch[o])) <= MAX_RETRY_BUFFER
    BY SmallLoad DEF IInv, TypeOK, OnePlace, BatchFits
  <2>4. Delivery!Lose(Range(batch[o])) /\ Range(batch[o]) \in SUBSET Events
    BY <2>1, <2>2, <2>3 DEF Delivery!Lose
  <2> QED
    BY <2>4 DEF Delivery!Next
<1> QED
  BY <1>1, <1>2

LEMMA RefinementInit == Init => Delivery!Init
<1> SUFFICES ASSUME Init
             PROVE  Delivery!Init
  OBVIOUS
<1>1. Range(<<>>) = {}
  BY DEF Range
<1>2. InBatch = {} /\ InItem = {}
  BY <1>1 DEF Init, InBatch, InItem
<1> QED
  BY <1>1, <1>2 DEF Init, Held, Delivery!Init

LEMMA RefinementStep ==
  IInv /\ BatchFits /\ [Next]_vars => [Delivery!Next]_(Delivery!vars)
<1> SUFFICES ASSUME IInv, BatchFits, [Next]_vars
             PROVE  Delivery!Next \/ UNCHANGED Delivery!vars
  OBVIOUS
<1>1. ASSUME NEW e \in Events, Send(e)
      PROVE  Delivery!Next
  BY <1>1, SendAccepts DEF Delivery!Next
<1>2. CASE ItemDone
  <2>1. /\ item \in Events /\ item \in Held /\ Held' = Held \ {item}
        /\ Settled(item) /\ lost' = lost
    BY <1>2, ItemDoneKeeps DEF ItemDone
  <2> QED
    BY <2>1, SettledLeaves
<1>3. CASE ItemFailed
  BY <1>3, ItemFailedMayDrop
<1>4. ASSUME NEW o \in Owners, BatchDone(o)
      PROVE  Delivery!Next
  <2>1. /\ Head(batch[o]) \in Events /\ Head(batch[o]) \in Held
        /\ Held' = Held \ {Head(batch[o])}
        /\ Settled(Head(batch[o])) /\ lost' = lost
    BY <1>4, BatchDoneKeeps DEF BatchDone
  <2> QED
    BY <2>1, SettledLeaves
<1>5. ASSUME NEW o \in Owners, BatchFailed(o)
      PROVE  Delivery!Next
  BY <1>5, BatchFailedMayDrop
<1>6. CASE Take \/ Sweep \/ WorkerStop \/ Close
  <2>1. Held' = Held
    BY <1>6, TakeKeeps, SweepKeeps, WorkerStopKeeps, CloseKeeps
  <2>2. UNCHANGED <<answered, dropped, lost>>
    BY <1>6 DEF Take, Sweep, WorkerStop, Close
  <2> QED
    BY <2>1, <2>2 DEF Delivery!vars
<1>7. ASSUME NEW f \in Flushers,
             \/ FlushCall(f) \/ QueueDrained(f) \/ RetryRead(f)
             \/ FlushRetry(f) \/ FlushTimeout(f)
      PROVE  UNCHANGED Delivery!vars
  <2>1. Held' = Held
    BY <1>7, FlushCallKeeps, QueueDrainedKeeps, RetryReadKeeps, FlushRetryKeeps,
       FlushTimeoutKeeps
  <2>2. UNCHANGED <<answered, dropped, lost>>
    BY <1>7 DEF FlushCall, QueueDrained, RetryRead, FlushRetry, FlushTimeout
  <2> QED
    BY <2>1, <2>2 DEF Delivery!vars
<1>8. CASE UNCHANGED vars
  BY <1>8, NothingMoves DEF vars, Delivery!vars
<1>9. CASE ItemRaised
  BY <1>9, RaisedMayLose
<1>10. ASSUME NEW o \in Owners, BatchRaised(o)
       PROVE  Delivery!Next
  BY <1>10, RaisedMayLose
<1>11. ASSUME NEW e \in Events, Recur(e)
       PROVE  Delivery!Next
  <2>1. Delivery!Recur(e)
    BY <1>11, RecurKeeps DEF Recur, Delivery!Recur
  <2> QED
    BY <2>1 DEF Delivery!Next
<1> QED
  BY <1>1, <1>2, <1>3, <1>4, <1>5, <1>6, <1>7, <1>8, <1>9, <1>10, <1>11 DEF Next

\* The Go and the Python transport implement EventDelivery: an event is given up
\* only when it cannot be serialised, when one of its fingerprint is still held,
\* or when the transport is left with a full load (transport.go:116-135, 212-270).
THEOREM TransportImplementsDelivery == Spec => ImplementsDelivery
  BY RefinementInit, RefinementStep, Invariant, PTL
     DEF Spec, ImplementsDelivery, Delivery!Spec

=============================================================================
