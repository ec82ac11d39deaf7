------------------------- MODULE NodeTransportProofs -------------------------
(***************************************************************************)
(* Proofs about NodeTransport: type correctness, the bound of the retry    *)
(* buffer, OnePlace, FlushCovers, and that the transport implements        *)
(* EventDelivery, for every set of events, every capacity and any number   *)
(* of callers of flush.                                                    *)
(***************************************************************************)
EXTENDS NodeTransport, SequenceLemmas

-----------------------------------------------------------------------------
(* The inductive invariant *)

\* What is still to be covered for a flush that met no failure: while it waits,
\* an event it owes may be in the buffer or be one of the sends it waits for.
FlushOwes ==
  \A f \in Flushers : ~troubled[f] =>
    /\ flusher[f] = "settling" =>
         owed[f] \subseteq acked \cup InFlight \cup Range(retryBuffer)
                             \cup (awaited[f] \cap pendingSends)
    /\ flusher[f] \in {"retrying", "returned"} => owed[f] \subseteq acked \cup InFlight

IInv ==
  /\ TypeOK
  /\ RetryBufferBounded
  /\ OnePlace
  /\ AwaitedBatch
  /\ FlushOwes

\* How the put-back loop splits a batch: what fits is a prefix, it fits, and if
\* anything is left out the buffer is full.
LEMMA KeptFits ==
  ASSUME NEW q \in Seq(Events), TypeOK, RetryBufferBounded
  PROVE  /\ Kept(q) \in Seq(Events)
         /\ Range(Kept(q)) \subseteq Range(q)
         /\ IsInjective(q) => IsInjective(Kept(q))
         /\ retryBuffer \o Kept(q) \in Seq(Events)
         /\ Range(retryBuffer \o Kept(q)) = Range(retryBuffer) \cup Range(Kept(q))
         /\ Len(retryBuffer \o Kept(q)) <= MAX_RETRY_BUFFER
         /\ \/ Kept(q) = q
            \/ Len(retryBuffer \o Kept(q)) = MAX_RETRY_BUFFER
<1> DEFINE m == IF Len(q) <= Room THEN Len(q) ELSE Room
<1>1. /\ retryBuffer \in Seq(Events)
      /\ Len(retryBuffer) \in Nat
      /\ Len(q) \in Nat
      /\ MAX_RETRY_BUFFER \in Nat
      /\ Room \in Nat
      /\ Room = MAX_RETRY_BUFFER - Len(retryBuffer)
  BY NodeTransportAssumption, LenProperties DEF TypeOK, RetryBufferBounded, Room
<1>2. m \in 0..Len(q)
  BY <1>1
<1>3. /\ Kept(q) \in Seq(Events)
      /\ Len(Kept(q)) = m
      /\ Range(Kept(q)) \subseteq Range(q)
      /\ IsInjective(q) => IsInjective(Kept(q))
      /\ m = Len(q) => Kept(q) = q
  BY <1>2, PrefixOfInjective DEF Kept
<1>4. /\ retryBuffer \o Kept(q) \in Seq(Events)
      /\ Len(retryBuffer \o Kept(q)) = Len(retryBuffer) + m
  BY <1>1, <1>3, ConcatProperties
<1>5. Range(retryBuffer \o Kept(q)) = Range(retryBuffer) \cup Range(Kept(q))
  BY <1>1, <1>3, RangeConcatenation
<1>6. Len(retryBuffer \o Kept(q)) <= MAX_RETRY_BUFFER
  BY <1>1, <1>4
<1>7. Kept(q) = q \/ Len(retryBuffer \o Kept(q)) = MAX_RETRY_BUFFER
  BY <1>1, <1>3, <1>4
<1> QED
  BY <1>3, <1>4, <1>5, <1>6, <1>7

\* Emptying the buffer into a batch moves its events, as they are, on the wire.
LEMMA StartBatchMoves ==
  ASSUME IInv, NEW o \in Owners, StartBatch(o),
         o # Background => \A b \in batches : b.owner # o
  PROVE  /\ retryBuffer' \in Seq(Events)
         /\ batches' \subseteq Batch
         /\ Range(retryBuffer') = {}
         /\ IsInjective(retryBuffer')
         /\ Len(retryBuffer') <= MAX_RETRY_BUFFER
         /\ InFlight' = InFlight \cup Range(retryBuffer)
         /\ \A b \in batches' : IsInjective(b.queue) /\ b.queue # <<>>
         /\ \A b, c \in batches' : b # c => Range(b.queue) \cap Range(c.queue) = {}
         /\ \A b, c \in batches' : b.owner = c.owner /\ b.owner # Background => b = c
         /\ \A f \in Flushers :
              (\E b \in batches' : b.owner = f)
                <=> (\E b \in batches : b.owner = f) \/ (f = o /\ retryBuffer # <<>>)
<1>1. Len(<<>>) = 0 /\ <<>> \in Seq(Events) /\ Range(<<>>) = {} /\ IsInjective(<<>>)
  BY EmptySeq DEF Range, IsInjective
<1>2. /\ retryBuffer' \in Seq(Events)
      /\ Range(retryBuffer') = {}
      /\ IsInjective(retryBuffer')
      /\ Len(retryBuffer') <= MAX_RETRY_BUFFER
  <2>1. retryBuffer' = <<>> /\ MAX_RETRY_BUFFER \in Nat
    BY NodeTransportAssumption DEF StartBatch
  <2> QED
    BY <1>1, <2>1
<1>3. CASE retryBuffer = <<>>
  <2>1. batches' = batches
    BY <1>3 DEF StartBatch
  <2>2. InFlight' = InFlight
    BY <2>1 DEF InFlight
  <2>3. InFlight' = InFlight \cup Range(retryBuffer)
    BY <1>1, <1>3, <2>2
  <2>4. batches' \subseteq Batch
    BY <2>1 DEF IInv, TypeOK
  <2>5. /\ \A b \in batches' : IsInjective(b.queue) /\ b.queue # <<>>
        /\ \A b, c \in batches' : b # c => Range(b.queue) \cap Range(c.queue) = {}
        /\ \A b, c \in batches' : b.owner = c.owner /\ b.owner # Background => b = c
    BY <2>1 DEF IInv, OnePlace, AwaitedBatch
  <2>6. \A f \in Flushers :
          (\E b \in batches' : b.owner = f)
            <=> (\E b \in batches : b.owner = f) \/ (f = o /\ retryBuffer # <<>>)
    BY <1>3, <2>1
  <2> QED
    BY <1>2, <2>3, <2>4, <2>5, <2>6
<1>4. CASE retryBuffer # <<>>
  <2> DEFINE new == [owner |-> o, queue |-> retryBuffer]
  <2>1. batches' = batches \cup {new} /\ new \in Batch
    BY <1>4 DEF StartBatch, Batch, IInv, TypeOK
  <2>2. new.owner = o /\ new.queue = retryBuffer
    OBVIOUS
  <2>3. InFlight' = InFlight \cup Range(retryBuffer)
    BY <2>1, <2>2 DEF InFlight
  <2>4. \A b \in batches : Range(b.queue) \cap Range(retryBuffer) = {}
    BY DEF IInv, OnePlace, InFlight
  <2>5. \A b, c \in batches' : b # c => Range(b.queue) \cap Range(c.queue) = {}
    BY <2>1, <2>2, <2>4 DEF IInv, OnePlace
  <2>6. \A b, c \in batches' : b.owner = c.owner /\ b.owner # Background => b = c
    BY <2>1, <2>2 DEF IInv, AwaitedBatch
  <2>7. \A b \in batches' : IsInjective(b.queue) /\ b.queue # <<>>
    BY <1>4, <2>1, <2>2 DEF IInv, OnePlace, AwaitedBatch
  <2>9. batches' \subseteq Batch
    BY <2>1 DEF IInv, TypeOK
  <2>8. \A f \in Flushers :
          (\E b \in batches' : b.owner = f)
            <=> (\E b \in batches : b.owner = f) \/ (f = o /\ retryBuffer # <<>>)
    BY <1>4, <2>1, <2>2
  <2> QED
    BY <1>2, <2>3, <2>5, <2>6, <2>7, <2>8, <2>9
<1> QED
  BY <1>3, <1>4

-----------------------------------------------------------------------------
(* Every action keeps the invariant *)

LEMMA SendKeeps ==
  ASSUME IInv, NEW e \in Events, Send(e)
  PROVE  IInv'
<1>1. InFlight' = InFlight
  BY DEF Send, InFlight
<1>2. TypeOK'
  BY DEF IInv, TypeOK, Send
<1>3. RetryBufferBounded'
  BY DEF IInv, RetryBufferBounded, Send
<1>4. OnePlace'
  BY <1>1 DEF IInv, OnePlace, Send, Held
<1>5. AwaitedBatch'
  BY DEF IInv, AwaitedBatch, Send
<1>6. FlushOwes'
  BY <1>1 DEF IInv, FlushOwes, Send
<1> QED
  BY <1>2, <1>3, <1>4, <1>5, <1>6 DEF IInv

LEMMA SendOkKeeps ==
  ASSUME IInv, NEW e \in Events, SendOk(e)
  PROVE  IInv'
<1>1. StartBatch(Background) /\ Background \in Owners
  BY DEF SendOk, Owners
<1>2. /\ retryBuffer' \in Seq(Events)
      /\ batches' \subseteq Batch
      /\ Range(retryBuffer') = {}
      /\ IsInjective(retryBuffer')
      /\ Len(retryBuffer') <= MAX_RETRY_BUFFER
      /\ InFlight' = InFlight \cup Range(retryBuffer)
      /\ \A b \in batches' : IsInjective(b.queue) /\ b.queue # <<>>
      /\ \A b, c \in batches' : b # c => Range(b.queue) \cap Range(c.queue) = {}
      /\ \A b, c \in batches' : b.owner = c.owner /\ b.owner # Background => b = c
      /\ \A f \in Flushers :
           (\E b \in batches' : b.owner = f)
             <=> (\E b \in batches : b.owner = f)
                   \/ (f = Background /\ retryBuffer # <<>>)
  BY <1>1, StartBatchMoves
<1>3. TypeOK'
  BY <1>2 DEF IInv, TypeOK, SendOk
<1>4. RetryBufferBounded'
  BY <1>2 DEF RetryBufferBounded
<1>5. OnePlace'
  BY <1>2 DEF IInv, OnePlace, SendOk
<1>6. AwaitedBatch'
  BY <1>2, NodeTransportAssumption DEF IInv, AwaitedBatch, SendOk
<1>7. FlushOwes'
  BY <1>2 DEF IInv, FlushOwes, SendOk
<1> QED
  BY <1>3, <1>4, <1>5, <1>6, <1>7 DEF IInv

LEMMA SendFailKeeps ==
  ASSUME IInv, NEW e \in Events, SendFail(e)
  PROVE  IInv'
<1>1. InFlight' = InFlight
  BY DEF SendFail, InFlight
<1>2. e \in pendingSends /\ e \notin Range(retryBuffer)
  BY DEF SendFail, IInv, OnePlace
<1>3. /\ Append(retryBuffer, e) \in Seq(Events)
      /\ Range(Append(retryBuffer, e)) = Range(retryBuffer) \cup {e}
      /\ IsInjective(Append(retryBuffer, e))
      /\ Len(Append(retryBuffer, e)) = Len(retryBuffer) + 1
      /\ Len(retryBuffer) \in Nat
  BY <1>2, AppendNew, AppendProperties, LenProperties DEF IInv, TypeOK, OnePlace
<1>4. \/ /\ Len(retryBuffer) < MAX_RETRY_BUFFER
         /\ retryBuffer' = Append(retryBuffer, e)
         /\ dropped' = dropped
      \/ /\ retryBuffer' = retryBuffer
         /\ dropped' = dropped \cup {e}
  BY DEF SendFail
<1>5. TypeOK'
  BY <1>3, <1>4 DEF IInv, TypeOK, SendFail, NoteFailure
<1>6. RetryBufferBounded'
  BY <1>3, <1>4, NodeTransportAssumption DEF IInv, RetryBufferBounded
<1>7. OnePlace'
  <2>1. CASE retryBuffer' = Append(retryBuffer, e) /\ dropped' = dropped
    BY <1>1, <1>2, <1>3, <2>1 DEF IInv, OnePlace, SendFail
  <2>2. CASE retryBuffer' = retryBuffer /\ dropped' = dropped \cup {e}
    BY <1>1, <1>2, <2>2 DEF IInv, OnePlace, SendFail
  <2> QED
    BY <1>4, <2>1, <2>2
<1>8. AwaitedBatch'
  BY DEF IInv, AwaitedBatch, SendFail
<1>9. FlushOwes'
  BY DEF FlushOwes, SendFail, NoteFailure
<1> QED
  BY <1>5, <1>6, <1>7, <1>8, <1>9 DEF IInv

LEMMA SendThrowKeeps ==
  ASSUME IInv, NEW e \in Events, SendThrow(e)
  PROVE  IInv'
<1>1. InFlight' = InFlight
  BY DEF SendThrow, InFlight
<1>2. TypeOK'
  BY DEF IInv, TypeOK, SendThrow, NoteFailure
<1>3. RetryBufferBounded'
  BY DEF IInv, RetryBufferBounded, SendThrow
<1>4. OnePlace'
  BY <1>1 DEF IInv, OnePlace, SendThrow
<1>5. AwaitedBatch'
  BY DEF IInv, AwaitedBatch, SendThrow
<1>6. FlushOwes'
  BY DEF FlushOwes, SendThrow, NoteFailure
<1> QED
  BY <1>2, <1>3, <1>4, <1>5, <1>6 DEF IInv

\* A batch that ends takes exactly its own events off the wire.
LEMMA BatchEnds ==
  ASSUME IInv, NEW b \in batches, batches' = batches \ {b}
  PROVE  /\ InFlight' = InFlight \ Range(b.queue)
         /\ Range(b.queue) \subseteq InFlight
         /\ b.queue \in Seq(Events) /\ b.queue # <<>> /\ IsInjective(b.queue)
         /\ b.owner \in Owners
<1>1. InFlight' = UNION {Range(c.queue) : c \in batches \ {b}}
  BY DEF InFlight
<1>2. \A c \in batches \ {b} : Range(c.queue) \cap Range(b.queue) = {}
  BY DEF IInv, OnePlace
<1>3. InFlight' = InFlight \ Range(b.queue)
  BY <1>1, <1>2 DEF InFlight
<1>4. Range(b.queue) \subseteq InFlight
  BY DEF InFlight
<1> QED
  BY <1>3, <1>4 DEF IInv, TypeOK, Batch, OnePlace, AwaitedBatch

\* When a batch ends, the flush that awaits it returns and no other does.
LEMMA ReleaseKeepsAwaited ==
  ASSUME IInv, NEW b \in batches, batches' = batches \ {b}, ReleaseOwner(b)
  PROVE  /\ AwaitedBatch'
         /\ flusher' \in [Flushers -> {"idle", "settling", "retrying", "returned"}]
         /\ \A f \in Flushers : \/ flusher'[f] = flusher[f]
                                \/ flusher[f] = "retrying" /\ flusher'[f] = "returned"
<1>1. b.owner \in Owners
  BY BatchEnds
<1>2. CASE b.owner = Background
  <2>1. flusher' = flusher
    BY <1>2 DEF ReleaseOwner
  <2>2. \A f \in Flushers :
          (\E c \in batches' : c.owner = f) <=> (\E c \in batches : c.owner = f)
    BY <1>2, NodeTransportAssumption
  <2> QED
    BY <2>1, <2>2 DEF IInv, TypeOK, AwaitedBatch
<1>3. CASE b.owner # Background
  <2>1. b.owner \in Flushers /\ flusher[b.owner] = "retrying"
    BY <1>1, <1>3 DEF Owners, IInv, AwaitedBatch
  <2>2. flusher' = [flusher EXCEPT ![b.owner] = "returned"]
    BY <1>3 DEF ReleaseOwner
  <2>3. \A c \in batches' : c.owner # b.owner
    BY <1>3 DEF IInv, AwaitedBatch
  <2>4. \A f \in Flushers : f # b.owner =>
          ((\E c \in batches' : c.owner = f) <=> (\E c \in batches : c.owner = f))
    OBVIOUS
  <2>5. \A f \in Flushers :
          flusher'[f] = IF f = b.owner THEN "returned" ELSE flusher[f]
    BY <2>1, <2>2 DEF IInv, TypeOK
  <2>6. \A f \in Flushers :
          (flusher'[f] = "retrying") <=> (\E c \in batches' : c.owner = f)
    BY <2>3, <2>4, <2>5 DEF IInv, AwaitedBatch
  <2>7. AwaitedBatch'
    BY <2>6 DEF IInv, AwaitedBatch
  <2> QED
    BY <2>1, <2>2, <2>5, <2>7 DEF IInv, TypeOK
<1> QED
  BY <1>2, <1>3

LEMMA BatchFailKeeps ==
  ASSUME IInv, NEW b \in batches, BatchFail(b)
  PROVE  IInv'
<1>1. batches' = batches \ {b} /\ ReleaseOwner(b)
  BY DEF BatchFail
<1>2. /\ InFlight' = InFlight \ Range(b.queue)
      /\ Range(b.queue) \subseteq InFlight
      /\ b.queue \in Seq(Events) /\ IsInjective(b.queue)
  BY <1>1, BatchEnds
<1>3. /\ AwaitedBatch'
      /\ flusher' \in [Flushers -> {"idle", "settling", "retrying", "returned"}]
  BY <1>1, ReleaseKeepsAwaited
<1> DEFINE kept == Kept(b.queue)
<1>4. /\ kept \in Seq(Events)
      /\ Range(kept) \subseteq Range(b.queue)
      /\ IsInjective(kept)
      /\ retryBuffer \o kept \in Seq(Events)
      /\ Range(retryBuffer \o kept) = Range(retryBuffer) \cup Range(kept)
      /\ Len(retryBuffer \o kept) <= MAX_RETRY_BUFFER
  BY <1>2, KeptFits DEF IInv
<1>5. /\ retryBuffer' = retryBuffer \o kept
      /\ dropped' = dropped \cup (Range(b.queue) \ Range(kept))
      /\ UNCHANGED <<pendingSends, awaited, acked, owed>>
      /\ NoteFailure
  BY DEF BatchFail
<1> HIDE DEF kept
<1>6. Range(b.queue) \subseteq Events
  BY <1>2, RangeOfSeq
<1>7. TypeOK'
  BY <1>1, <1>3, <1>4, <1>5, <1>6 DEF IInv, TypeOK, NoteFailure
<1>8. RetryBufferBounded'
  BY <1>4, <1>5 DEF RetryBufferBounded
<1>9. OnePlace'
  <2>1. IsInjective(retryBuffer')
    <3>1. Range(retryBuffer) \cap Range(kept) = {}
      BY <1>2, <1>4 DEF IInv, OnePlace
    <3> QED
      BY <1>4, <1>5, <3>1, ConcatDisjoint DEF IInv, TypeOK, OnePlace
  <2>2. Range(retryBuffer') = Range(retryBuffer) \cup Range(kept)
    BY <1>4, <1>5
  <2>3. /\ \A c \in batches' : IsInjective(c.queue)
        /\ \A c, d \in batches' : c # d => Range(c.queue) \cap Range(d.queue) = {}
    BY <1>1 DEF IInv, OnePlace
  <2> HIDE DEF kept
  <2>4. pendingSends \cap (Range(retryBuffer') \cup InFlight' \cup acked \cup dropped') = {}
    BY <1>2, <1>4, <1>5, <2>2 DEF IInv, OnePlace
  <2>5. Range(retryBuffer') \cap (InFlight' \cup acked \cup dropped') = {}
    BY <1>2, <1>4, <1>5, <2>2 DEF IInv, OnePlace
  <2>6. InFlight' \cap (acked \cup dropped') = {} /\ acked \cap dropped' = {}
    BY <1>2, <1>5 DEF IInv, OnePlace
  <2> QED
    BY <1>5, <2>1, <2>3, <2>4, <2>5, <2>6 DEF OnePlace
<1>10. FlushOwes'
  BY <1>5 DEF FlushOwes, NoteFailure
<1> QED
  BY <1>3, <1>7, <1>8, <1>9, <1>10 DEF IInv

\* An acknowledgement takes the head of one batch off the wire.
LEMMA BatchAdvances ==
  ASSUME IInv, NEW b \in batches, BatchOk(b)
  PROVE  /\ InFlight' = InFlight \ {Head(b.queue)}
         /\ Head(b.queue) \in InFlight /\ Head(b.queue) \in Events
         /\ batches' \subseteq Batch
         /\ AwaitedBatch'
         /\ flusher' \in [Flushers -> {"idle", "settling", "retrying", "returned"}]
         /\ \A f \in Flushers : \/ flusher'[f] = flusher[f]
                                \/ flusher[f] = "retrying" /\ flusher'[f] = "returned"
         /\ \A c \in batches' : IsInjective(c.queue)
         /\ \A c, d \in batches' : c # d => Range(c.queue) \cap Range(d.queue) = {}
<1>1. /\ b \in Batch /\ b.queue \in Seq(Events) /\ b.queue # <<>> /\ IsInjective(b.queue)
      /\ b.owner \in Owners
  BY DEF IInv, TypeOK, Batch, OnePlace, AwaitedBatch
<1>2. /\ Head(b.queue) \in Range(b.queue)
      /\ Tail(b.queue) \in Seq(Events)
      /\ Range(Tail(b.queue)) = Range(b.queue) \ {Head(b.queue)}
      /\ IsInjective(Tail(b.queue))
      /\ Len(b.queue) = 1 => Range(b.queue) = {Head(b.queue)}
      /\ Len(b.queue) # 1 => Tail(b.queue) # <<>>
  BY <1>1, TailRemovesHead
<1>3. Head(b.queue) \in InFlight /\ Head(b.queue) \in Events
  BY <1>1, <1>2, RangeOfSeq DEF InFlight
<1>4. CASE Len(b.queue) = 1
  <2>1. batches' = batches \ {b} /\ ReleaseOwner(b)
    BY <1>4 DEF BatchOk
  <2>2. InFlight' = InFlight \ Range(b.queue)
    BY <2>1, BatchEnds
  <2>3. /\ AwaitedBatch'
        /\ flusher' \in [Flushers -> {"idle", "settling", "retrying", "returned"}]
        /\ \A f \in Flushers : \/ flusher'[f] = flusher[f]
                               \/ flusher[f] = "retrying" /\ flusher'[f] = "returned"
    BY <2>1, ReleaseKeepsAwaited
  <2>4. /\ batches' \subseteq Batch
        /\ \A c \in batches' : IsInjective(c.queue)
        /\ \A c, d \in batches' : c # d => Range(c.queue) \cap Range(d.queue) = {}
    BY <2>1 DEF IInv, TypeOK, OnePlace
  <2>5. InFlight' = InFlight \ {Head(b.queue)}
    BY <1>2, <1>4, <2>2
  <2> QED
    BY <1>3, <2>3, <2>4, <2>5
<1>5. CASE Len(b.queue) # 1
  <2> DEFINE nb == [b EXCEPT !.queue = Tail(@)]
  <2>1. batches' = (batches \ {b}) \cup {nb} /\ flusher' = flusher
    BY <1>5 DEF BatchOk
  <2>2. nb \in Batch /\ nb.queue = Tail(b.queue) /\ nb.owner = b.owner
    BY <1>1, <1>2 DEF Batch
  <2> HIDE DEF nb
  <2>3. \A c \in batches \ {b} : Range(c.queue) \cap Range(b.queue) = {}
    BY DEF IInv, OnePlace
  <2>4. InFlight' = InFlight \ {Head(b.queue)}
    <3>1. \A x : x \in InFlight' <=>
            (\E c \in batches \ {b} : x \in Range(c.queue)) \/ x \in Range(nb.queue)
      BY <2>1 DEF InFlight
    <3>2. \A x : x \in InFlight <=>
            (\E c \in batches \ {b} : x \in Range(c.queue)) \/ x \in Range(b.queue)
      BY DEF InFlight
    <3>3. \A c \in batches \ {b} : Head(b.queue) \notin Range(c.queue)
      BY <1>2, <2>3
    <3> QED
      BY <1>2, <2>2, <3>1, <3>2, <3>3
  <2>5. \A c \in batches' : IsInjective(c.queue) /\ c.queue # <<>>
    BY <1>2, <1>5, <2>1, <2>2 DEF IInv, OnePlace, AwaitedBatch
  <2>6. \A c, d \in batches' : c # d => Range(c.queue) \cap Range(d.queue) = {}
    BY <1>2, <2>1, <2>2, <2>3 DEF IInv, OnePlace
  <2>7. \A f \in Flushers :
          (\E c \in batches' : c.owner = f) <=> (\E c \in batches : c.owner = f)
    BY <2>1, <2>2
  <2>8. \A c, d \in batches' : c.owner = d.owner /\ c.owner # Background => c = d
    BY <2>1, <2>2 DEF IInv, AwaitedBatch
  <2>9. AwaitedBatch'
    BY <2>1, <2>5, <2>7, <2>8 DEF IInv, AwaitedBatch
  <2>10. batches' \subseteq Batch
    BY <2>1, <2>2 DEF IInv, TypeOK
  <2>11. flusher' \in [Flushers -> {"idle", "settling", "retrying", "returned"}]
    BY <2>1 DEF IInv, TypeOK
  <2> QED
    BY <1>3, <2>1, <2>4, <2>5, <2>6, <2>9, <2>10, <2>11
<1> QED
  BY <1>4, <1>5

LEMMA BatchOkKeeps ==
  ASSUME IInv, NEW b \in batches, BatchOk(b)
  PROVE  IInv'
<1> DEFINE h == Head(b.queue)
<1>1. /\ InFlight' = InFlight \ {h}
      /\ h \in InFlight /\ h \in Events
      /\ batches' \subseteq Batch
      /\ AwaitedBatch'
      /\ flusher' \in [Flushers -> {"idle", "settling", "retrying", "returned"}]
      /\ \A f \in Flushers : \/ flusher'[f] = flusher[f]
                             \/ flusher[f] = "retrying" /\ flusher'[f] = "returned"
      /\ \A c \in batches' : IsInjective(c.queue)
      /\ \A c, d \in batches' : c # d => Range(c.queue) \cap Range(d.queue) = {}
  BY BatchAdvances
<1>2. /\ acked' = acked \cup {h}
      /\ UNCHANGED <<retryBuffer, pendingSends, awaited, dropped, owed, troubled>>
  BY DEF BatchOk
<1> HIDE DEF h
<1>3. TypeOK'
  BY <1>1, <1>2 DEF IInv, TypeOK
<1>4. RetryBufferBounded'
  BY <1>2 DEF IInv, RetryBufferBounded
<1>5. OnePlace'
  BY <1>1, <1>2 DEF IInv, OnePlace
<1>6. FlushOwes'
  BY <1>1, <1>2 DEF IInv, FlushOwes
<1> QED
  BY <1>1, <1>3, <1>4, <1>5, <1>6 DEF IInv

LEMMA FlushCallKeeps ==
  ASSUME IInv, NEW f \in Flushers, FlushCall(f)
  PROVE  IInv'
<1>1. InFlight' = InFlight
  BY DEF FlushCall, InFlight
<1>2. Held \subseteq Events
  <2>1. Range(retryBuffer) \subseteq Events
    BY RangeOfSeq DEF IInv, TypeOK
  <2>2. \A b \in batches : Range(b.queue) \subseteq Events
    BY RangeOfSeq DEF IInv, TypeOK, Batch
  <2> QED
    BY <2>1, <2>2 DEF Held, InFlight, IInv, TypeOK
<1>3. TypeOK'
  BY <1>2 DEF IInv, TypeOK, FlushCall
<1>4. RetryBufferBounded'
  BY DEF IInv, RetryBufferBounded, FlushCall
<1>5. OnePlace'
  BY <1>1 DEF IInv, OnePlace, FlushCall
<1>6. AwaitedBatch'
  BY DEF IInv, TypeOK, AwaitedBatch, FlushCall
<1>7. FlushOwes'
  <2> SUFFICES ASSUME NEW g \in Flushers, ~troubled'[g]
               PROVE  /\ flusher'[g] = "settling" =>
                           owed'[g] \subseteq acked \cup InFlight \cup Range(retryBuffer)
                                                 \cup (awaited'[g] \cap pendingSends)
                      /\ flusher'[g] \in {"retrying", "returned"} =>
                           owed'[g] \subseteq acked \cup InFlight
    BY <1>1 DEF FlushOwes, FlushCall
  <2>1. CASE g = f
    BY <2>1 DEF IInv, TypeOK, FlushCall, Held
  <2>2. CASE g # f
    BY <2>2 DEF IInv, TypeOK, FlushOwes, FlushCall
  <2> QED
    BY <2>1, <2>2
<1> QED
  BY <1>3, <1>4, <1>5, <1>6, <1>7 DEF IInv

LEMMA FlushSettledKeeps ==
  ASSUME IInv, NEW f \in Flushers, FlushSettled(f)
  PROVE  IInv'
<1>1. StartBatch(f) /\ f \in Owners /\ \A b \in batches : b.owner # f
  BY DEF FlushSettled, Owners, IInv, AwaitedBatch
<1>2. /\ retryBuffer' \in Seq(Events)
      /\ batches' \subseteq Batch
      /\ Range(retryBuffer') = {}
      /\ IsInjective(retryBuffer')
      /\ Len(retryBuffer') <= MAX_RETRY_BUFFER
      /\ InFlight' = InFlight \cup Range(retryBuffer)
      /\ \A b \in batches' : IsInjective(b.queue) /\ b.queue # <<>>
      /\ \A b, c \in batches' : b # c => Range(b.queue) \cap Range(c.queue) = {}
      /\ \A b, c \in batches' : b.owner = c.owner /\ b.owner # Background => b = c
      /\ \A g \in Flushers :
           (\E b \in batches' : b.owner = g)
             <=> (\E b \in batches : b.owner = g) \/ (g = f /\ retryBuffer # <<>>)
  BY <1>1, StartBatchMoves
<1>3. \A g \in Flushers :
        /\ flusher'[g] = IF g = f
                         THEN IF retryBuffer = <<>> THEN "returned" ELSE "retrying"
                         ELSE flusher[g]
        /\ awaited'[g] = IF g = f THEN {} ELSE awaited[g]
  BY DEF IInv, TypeOK, FlushSettled
<1>4. /\ flusher[f] = "settling" /\ awaited[f] \cap pendingSends = {}
      /\ UNCHANGED <<pendingSends, acked, dropped, owed, troubled>>
  BY DEF FlushSettled
<1>5. TypeOK'
  BY <1>2 DEF IInv, TypeOK, FlushSettled
<1>6. RetryBufferBounded'
  BY <1>2 DEF RetryBufferBounded
<1>7. OnePlace'
  BY <1>2, <1>4 DEF IInv, OnePlace
<1>8. AwaitedBatch'
  BY <1>2, <1>3, <1>4 DEF IInv, AwaitedBatch
<1>9. FlushOwes'
  BY <1>2, <1>3, <1>4 DEF IInv, FlushOwes
<1> QED
  BY <1>5, <1>6, <1>7, <1>8, <1>9 DEF IInv

-----------------------------------------------------------------------------
(* The theorems *)

LEMMA InvariantInit == Init => IInv
<1> SUFFICES ASSUME Init
             PROVE  IInv
  OBVIOUS
<1>1. Len(<<>>) = 0 /\ <<>> \in Seq(Events) /\ Range(<<>>) = {} /\ IsInjective(<<>>)
  BY EmptySeq DEF Range, IsInjective
<1>2. InFlight = {}
  BY DEF Init, InFlight
<1>3. TypeOK
  BY <1>1 DEF Init, TypeOK
<1>4. RetryBufferBounded
  BY <1>1, NodeTransportAssumption DEF Init, RetryBufferBounded
<1>5. OnePlace
  BY <1>1, <1>2 DEF Init, OnePlace
<1>6. AwaitedBatch
  BY DEF Init, AwaitedBatch
<1>7. FlushOwes
  BY DEF Init, FlushOwes
<1> QED
  BY <1>3, <1>4, <1>5, <1>6, <1>7 DEF IInv

LEMMA InvariantStep == IInv /\ [Next]_vars => IInv'
<1> SUFFICES ASSUME IInv, [Next]_vars
             PROVE  IInv'
  OBVIOUS
<1>1. ASSUME NEW e \in Events, Send(e)
      PROVE  IInv'
  BY <1>1, SendKeeps
<1>2. ASSUME NEW e \in Events, SendOk(e)
      PROVE  IInv'
  BY <1>2, SendOkKeeps
<1>3. ASSUME NEW e \in Events, SendFail(e)
      PROVE  IInv'
  BY <1>3, SendFailKeeps
<1>4. ASSUME NEW e \in Events, SendThrow(e)
      PROVE  IInv'
  BY <1>4, SendThrowKeeps
<1>5. ASSUME NEW b \in batches, BatchOk(b)
      PROVE  IInv'
  BY <1>5, BatchOkKeeps
<1>6. ASSUME NEW b \in batches, BatchFail(b)
      PROVE  IInv'
  BY <1>6, BatchFailKeeps
<1>7. ASSUME NEW f \in Flushers, FlushCall(f)
      PROVE  IInv'
  BY <1>7, FlushCallKeeps
<1>8. ASSUME NEW f \in Flushers, FlushSettled(f)
      PROVE  IInv'
  BY <1>8, FlushSettledKeeps
<1>9. CASE UNCHANGED vars
  BY <1>9 DEF IInv, TypeOK, RetryBufferBounded, OnePlace, AwaitedBatch, FlushOwes,
              InFlight, vars
<1> QED
  BY <1>1, <1>2, <1>3, <1>4, <1>5, <1>6, <1>7, <1>8, <1>9 DEF Next, Settle

\* The inductive invariant holds in every reachable state.
LEMMA Invariant == Spec => []IInv
  BY InvariantInit, InvariantStep, PTL DEF Spec

\* Type correctness of the transport's state (transport.ts:198, 277).
THEOREM TypeCorrect == Spec => []TypeOK
<1>1. IInv => TypeOK
  BY DEF IInv
<1> QED
  BY <1>1, Invariant, PTL

\* The retry buffer never holds more than MAX_RETRY_BUFFER events, whatever the
\* order in which sends and batches fail (transport.ts:262-290).
THEOREM BufferBounded == Spec => []RetryBufferBounded
<1>1. IInv => RetryBufferBounded
  BY DEF IInv
<1> QED
  BY <1>1, Invariant, PTL

\* An event is in exactly one place: no event is on the wire twice at once, is
\* sent again after its acknowledgement, or is buffered twice.
THEOREM EventInOnePlace == Spec => []OnePlace
<1>1. IInv => OnePlace
  BY DEF IInv
<1> QED
  BY <1>1, Invariant, PTL

\* A flush that met no failure leaves no event it found at rest in the transport
\* (transport.ts:298-301).
THEOREM FlushIsCovering == Spec => []FlushCovers
<1>1. IInv => FlushCovers
  BY DEF IInv, FlushOwes, FlushCovers
<1> QED
  BY <1>1, Invariant, PTL

-----------------------------------------------------------------------------
(* The transport implements EventDelivery *)

\* EventDelivery counts with the same Cardinality.
LEMMA SameCardinality ==
  ASSUME NEW S
  PROVE  Delivery!Cardinality(S) = Cardinality(S)
  BY DEF Delivery!Cardinality, Cardinality

\* With a full buffer, EventDelivery lets the transport drop any event.
LEMMA FullBufferAllowsDrop ==
  ASSUME NEW s \in Seq(Events), IsInjective(s), Len(s) >= MAX_RETRY_BUFFER,
         NEW kept \in SUBSET Events, Range(s) \subseteq kept, NEW e
  PROVE  Delivery!MayDrop(e, kept)
<1>1. IsFiniteSet(kept)
  BY NodeTransportAssumption, FS_Subset
<1>2. Cardinality(Range(s)) = Len(s)
  BY CardinalityOfBuffer
<1>3. Cardinality(Range(s)) <= Cardinality(kept)
  BY <1>1, FS_Subset
<1>4. Cardinality(kept) \in Nat /\ Len(s) \in Nat /\ MAX_RETRY_BUFFER \in Nat
  BY <1>1, FS_CardinalityType, LenProperties, NodeTransportAssumption
<1> QED
  BY <1>2, <1>3, <1>4, SameCardinality DEF Delivery!MayDrop

LEMMA HeldIsEvents == IInv => Held \subseteq Events
<1> SUFFICES ASSUME IInv
             PROVE  Held \subseteq Events
  OBVIOUS
<1>1. Range(retryBuffer) \subseteq Events
  BY RangeOfSeq DEF IInv, TypeOK
<1>2. \A b \in batches : Range(b.queue) \subseteq Events
  BY RangeOfSeq DEF IInv, TypeOK, Batch
<1> QED
  BY <1>1, <1>2 DEF Held, InFlight, IInv, TypeOK

\* send accepts the event.
LEMMA SendAccepts ==
  ASSUME IInv, NEW e \in Events, Send(e)
  PROVE  Delivery!Accept(e)
<1>1. InFlight' = InFlight
  BY DEF Send, InFlight
<1> QED
  BY <1>1 DEF Send, Held, Delivery!Accept

\* An acknowledged first attempt delivers the event; the buffer it sets going
\* stays with the transport.
LEMMA SendOkDelivers ==
  ASSUME IInv, NEW e \in Events, SendOk(e)
  PROVE  Delivery!Deliver(e)
<1>1. StartBatch(Background) /\ Background \in Owners
  BY DEF SendOk, Owners
<1>2. Range(retryBuffer') = {} /\ InFlight' = InFlight \cup Range(retryBuffer)
  BY <1>1, StartBatchMoves
<1>3. e \in pendingSends /\ e \notin Range(retryBuffer) \cup InFlight
  BY DEF SendOk, IInv, OnePlace
<1>4. Held' = Held \ {e} /\ e \in Held
  BY <1>2, <1>3 DEF SendOk, Held
<1> QED
  BY <1>4 DEF SendOk, Delivery!Deliver

\* A failed first attempt is buffered, or dropped for a reason allowed.
LEMMA SendFailMayDrop ==
  ASSUME IInv, NEW e \in Events, SendFail(e)
  PROVE  Delivery!Drop({e}) \/ UNCHANGED Delivery!vars
<1>1. InFlight' = InFlight
  BY DEF SendFail, InFlight
<1>2. e \in pendingSends /\ e \notin Range(retryBuffer) \cup InFlight
  BY DEF SendFail, IInv, OnePlace
<1>3. UNCHANGED acked /\ pendingSends' = pendingSends \ {e}
  BY DEF SendFail
<1>4. CASE retryBuffer' = Append(retryBuffer, e) /\ dropped' = dropped
  <2>1. Range(retryBuffer') = Range(retryBuffer) \cup {e}
    BY <1>4, AppendNew DEF IInv, TypeOK
  <2>2. Held' = Held
    BY <1>1, <1>2, <1>3, <2>1 DEF Held
  <2> QED
    BY <1>3, <1>4, <2>2 DEF Delivery!vars
<1>5. CASE /\ retryBuffer' = retryBuffer
           /\ dropped' = dropped \cup {e}
           /\ \/ ~(Len(retryBuffer) < MAX_RETRY_BUFFER)
              \/ \E x \in Range(retryBuffer) : FingerprintOf[x] = FingerprintOf[e]
  <2>1. Held' = Held \ {e} /\ e \in Held
    BY <1>1, <1>2, <1>3, <1>5 DEF Held
  <2>2. Range(retryBuffer) \subseteq Held \ {e} /\ Held \ {e} \subseteq Events
    BY <1>2, HeldIsEvents DEF Held
  <2>3. Delivery!MayDrop(e, Held \ {e})
    <3>1. CASE \E x \in Range(retryBuffer) : FingerprintOf[x] = FingerprintOf[e]
      BY <2>2, <3>1 DEF Delivery!MayDrop
    <3>2. CASE ~(Len(retryBuffer) < MAX_RETRY_BUFFER)
      <4>1. /\ retryBuffer \in Seq(Events)
            /\ IsInjective(retryBuffer)
            /\ Len(retryBuffer) >= MAX_RETRY_BUFFER
        BY <3>2, LenProperties, NodeTransportAssumption DEF IInv, TypeOK, OnePlace
      <4> QED
        BY <2>2, <4>1, FullBufferAllowsDrop
    <3> QED
      BY <1>5, <3>1, <3>2
  <2> QED
    BY <1>3, <1>5, <2>1, <2>3 DEF Delivery!Drop
<1> QED
  BY <1>4, <1>5 DEF SendFail

\* An event that cannot be serialised is dropped.
LEMMA SendThrowDrops ==
  ASSUME IInv, NEW e \in Events, SendThrow(e)
  PROVE  Delivery!Drop({e})
<1>1. InFlight' = InFlight
  BY DEF SendThrow, InFlight
<1>2. e \in pendingSends /\ e \notin Range(retryBuffer) \cup InFlight
  BY DEF SendThrow, IInv, OnePlace
<1>3. Held' = Held \ {e} /\ e \in Held
  BY <1>1, <1>2 DEF SendThrow, Held
<1> QED
  BY <1>3 DEF SendThrow, Delivery!Drop, Delivery!MayDrop


\* An acknowledged retry delivers the event on the wire.
LEMMA BatchOkDelivers ==
  ASSUME IInv, NEW b \in batches, BatchOk(b)
  PROVE  \E e \in Events : Delivery!Deliver(e)
<1> DEFINE h == Head(b.queue)
<1>1. InFlight' = InFlight \ {h} /\ h \in InFlight /\ h \in Events
  BY BatchAdvances
<1>2. /\ acked' = acked \cup {h}
      /\ UNCHANGED <<retryBuffer, pendingSends, dropped>>
  BY DEF BatchOk
<1> HIDE DEF h
<1>3. Held' = Held \ {h} /\ h \in Held
  BY <1>1, <1>2 DEF Held, IInv, OnePlace
<1>4. Delivery!Deliver(h)
  BY <1>2, <1>3 DEF Delivery!Deliver
<1> QED
  BY <1>1, <1>4

\* What a failed batch cannot put back is dropped, and then the buffer is full.
LEMMA BatchFailMayDrop ==
  ASSUME IInv, NEW b \in batches, BatchFail(b)
  PROVE  \E S \in SUBSET Events : Delivery!Drop(S)
<1> DEFINE kept == Kept(b.queue)
           lost == Range(b.queue) \ Range(kept)
<1>1. batches' = batches \ {b}
  BY DEF BatchFail
<1>2. /\ InFlight' = InFlight \ Range(b.queue)
      /\ Range(b.queue) \subseteq InFlight
      /\ b.queue \in Seq(Events) /\ IsInjective(b.queue)
  BY <1>1, BatchEnds
<1>3. /\ kept \in Seq(Events)
      /\ Range(kept) \subseteq Range(b.queue)
      /\ IsInjective(kept)
      /\ retryBuffer \o kept \in Seq(Events)
      /\ Range(retryBuffer \o kept) = Range(retryBuffer) \cup Range(kept)
      /\ kept = b.queue \/ Len(retryBuffer \o kept) = MAX_RETRY_BUFFER
  BY <1>2, KeptFits DEF IInv
<1>4. /\ retryBuffer' = retryBuffer \o kept
      /\ dropped' = dropped \cup lost
      /\ UNCHANGED <<pendingSends, acked>>
  BY DEF BatchFail
<1> HIDE DEF kept
<1>5. Range(retryBuffer) \cap Range(b.queue) = {} /\ pendingSends \cap Range(b.queue) = {}
  BY <1>2 DEF IInv, OnePlace
<1>6. Held' = Held \ lost /\ lost \subseteq Held
  BY <1>2, <1>3, <1>4, <1>5 DEF Held
<1>7. Held \subseteq Events
  BY HeldIsEvents
<1>8. \A e \in lost : Delivery!MayDrop(e, Held \ lost)
  <2>1. CASE kept = b.queue
    BY <2>1
  <2>2. CASE Len(retryBuffer \o kept) = MAX_RETRY_BUFFER
    <3>1. IsInjective(retryBuffer \o kept)
      BY <1>3, <1>5, ConcatDisjoint DEF IInv, TypeOK, OnePlace
    <3>2. Range(retryBuffer \o kept) \subseteq Held \ lost
      BY <1>2, <1>3, <1>5 DEF Held
    <3>3. Len(retryBuffer \o kept) >= MAX_RETRY_BUFFER
      BY <2>2, NodeTransportAssumption
    <3>4. Held \ lost \in SUBSET Events
      BY <1>7
    <3> QED
      BY <1>3, <3>1, <3>2, <3>3, <3>4, FullBufferAllowsDrop
  <2> QED
    BY <1>3, <2>1, <2>2
<1>9. Delivery!Drop(lost)
  BY <1>4, <1>6, <1>8 DEF Delivery!Drop
<1> QED
  BY <1>6, <1>7, <1>9

\* flush moves events about inside the transport.
LEMMA FlushStutters ==
  ASSUME IInv, NEW f \in Flushers, FlushCall(f) \/ FlushSettled(f)
  PROVE  UNCHANGED Delivery!vars
<1>1. CASE FlushCall(f)
  BY <1>1 DEF FlushCall, Held, InFlight, Delivery!vars
<1>2. CASE FlushSettled(f)
  <2>1. StartBatch(f) /\ f \in Owners /\ \A b \in batches : b.owner # f
    BY <1>2 DEF FlushSettled, Owners, IInv, AwaitedBatch
  <2>2. Range(retryBuffer') = {} /\ InFlight' = InFlight \cup Range(retryBuffer)
    BY <2>1, StartBatchMoves
  <2>3. Held' = Held
    BY <1>2, <2>2 DEF FlushSettled, Held
  <2> QED
    BY <1>2, <2>3 DEF FlushSettled, Delivery!vars
<1> QED
  BY <1>1, <1>2

LEMMA RefinementInit == Init => Delivery!Init
<1> SUFFICES ASSUME Init
             PROVE  Delivery!Init
  OBVIOUS
<1>1. Range(<<>>) = {}
  BY DEF Range
<1>2. InFlight = {}
  BY DEF Init, InFlight
<1>3. Held = {}
  BY <1>1, <1>2 DEF Init, Held
<1> QED
  BY <1>3 DEF Init, Delivery!Init

LEMMA RefinementStep == IInv /\ [Next]_vars => [Delivery!Next]_(Delivery!vars)
<1> SUFFICES ASSUME IInv, [Next]_vars
             PROVE  Delivery!Next \/ UNCHANGED Delivery!vars
  OBVIOUS
<1>1. ASSUME NEW e \in Events, Send(e)
      PROVE  Delivery!Next
  BY <1>1, SendAccepts DEF Delivery!Next
<1>2. ASSUME NEW e \in Events, SendOk(e)
      PROVE  Delivery!Next
  BY <1>2, SendOkDelivers DEF Delivery!Next
<1>3. ASSUME NEW e \in Events, SendFail(e)
      PROVE  Delivery!Next \/ UNCHANGED Delivery!vars
  <2>1. {e} \in SUBSET Events
    OBVIOUS
  <2> QED
    BY <1>3, <2>1, SendFailMayDrop DEF Delivery!Next
<1>4. ASSUME NEW e \in Events, SendThrow(e)
      PROVE  Delivery!Next
  <2>1. {e} \in SUBSET Events
    OBVIOUS
  <2> QED
    BY <1>4, <2>1, SendThrowDrops DEF Delivery!Next
<1>5. ASSUME NEW b \in batches, BatchOk(b)
      PROVE  Delivery!Next
  BY <1>5, BatchOkDelivers DEF Delivery!Next
<1>6. ASSUME NEW b \in batches, BatchFail(b)
      PROVE  Delivery!Next
  BY <1>6, BatchFailMayDrop DEF Delivery!Next
<1>7. ASSUME NEW f \in Flushers, FlushCall(f) \/ FlushSettled(f)
      PROVE  UNCHANGED Delivery!vars
  BY <1>7, FlushStutters
<1>8. CASE UNCHANGED vars
  BY <1>8 DEF vars, Held, InFlight, Delivery!vars
<1> QED
  BY <1>1, <1>2, <1>3, <1>4, <1>5, <1>6, <1>7, <1>8 DEF Next, Settle

\* The transport implements EventDelivery: it gives an event up only when it
\* cannot be serialised, when one of its fingerprint is still held, or when it
\* is left with a full buffer (transport.ts:262-301).
THEOREM TransportImplementsDelivery == Spec => ImplementsDelivery
  BY RefinementInit, RefinementStep, Invariant, PTL
     DEF Spec, ImplementsDelivery, Delivery!Spec

-----------------------------------------------------------------------------
(* What a client of the transport relies on *)

\* The events the transport has, or had and settled.
Reached == Held \cup acked \cup dropped

LEMMA ReachedIsEvents == IInv => Reached \subseteq Events
  BY HeldIsEvents DEF Reached, IInv, TypeOK

\* send adds its event, and it alone.
LEMMA SendReaches ==
  ASSUME IInv, NEW e \in Events, Send(e)
  PROVE  IInv' /\ Reached' = Reached \cup {e}
  BY SendKeeps, SendAccepts DEF Reached, Delivery!Accept

\* Whatever the transport does by itself, it loses track of no event.
LEMMA SettleKeepsReached ==
  ASSUME IInv, Settle \/ \E f \in Flushers : FlushCall(f)
  PROVE  IInv' /\ Reached' = Reached
<1>1. IInv'
  BY InvariantStep DEF Next
<1> SUFFICES Reached' = Reached
  BY <1>1
<1>2. ASSUME NEW e, Delivery!Deliver(e)
      PROVE  Reached' = Reached
  BY <1>2 DEF Reached, Delivery!Deliver
<1>3. ASSUME NEW S, Delivery!Drop(S)
      PROVE  Reached' = Reached
  BY <1>3 DEF Reached, Delivery!Drop
<1>4. CASE UNCHANGED Delivery!vars
  BY <1>4 DEF Reached, Delivery!vars
<1>5. CASE \E e \in Events : SendOk(e)
  BY <1>5, <1>2, SendOkDelivers
<1>6. CASE \E e \in Events : SendFail(e)
  BY <1>6, <1>3, <1>4, SendFailMayDrop
<1>7. CASE \E e \in Events : SendThrow(e)
  BY <1>7, <1>3, SendThrowDrops
<1>8. CASE \E b \in batches : BatchOk(b)
  BY <1>8, <1>2, BatchOkDelivers
<1>9. CASE \E b \in batches : BatchFail(b)
  BY <1>9, <1>3, BatchFailMayDrop
<1>10. CASE \E f \in Flushers : FlushCall(f) \/ FlushSettled(f)
  BY <1>10, <1>4, FlushStutters
<1> QED
  BY <1>5, <1>6, <1>7, <1>8, <1>9, <1>10 DEF Settle

\* A transport nobody touches stays as it is.
LEMMA IdleKeepsReached ==
  ASSUME IInv, UNCHANGED vars
  PROVE  IInv' /\ Reached' = Reached
<1>1. IInv'
  BY InvariantStep
<1> QED
  BY <1>1 DEF Reached, Held, InFlight, vars

\* A new transport has no event.
LEMMA NothingReachedYet == Init => IInv /\ Reached = {}
<1> SUFFICES ASSUME Init
             PROVE  IInv /\ Reached = {}
  OBVIOUS
<1>1. IInv /\ Held = {}
  BY InvariantInit, RefinementInit DEF Delivery!Init
<1> QED
  BY <1>1 DEF Init, Reached

=============================================================================
