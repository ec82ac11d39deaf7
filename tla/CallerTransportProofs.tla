------------------------ MODULE CallerTransportProofs ------------------------
(***************************************************************************)
(* Proofs about CallerTransport: one argument for the four SDKs that send  *)
(* in the caller's own thread, for all events, fingerprints, buffer sizes  *)
(* and numbers of overlapping calls.                                       *)
(***************************************************************************)
EXTENDS CallerTransport, SequenceLemmas

-----------------------------------------------------------------------------
(* The inductive invariant *)

Resting == {"idle", "done"}
JavaSteps == {"copied", "checked", "evicted", "added"}

Types ==
  /\ sdk \in {"browser", "java", "csharp", "rust"} /\ sdk \in Sdks
  /\ retry \in Seq(Events)
  /\ seen \subseteq Fingerprints
  /\ todo \in [Callers -> Seq(Events)]
  /\ step \in [Callers -> Resting \cup JavaSteps \cup {"sending"}]
  /\ \A c \in Callers : step[c] \in Resting <=> todo[c] = <<>>
  /\ \A c \in Callers : step[c] \in JavaSteps => sdk = "java" /\ c \in Events
  /\ acked \subseteq Events
  /\ flushed \in BOOLEAN /\ overlapped \in BOOLEAN

\* Calls that have not overlapped are one at a time.
Alone ==
  ~overlapped =>
    \A c, d \in Callers : step[c] \notin Resting /\ step[d] \notin Resting => c = d

NotFlushing == ~flushed => \A f \in Flushers : step[f] = "idle"

\* The buffer's bound, and the room that Java's eviction has made.
Bounded ==
  /\ sdk # "java" \/ ~overlapped => Len(retry) <= MAX_RETRY_BUFFER
  /\ sdk = "java" /\ ~overlapped =>
       \A e \in Events : step[e] = "evicted" => Len(retry) < MAX_RETRY_BUFFER

\* An event is nowhere before the application sends it.
Given == {e \in Events : step[e] # "idle"}

OnlyGiven ==
  /\ Range(retry) \subseteq Given
  /\ acked \subseteq Given
  /\ \A c \in Callers : Range(todo[c]) \subseteq Given

\* A fingerprint believed to be in the buffer is there.
SeenIsHeld ==
  sdk = "browser" \/ (sdk = "csharp" /\ ~flushed) => seen \subseteq FingerprintsOf(retry)

\* One event of a fingerprint.
Separate(E) == \A x, y \in E : FingerprintOf[x] = FingerprintOf[y] => x = y

Distinct ==
  /\ IsInjective(retry) /\ Separate(Range(retry))
  /\ \A c \in Callers : IsInjective(todo[c])

\* An event is in one hand, or in the buffer, or acknowledged.
InOneHand ==
  /\ Range(retry) \cap acked = {}
  /\ \A c \in Callers : InHand(c) \cap acked = {}
  /\ \A c, d \in Callers : c # d => InHand(c) \cap InHand(d) = {}
  /\ \A c \in Callers : step[c] # "added" => InHand(c) \cap Range(retry) = {}
  /\ \A c \in Callers : step[c] = "added" => Range(Tail(todo[c])) \cap Range(retry) = {}

\* What a flush or Java's copy works from is still in the buffer.
Copied ==
  /\ \A e \in Events : step[e] = "copied" => Range(todo[e]) \subseteq Range(retry) \cup {e}
  /\ sdk # "rust" => \A f \in Flushers : Range(todo[f]) \subseteq Range(retry)

\* An event in the buffer has its fingerprint recorded, in Java once its put is done.
HeldIsSeen ==
  /\ sdk \in {"browser", "csharp"} => FingerprintsOf(retry) \subseteq seen
  /\ sdk = "java" =>
       \A x \in Range(retry) :
         \/ FingerprintOf[x] \in seen
         \/ \E e \in Events : step[e] = "added" /\ x = Head(todo[e])
  /\ \A e \in Events :
       step[e] \in {"checked", "evicted"} => FingerprintOf[Head(todo[e])] \notin seen

Promised == Distinct /\ InOneHand /\ Copied /\ HeldIsSeen

IInv ==
  /\ Types
  /\ Alone
  /\ NotFlushing
  /\ Bounded
  /\ OnlyGiven
  /\ SeenIsHeld
  /\ Sound => Promised

-----------------------------------------------------------------------------
(* Batches and the buffer *)

LEMMA EmptyBatch ==
  <<>> \in Seq(Events) /\ Range(<<>>) = {} /\ IsInjective(<<>>) /\ Len(<<>>) = 0
<1>1. <<>> \in Seq(Events) /\ DOMAIN <<>> = {} /\ Len(<<>>) = 0
  BY EmptySeq, LenProperties
<1> QED
  BY <1>1 DEF Range, IsInjective

LEMMA HeadAndTail ==
  ASSUME NEW s \in Seq(Events), s # <<>>
  PROVE  /\ Head(s) \in Events /\ Head(s) \in Range(s)
         /\ Tail(s) \in Seq(Events) /\ Len(Tail(s)) = Len(s) - 1
         /\ Range(s) = Range(Tail(s)) \cup {Head(s)}
         /\ Len(s) = 1 <=> Tail(s) = <<>>
         /\ IsInjective(s) => IsInjective(Tail(s)) /\ Head(s) \notin Range(Tail(s))
         /\ Len(s) \in Nat /\ Len(s) > 0
<1>1. /\ Head(s) \in Events /\ Tail(s) \in Seq(Events)
      /\ Len(Tail(s)) = Len(s) - 1
      /\ \A i \in 1..Len(Tail(s)) : Tail(s)[i] = s[i + 1]
  BY HeadTailProperties
<1>2. /\ Len(s) \in Nat \ {0}
      /\ DOMAIN s = 1..Len(s)
      /\ DOMAIN Tail(s) = 1..(Len(s) - 1)
  BY <1>1, LenProperties, EmptySeq
<1>3. Head(s) = s[1] /\ 1 \in DOMAIN s
  BY <1>2
<1>4. Range(s) \subseteq Range(Tail(s)) \cup {Head(s)}
  <2> SUFFICES ASSUME NEW i \in DOMAIN s, i # 1
               PROVE  s[i] \in Range(Tail(s))
    BY <1>3 DEF Range
  <2>1. i - 1 \in DOMAIN Tail(s) /\ Tail(s)[i - 1] = s[i]
    BY <1>1, <1>2
  <2> QED
    BY <2>1 DEF Range
<1>5. Range(Tail(s)) \subseteq Range(s)
  <2> SUFFICES ASSUME NEW i \in DOMAIN Tail(s)
               PROVE  Tail(s)[i] \in Range(s)
    BY DEF Range
  <2>1. i + 1 \in DOMAIN s /\ Tail(s)[i] = s[i + 1]
    BY <1>1, <1>2
  <2> QED
    BY <2>1 DEF Range
<1>6. Head(s) \in Range(s)
  BY <1>3 DEF Range
<1>7. Len(s) = 1 <=> Tail(s) = <<>>
  <2>1. Tail(s) = <<>> <=> Len(Tail(s)) = 0
    BY <1>1, EmptySeq
  <2> QED
    BY <1>1, <1>2, <2>1
<1>8. IsInjective(s) => IsInjective(Tail(s)) /\ Head(s) \notin Range(Tail(s))
  BY TailRemovesHead
<1> QED
  BY <1>1, <1>2, <1>4, <1>5, <1>6, <1>7, <1>8

LEMMA NextInBatch ==
  ASSUME NEW s \in Seq(Events), NEW e \in Events
  PROVE  /\ Append(s, e) \in Seq(Events)
         /\ Range(Append(s, e)) = Range(s) \cup {e}
         /\ IsInjective(s) /\ e \notin Range(s) => IsInjective(Append(s, e))
         /\ Append(s, e) # <<>>
         /\ Len(Append(s, e)) = Len(s) + 1
<1>1. Append(s, e) # <<>> /\ Len(Append(s, e)) = Len(s) + 1
  BY AppendProperties
<1> QED
  BY <1>1, AppendNew

LEMMA BatchRange ==
  ASSUME NEW s \in Seq(Events)
  PROVE  /\ Range(s) \subseteq Events /\ IsFiniteSet(Range(s))
         /\ s = <<>> <=> Range(s) = {}
         /\ FingerprintsOf(s) \subseteq Fingerprints
<1>1. Len(s) \in Nat /\ DOMAIN s = 1..Len(s) /\ \A i \in 1..Len(s) : s[i] \in Events
  BY LenProperties, ElementOfSeq
<1>2. Range(s) \subseteq Events
  BY <1>1 DEF Range
<1>3. IsFiniteSet(Range(s))
  BY <1>2, CallerTransportAssumption, FS_Subset
<1>4. s = <<>> <=> Range(s) = {}
  <2>1. s # <<>> => Range(s) # {}
    BY HeadAndTail
  <2> QED
    BY <2>1, EmptyBatch
<1> QED
  BY <1>2, <1>3, <1>4 DEF FingerprintsOf, Fingerprints

\* Draining a map yields each of its events once, in some order.
LEMMA DrainedBatch ==
  ASSUME NEW S \in SUBSET Events, NEW q \in SetToSeqs(S)
  PROVE  q \in Seq(Events) /\ Range(q) = S /\ IsInjective(q)
<1>1. IsFiniteSet(S) /\ Cardinality(S) \in Nat
  BY CallerTransportAssumption, FS_Subset, FS_CardinalityType
<1> DEFINE n == Cardinality(S)
<1>2. q \in [1..n -> S] /\ \A i, j \in 1..n : i # j => q[i] # q[j]
  BY DEF SetToSeqs
<1>3. q \in Injection(1..n, S)
  BY <1>2 DEF Injection, IsInjective
<1>4. IsFiniteSet(1..n) /\ Cardinality(1..n) = n
  BY <1>1, FS_Interval
<1>5. q \in Surjection(1..n, S)
  BY <1>1, <1>3, <1>4, FS_Injection
<1>6. Range(q) = S
  BY <1>2, <1>5 DEF Surjection, Range
<1>7. q \in Seq(Events)
  BY <1>1, <1>2
<1> QED
  BY <1>2, <1>6, <1>7 DEF IsInjective

\* enqueue of the browser and of C#: what it adds, what it drops, and why.
LEMMA EnqueueEffect ==
  ASSUME Types, NEW e \in Events, Enqueue(e)
  PROVE  /\ retry' \in Seq(Events) /\ seen' \subseteq Fingerprints
         /\ Range(retry') \subseteq Range(retry) \cup {e}
         /\ Len(retry) <= MAX_RETRY_BUFFER => Len(retry') <= MAX_RETRY_BUFFER
         /\ seen \subseteq FingerprintsOf(retry) =>
              /\ seen' \subseteq FingerprintsOf(retry')
              /\ \A x \in Range(retry) \cup {e} :
                   \/ x \in Range(retry')
                   \/ FingerprintOf[x] \in FingerprintsOf(retry')
                   \/ Len(retry) >= MAX_RETRY_BUFFER
         /\ /\ FingerprintsOf(retry) \subseteq seen
            /\ IsInjective(retry) /\ Separate(Range(retry))
            => /\ FingerprintsOf(retry') \subseteq seen'
               /\ IsInjective(retry') /\ Separate(Range(retry'))
<1> DEFINE fp == FingerprintOf[e]
<1>1. /\ retry \in Seq(Events) /\ seen \subseteq Fingerprints /\ fp \in Fingerprints
      /\ Len(retry) \in Nat /\ MAX_RETRY_BUFFER \in Nat /\ MAX_RETRY_BUFFER > 0
  BY CallerTransportAssumption, LenProperties DEF Types, Fingerprints
<1>2. CASE fp \in seen
  <2>1. retry' = retry /\ seen' = seen
    BY <1>2 DEF Enqueue
  <2> QED
    BY <1>1, <1>2, <2>1
<1>3. CASE fp \notin seen /\ Len(retry) < MAX_RETRY_BUFFER
  <2>1. retry' = Append(retry, e) /\ seen' = seen \cup {fp}
    BY <1>1, <1>3 DEF Enqueue
  <2>2. /\ retry' \in Seq(Events) /\ Range(retry') = Range(retry) \cup {e}
        /\ IsInjective(retry) /\ e \notin Range(retry) => IsInjective(retry')
        /\ Len(retry') = Len(retry) + 1
    BY <1>1, <2>1, NextInBatch
  <2>3. FingerprintsOf(retry') = FingerprintsOf(retry) \cup {fp}
    BY <2>2 DEF FingerprintsOf
  <2>4. ASSUME FingerprintsOf(retry) \subseteq seen, Separate(Range(retry))
        PROVE  e \notin Range(retry) /\ Separate(Range(retry'))
    BY <1>3, <2>2, <2>4 DEF FingerprintsOf, Separate
  <2> QED
    BY <1>1, <1>3, <2>1, <2>2, <2>3, <2>4
<1>4. CASE fp \notin seen /\ Len(retry) >= MAX_RETRY_BUFFER
  <2> DEFINE h == Head(retry)
             t == Tail(retry)
  <2>1. retry # <<>>
    BY <1>1, <1>4, EmptyBatch
  <2>2. /\ retry' = Append(t, e) /\ seen' = (seen \ {FingerprintOf[h]}) \cup {fp}
    BY <1>4 DEF Enqueue
  <2>3. /\ h \in Events /\ t \in Seq(Events) /\ Len(t) = Len(retry) - 1
        /\ Range(retry) = Range(t) \cup {h}
        /\ IsInjective(retry) => IsInjective(t) /\ h \notin Range(t)
    BY <1>1, <2>1, HeadAndTail
  <2>4. /\ retry' \in Seq(Events) /\ Range(retry') = Range(t) \cup {e}
        /\ IsInjective(t) /\ e \notin Range(t) => IsInjective(retry')
        /\ Len(retry') = Len(t) + 1
    BY <2>2, <2>3, NextInBatch
  <2> HIDE DEF h, t
  <2>5. /\ FingerprintsOf(retry') = FingerprintsOf(t) \cup {fp}
        /\ FingerprintsOf(retry) = FingerprintsOf(t) \cup {FingerprintOf[h]}
    BY <2>3, <2>4 DEF FingerprintsOf
  <2>6. ASSUME FingerprintsOf(retry) \subseteq seen, IsInjective(retry), Separate(Range(retry))
        PROVE  /\ FingerprintsOf(retry') \subseteq seen'
               /\ IsInjective(retry') /\ Separate(Range(retry'))
    <3>1. e \notin Range(retry) /\ FingerprintOf[h] \notin FingerprintsOf(t)
      BY <1>4, <2>3, <2>6 DEF FingerprintsOf, Separate
    <3>2. Separate(Range(retry'))
      BY <1>4, <2>3, <2>4, <2>6 DEF FingerprintsOf, Separate
    <3> QED
      BY <2>2, <2>3, <2>4, <2>5, <2>6, <3>1, <3>2
  <2> QED
    BY <1>1, <1>4, <2>2, <2>3, <2>4, <2>5, <2>6
<1> QED
  BY <1>1, <1>2, <1>3, <1>4

\* push of Rust, likewise.
LEMMA PushEffect ==
  ASSUME Types, NEW e \in Events, Push(e)
  PROVE  /\ retry' \in Seq(Events)
         /\ Range(retry') \subseteq Range(retry) \cup {e}
         /\ Len(retry) <= MAX_RETRY_BUFFER => Len(retry') <= MAX_RETRY_BUFFER
         /\ \A x \in Range(retry) \cup {e} :
              \/ x \in Range(retry')
              \/ FingerprintOf[x] \in FingerprintsOf(retry')
              \/ Len(retry) >= MAX_RETRY_BUFFER
         /\ IsInjective(retry) /\ Separate(Range(retry))
            => IsInjective(retry') /\ Separate(Range(retry'))
<1> DEFINE fp == FingerprintOf[e]
<1>1. /\ retry \in Seq(Events)
      /\ Len(retry) \in Nat /\ MAX_RETRY_BUFFER \in Nat /\ MAX_RETRY_BUFFER > 0
      /\ DOMAIN retry = 1..Len(retry) /\ \A i \in 1..Len(retry) : retry[i] \in Events
  BY CallerTransportAssumption, LenProperties, ElementOfSeq DEF Types
<1>2. CASE fp \in FingerprintsOf(retry)
  <2>1. retry' = [i \in DOMAIN retry |-> IF FingerprintOf[retry[i]] = fp THEN e ELSE retry[i]]
    BY <1>2 DEF Push
  <2>2. retry' \in Seq(Events) /\ DOMAIN retry' = DOMAIN retry /\ Len(retry') = Len(retry)
    <3>1. retry' \in [1..Len(retry) -> Events]
      BY <1>1, <2>1
    <3> QED
      BY <1>1, <3>1
  <2>3. PICK k \in DOMAIN retry : FingerprintOf[retry[k]] = fp
    BY <1>2 DEF FingerprintsOf, Range
  <2>4. retry'[k] = e
    BY <2>1, <2>3
  <2>5. e \in Range(retry')
    BY <2>2, <2>4 DEF Range
  <2>6. ASSUME NEW x \in Range(retry)
        PROVE  x \in Range(retry') \/ FingerprintOf[x] = fp
    BY <2>1 DEF Range
  <2>7. ASSUME NEW x \in Range(retry')
        PROVE  x = e \/ (x \in Range(retry) /\ FingerprintOf[x] # fp)
    BY <2>1 DEF Range
  <2>8. fp \in FingerprintsOf(retry')
    BY <2>5 DEF FingerprintsOf
  <2>9. ASSUME IsInjective(retry), Separate(Range(retry))
        PROVE  IsInjective(retry') /\ Separate(Range(retry'))
    <3>1. Separate(Range(retry'))
      BY <2>7, <2>9 DEF Separate
    <3>2. ASSUME NEW i \in DOMAIN retry, NEW j \in DOMAIN retry, retry'[i] = retry'[j]
          PROVE  i = j
      <4>1. FingerprintOf[retry[i]] = FingerprintOf[retry[j]]
        BY <2>1, <3>2
      <4>2. retry[i] = retry[j]
        BY <2>9, <4>1 DEF Separate, Range
      <4> QED
        BY <2>9, <4>2 DEF IsInjective
    <3> QED
      BY <2>2, <3>1, <3>2 DEF IsInjective
  <2> QED
    BY <2>2, <2>5, <2>6, <2>7, <2>8, <2>9
<1>3. CASE fp \notin FingerprintsOf(retry) /\ Len(retry) >= MAX_RETRY_BUFFER
  <2>1. retry' = <<e>>
    BY <1>3 DEF Push
  <2>2. retry' \in Seq(Events) /\ Len(retry') = 1 /\ Range(retry') = {e} /\ IsInjective(retry')
    BY <2>1 DEF Range, IsInjective
  <2> QED
    BY <1>1, <1>3, <2>2 DEF Separate
<1>4. CASE fp \notin FingerprintsOf(retry) /\ ~(Len(retry) >= MAX_RETRY_BUFFER)
  <2>1. retry' = Append(retry, e)
    BY <1>4 DEF Push
  <2>2. /\ retry' \in Seq(Events) /\ Range(retry') = Range(retry) \cup {e}
        /\ IsInjective(retry) /\ e \notin Range(retry) => IsInjective(retry')
        /\ Len(retry') = Len(retry) + 1
    BY <1>1, <2>1, NextInBatch
  <2>3. e \notin Range(retry) /\ (Separate(Range(retry)) => Separate(Range(retry')))
    BY <1>4, <2>2 DEF FingerprintsOf, Separate
  <2> QED
    BY <1>1, <1>4, <2>2, <2>3
<1> QED
  BY <1>2, <1>3, <1>4

-----------------------------------------------------------------------------
(* What a step does to the calls: one of them moves, and the others stay *)

Moves(c) ==
  /\ sdk' = sdk
  /\ todo' \in [Callers -> Seq(Events)]
  /\ step' \in [Callers -> Resting \cup JavaSteps \cup {"sending"}]
  /\ step'[c] \in Resting <=> todo'[c] = <<>>
  /\ step'[c] \in JavaSteps => sdk = "java" /\ c \in Events
  /\ step'[c] # "idle"
  /\ \A d \in Callers : d # c => todo'[d] = todo[d] /\ step'[d] = step[d]
  /\ flushed' \in BOOLEAN /\ (flushed => flushed')
  /\ overlapped' \in BOOLEAN /\ (overlapped => overlapped')
  /\ step'[c] \notin Resting /\ ~overlapped' =>
       \A d \in Callers : d # c => step[d] \in Resting

\* A call that starts.
LEMMA BeginMoves ==
  ASSUME Types, NEW c \in Callers, NEW q \in Seq(Events), NEW at \in {"copied", "sending"},
         at = "copied" => sdk = "java" /\ c \in Events,
         Begin(c, q, at), sdk' = sdk, flushed' \in BOOLEAN, flushed => flushed'
  PROVE  Moves(c) /\ todo'[c] = q /\ step'[c] = (IF q = <<>> THEN "done" ELSE at)
<1>1. /\ todo' = [todo EXCEPT ![c] = q]
      /\ step' = [step EXCEPT ![c] = IF q = <<>> THEN "done" ELSE at]
      /\ overlapped' = (overlapped \/ (Active \ {c} # {} /\ q # <<>>))
  BY DEF Begin
<1>2. /\ todo \in [Callers -> Seq(Events)]
      /\ step \in [Callers -> Resting \cup JavaSteps \cup {"sending"}]
      /\ overlapped \in BOOLEAN
  BY DEF Types
<1>3. /\ todo' \in [Callers -> Seq(Events)] /\ todo'[c] = q
      /\ \A d \in Callers : d # c => todo'[d] = todo[d]
  BY <1>1, <1>2
<1>4. /\ step' \in [Callers -> Resting \cup JavaSteps \cup {"sending"}]
      /\ step'[c] = (IF q = <<>> THEN "done" ELSE at)
      /\ \A d \in Callers : d # c => step'[d] = step[d]
  <2>1. (IF q = <<>> THEN "done" ELSE at) \in Resting \cup JavaSteps \cup {"sending"}
    BY DEF Resting, JavaSteps
  <2> QED
    BY <1>1, <1>2, <2>1
<1>5. /\ step'[c] \in Resting <=> todo'[c] = <<>>
      /\ step'[c] \in JavaSteps => sdk = "java" /\ c \in Events
      /\ step'[c] # "idle"
  BY <1>3, <1>4 DEF Resting, JavaSteps
<1>6. overlapped' \in BOOLEAN /\ (overlapped => overlapped')
  BY <1>1, <1>2
<1>7. ASSUME step'[c] \notin Resting, ~overlapped', NEW d \in Callers, d # c
      PROVE  step[d] \in Resting
  <2>1. q # <<>>
    BY <1>3, <1>5, <1>7
  <2>2. d \notin Active
    BY <1>1, <1>7, <2>1
  <2> QED
    BY <2>2 DEF Active, Resting
<1> QED
  BY <1>3, <1>4, <1>5, <1>6, <1>7 DEF Moves

\* A call that goes on to its next event.
LEMMA AdvanceMoves ==
  ASSUME Types, Alone, NEW c \in Callers, step[c] \notin Resting,
         Advance(c), UNCHANGED <<sdk, flushed, overlapped>>
  PROVE  /\ Moves(c) /\ todo[c] \in Seq(Events) /\ todo[c] # <<>> /\ todo'[c] = Tail(todo[c])
         /\ step'[c] \in {"done", "sending"}
<1>1. /\ todo \in [Callers -> Seq(Events)]
      /\ step \in [Callers -> Resting \cup JavaSteps \cup {"sending"}]
      /\ flushed \in BOOLEAN /\ overlapped \in BOOLEAN
      /\ todo[c] # <<>>
  BY DEF Types
<1>2. /\ todo' = [todo EXCEPT ![c] = Tail(@)]
      /\ step' = [step EXCEPT ![c] = IF Len(todo[c]) = 1 THEN "done" ELSE "sending"]
  BY DEF Advance
<1>3. /\ todo[c] \in Seq(Events) /\ Tail(todo[c]) \in Seq(Events)
      /\ Len(todo[c]) = 1 <=> Tail(todo[c]) = <<>>
  BY <1>1, HeadAndTail
<1>4. /\ todo' \in [Callers -> Seq(Events)] /\ todo'[c] = Tail(todo[c])
      /\ \A d \in Callers : d # c => todo'[d] = todo[d]
  BY <1>1, <1>2, <1>3
<1>5. /\ step' \in [Callers -> Resting \cup JavaSteps \cup {"sending"}]
      /\ step'[c] = (IF todo'[c] = <<>> THEN "done" ELSE "sending")
      /\ \A d \in Callers : d # c => step'[d] = step[d]
  <2>1. (IF Len(todo[c]) = 1 THEN "done" ELSE "sending") \in Resting \cup JavaSteps \cup {"sending"}
    BY DEF Resting
  <2> QED
    BY <1>1, <1>2, <1>3, <1>4, <2>1
<1>6. /\ step'[c] \in Resting <=> todo'[c] = <<>>
      /\ step'[c] \in JavaSteps => sdk = "java" /\ c \in Events
      /\ step'[c] # "idle" /\ step'[c] \in {"done", "sending"}
  BY <1>5 DEF Resting, JavaSteps
<1>7. ~overlapped => \A d \in Callers : d # c => step[d] \in Resting
  BY DEF Alone
<1> QED
  BY <1>1, <1>3, <1>4, <1>5, <1>6, <1>7 DEF Moves

\* A call that stays with its event: Java's clear and the steps of its enqueue.
LEMMA StayMoves ==
  ASSUME Types, Alone, NEW c \in Events, step[c] \notin Resting, sdk = "java",
         NEW s \in JavaSteps \cup {"sending"}, StayAt(c, s),
         UNCHANGED <<sdk, flushed, overlapped>>
  PROVE  /\ Moves(c) /\ todo[c] \in Seq(Events) /\ todo[c] # <<>> /\ todo' = todo
         /\ step'[c] = s
<1>1. /\ todo \in [Callers -> Seq(Events)]
      /\ step \in [Callers -> Resting \cup JavaSteps \cup {"sending"}]
      /\ flushed \in BOOLEAN /\ overlapped \in BOOLEAN
      /\ c \in Callers /\ todo[c] # <<>>
  BY DEF Types, Callers
<1>2. todo' = todo /\ step' = [step EXCEPT ![c] = s]
  BY DEF StayAt
<1>3. /\ step' \in [Callers -> Resting \cup JavaSteps \cup {"sending"}]
      /\ step'[c] = s
      /\ \A d \in Callers : d # c => step'[d] = step[d]
  BY <1>1, <1>2
<1>4. s \notin Resting /\ s # "idle"
  BY DEF Resting, JavaSteps
<1>5. ~overlapped => \A d \in Callers : d # c => step[d] \in Resting
  BY <1>1 DEF Alone
<1> QED
  BY <1>1, <1>2, <1>3, <1>4, <1>5 DEF Moves

\* The parts of the invariant that only need the bookkeeping of the calls.
LEMMA CallsKept ==
  ASSUME Types, Alone, NotFlushing, OnlyGiven,
         NEW c \in Callers, Moves(c), c \in Flushers => flushed',
         retry' \in Seq(Events), seen' \subseteq Fingerprints, acked' \subseteq Events,
         Range(retry') \subseteq Given', acked' \subseteq Given',
         Range(todo'[c]) \subseteq Given'
  PROVE  /\ Types' /\ Alone' /\ NotFlushing' /\ OnlyGiven'
         /\ Given' = Given \cup ({c} \cap Events)
<1>1. Given' = Given \cup ({c} \cap Events)
  BY DEF Given, Moves, Callers
<1>2. Types'
  <2>1. sdk' \in {"browser", "java", "csharp", "rust"} /\ sdk' \in Sdks
    BY DEF Types, Moves
  <2>2. \A d \in Callers : step'[d] \in Resting <=> todo'[d] = <<>>
    BY DEF Types, Moves
  <2>3. \A d \in Callers : step'[d] \in JavaSteps => sdk' = "java" /\ d \in Events
    BY DEF Types, Moves
  <2> QED
    BY <2>1, <2>2, <2>3 DEF Types, Moves
<1>3. Alone'
  BY DEF Alone, Moves
<1>4. NotFlushing'
  BY DEF NotFlushing, Moves, Callers
<1>5. OnlyGiven'
  BY <1>1 DEF OnlyGiven, Moves
<1> QED
  BY <1>1, <1>2, <1>3, <1>4, <1>5

-----------------------------------------------------------------------------
(* Where the promises hold *)

LEMMA SoundCases ==
  ASSUME Types
  PROVE  /\ sdk = "browser" => (Sound <=> ~(flushed /\ overlapped))
         /\ sdk = "csharp" => (Sound <=> ~flushed)
         /\ sdk = "java" => (Sound <=> ~overlapped)
         /\ sdk = "rust" => Sound
<1>1. CASE sdk = "browser"
  <2>1. Sound <=> ~(flushed /\ overlapped)
    BY <1>1 DEF Sound
  <2> QED
    BY <1>1, <2>1
<1>2. CASE sdk = "csharp"
  <2>1. Sound <=> ~flushed
    BY <1>2 DEF Sound
  <2> QED
    BY <1>2, <2>1
<1>3. CASE sdk = "java"
  <2>1. Sound <=> ~overlapped
    BY <1>3 DEF Sound
  <2> QED
    BY <1>3, <2>1
<1>4. CASE sdk = "rust"
  <2>1. Sound
    BY <1>4 DEF Sound
  <2> QED
    BY <1>4, <2>1
<1> QED
  BY <1>1, <1>2, <1>3, <1>4 DEF Types

LEMMA SoundNextCases ==
  ASSUME Types, sdk' = sdk
  PROVE  /\ sdk = "browser" => (Sound' <=> ~(flushed' /\ overlapped'))
         /\ sdk = "csharp" => (Sound' <=> ~flushed')
         /\ sdk = "java" => (Sound' <=> ~overlapped')
         /\ sdk = "rust" => Sound'
<1>1. CASE sdk = "browser"
  <2>1. Sound' <=> ~(flushed' /\ overlapped')
    BY <1>1 DEF Sound
  <2> QED
    BY <1>1, <2>1
<1>2. CASE sdk = "csharp"
  <2>1. Sound' <=> ~flushed'
    BY <1>2 DEF Sound
  <2> QED
    BY <1>2, <2>1
<1>3. CASE sdk = "java"
  <2>1. Sound' <=> ~overlapped'
    BY <1>3 DEF Sound
  <2> QED
    BY <1>3, <2>1
<1>4. CASE sdk = "rust"
  <2>1. Sound'
    BY <1>4 DEF Sound
  <2> QED
    BY <1>4, <2>1
<1> QED
  BY <1>1, <1>2, <1>3, <1>4 DEF Types

\* What was promised before the step, for a history only grows; and the calls
\* that stay while an event's call moves have nothing to do with a snapshot.
LEMMA SoundStep ==
  ASSUME Types, Alone, NotFlushing, NEW c \in Callers, Moves(c), Sound'
  PROVE  /\ Sound
         /\ sdk = "csharp" => ~flushed'
         /\ sdk = "java" => ~overlapped'
         /\ sdk = "browser" => ~(flushed' /\ overlapped')
         /\ step'[c] \notin Resting /\ sdk # "rust" =>
              \A f \in Flushers : f # c => todo[f] = <<>>
         /\ step[c] \notin Resting /\ sdk # "rust" =>
              \A f \in Flushers : f # c => todo[f] = <<>>
         /\ step'[c] \notin Resting \/ step[c] \notin Resting =>
              \A d \in Callers : d # c => step[d] # "added"
<1>1. /\ Sound
      /\ sdk = "csharp" => ~flushed'
      /\ sdk = "java" => ~overlapped'
      /\ sdk = "browser" => ~(flushed' /\ overlapped')
  BY SoundCases, SoundNextCases DEF Types, Moves
<1>2. Flushers \subseteq Callers
  BY DEF Callers
<1>3. ASSUME NEW d \in Callers, d # c, step'[c] \notin Resting \/ step[c] \notin Resting, ~overlapped'
      PROVE  step[d] \in Resting
  BY <1>3 DEF Alone, Moves
<1>4. ASSUME NEW f \in Flushers, f # c, ~flushed'
      PROVE  step[f] \in Resting
  BY <1>2, <1>4 DEF NotFlushing, Moves, Resting
<1>5. \A d \in Callers : step[d] \in Resting => todo[d] = <<>>
  BY DEF Types
<1>6. /\ step'[c] \notin Resting /\ sdk # "rust" =>
           \A f \in Flushers : f # c => todo[f] = <<>>
      /\ step[c] \notin Resting /\ sdk # "rust" =>
           \A f \in Flushers : f # c => todo[f] = <<>>
  BY <1>1, <1>2, <1>3, <1>4, <1>5 DEF Types
<1>7. ASSUME NEW d \in Callers, d # c, step'[c] \notin Resting \/ step[c] \notin Resting
      PROVE  step[d] # "added"
  BY <1>1, <1>3, <1>7 DEF Types, Resting, JavaSteps
<1> QED
  BY <1>1, <1>6, <1>7

LEMMA Hands ==
  ASSUME Types, OnlyGiven, NEW c \in Callers
  PROVE  /\ InHand(c) \subseteq Given
         /\ c \in Flushers => c \notin Events
         /\ c \in Flushers /\ sdk = "rust" => InHand(c) = Range(todo[c])
         /\ c \in Flushers /\ sdk # "rust" => InHand(c) = {}
         /\ c \in Events /\ step[c] = "copied" => InHand(c) = {c}
         /\ c \in Events /\ step[c] # "copied" => InHand(c) = Range(todo[c])
<1>1. Flushers \cap Events = {}
  BY CallerTransportAssumption
<1>2. c \in Flushers => step[c] # "copied"
  BY <1>1 DEF Types, JavaSteps
<1>3. Range(todo[c]) \subseteq Given
  BY DEF OnlyGiven
<1>4. c \in Events /\ step[c] = "copied" => c \in Given
  BY DEF Given
<1> QED
  BY <1>1, <1>2, <1>3, <1>4 DEF InHand, Callers

\* The event a call brings with it.
NewIn(c) == {c} \ Given

\* A step that only passes on the events of the call, of the buffer and of the
\* endpoint, and the new event, leaves every event in one hand.
LEMMA EventsPassOn ==
  ASSUME Types, OnlyGiven, InOneHand, NEW c \in Callers, Moves(c),
         \A d \in Callers : d # c => step[d] # "added",
         InHand(c)' \subseteq InHand(c) \cup Range(retry) \cup acked \cup NewIn(c),
         Range(retry') \subseteq InHand(c) \cup Range(retry) \cup acked \cup NewIn(c),
         acked' \subseteq InHand(c) \cup Range(retry) \cup acked \cup NewIn(c),
         Range(retry') \cap acked' = {},
         InHand(c)' \cap acked' = {},
         step'[c] # "added" => InHand(c)' \cap Range(retry') = {},
         step'[c] = "added" => Range(Tail(todo'[c])) \cap Range(retry') = {}
  PROVE  InOneHand'
<1> DEFINE P == InHand(c) \cup Range(retry) \cup acked \cup NewIn(c)
<1>1. ASSUME NEW d \in Callers, d # c
      PROVE  /\ InHand(d)' = InHand(d) /\ step'[d] # "added"
             /\ InHand(d) \cap P = {}
  <2>1. InHand(d)' = InHand(d) /\ step'[d] # "added"
    BY <1>1 DEF InHand, Moves
  <2>2. InHand(d) \cap NewIn(c) = {}
    BY Hands DEF NewIn
  <2>3. InHand(d) \cap (InHand(c) \cup Range(retry) \cup acked) = {}
    BY <1>1 DEF InOneHand
  <2> QED
    BY <2>1, <2>2, <2>3
<1> DEFINE H(d) == InHand(d)'
<1>2. \A d \in Callers : d # c => H(d) \cap P = {}
  BY <1>1
<1>3. H(c) \subseteq P /\ Range(retry') \subseteq P /\ acked' \subseteq P
  OBVIOUS
<1> HIDE DEF P, H
<1>4. \A d \in Callers : H(d) \cap acked' = {}
  <2>1. H(c) \cap acked' = {}
    BY DEF H
  <2> QED
    BY <1>2, <1>3, <2>1
<1>5. \A d, e \in Callers : d # e => H(d) \cap H(e) = {}
  <2> SUFFICES ASSUME NEW d \in Callers, NEW e \in Callers, d # e
               PROVE  H(d) \cap H(e) = {}
    OBVIOUS
  <2>1. CASE d = c
    BY <1>2, <1>3, <2>1
  <2>2. CASE e = c
    BY <1>2, <1>3, <2>2
  <2>3. CASE d # c /\ e # c
    <3>1. H(d) = InHand(d) /\ H(e) = InHand(e)
      BY <1>1, <2>3 DEF H
    <3> QED
      BY <3>1 DEF InOneHand
  <2> QED
    BY <2>1, <2>2, <2>3
<1>6. \A d \in Callers : step'[d] # "added" => H(d) \cap Range(retry') = {}
  <2>1. step'[c] # "added" => H(c) \cap Range(retry') = {}
    BY DEF H
  <2> QED
    BY <1>2, <1>3, <2>1
<1>7. \A d \in Callers : step'[d] = "added" => Range(Tail(todo'[d])) \cap Range(retry') = {}
  BY <1>1
<1>8. /\ Range(retry') \cap acked' = {}
      /\ \A d \in Callers : InHand(d)' \cap acked' = {}
      /\ \A d, e \in Callers : d # e => InHand(d)' \cap InHand(e)' = {}
      /\ \A d \in Callers : step'[d] # "added" => InHand(d)' \cap Range(retry') = {}
      /\ \A d \in Callers : step'[d] = "added" => Range(Tail(todo'[d])) \cap Range(retry') = {}
  BY <1>4, <1>5, <1>6, <1>7 DEF H
<1> QED
  BY <1>8 DEF InOneHand, Callers

LEMMA GivenGrows ==
  ASSUME Types, NEW c \in Callers, Moves(c)
  PROVE  /\ Given \subseteq Given'
         /\ c \in Events => c \in Given'
         /\ InHand(c)' = (IF c \in Flushers /\ sdk # "rust" THEN {}
                          ELSE IF step'[c] = "copied" THEN {c} ELSE Range(todo'[c]))
<1>1. Given \subseteq Given' /\ (c \in Events => c \in Given')
  BY DEF Given, Moves, Callers
<1> QED
  BY <1>1 DEF InHand, Moves

\* What the promises ask of the call that moves; the others are as they were.
LEMMA PromisesKept ==
  ASSUME Types, Alone, NotFlushing, OnlyGiven, Promised,
         NEW c \in Callers, Moves(c), Sound',
         step'[c] \notin Resting \/ step[c] \notin Resting,
         IsInjective(retry'), Separate(Range(retry')), IsInjective(todo'[c]),
         InHand(c)' \subseteq InHand(c) \cup Range(retry) \cup acked \cup NewIn(c),
         Range(retry') \subseteq InHand(c) \cup Range(retry) \cup acked \cup NewIn(c),
         acked' \subseteq InHand(c) \cup Range(retry) \cup acked \cup NewIn(c),
         Range(retry') \cap acked' = {},
         InHand(c)' \cap acked' = {},
         step'[c] # "added" => InHand(c)' \cap Range(retry') = {},
         step'[c] = "added" => Range(Tail(todo'[c])) \cap Range(retry') = {},
         step'[c] = "copied" => Range(todo'[c]) \subseteq Range(retry') \cup {c},
         c \in Flushers /\ sdk # "rust" => Range(todo'[c]) \subseteq Range(retry'),
         sdk \in {"browser", "csharp"} => FingerprintsOf(retry') \subseteq seen',
         sdk = "java" =>
           \A x \in Range(retry') :
             FingerprintOf[x] \in seen' \/ (step'[c] = "added" /\ x = Head(todo'[c])),
         step'[c] \in {"checked", "evicted"} => FingerprintOf[Head(todo'[c])] \notin seen'
  PROVE  Promised'
<1>1. /\ \A d \in Callers : d # c => step[d] # "added"
      /\ sdk # "rust" => \A f \in Flushers : f # c => todo[f] = <<>>
      /\ sdk = "java" => ~overlapped'
  BY SoundStep
<1>2. Events \subseteq Callers /\ Flushers \subseteq Callers /\ Flushers \cap Events = {}
  BY CallerTransportAssumption DEF Callers
<1>3. \A d \in Callers : d # c => step'[d] \notin JavaSteps
  <2> SUFFICES ASSUME NEW d \in Callers, d # c, step[d] \in JavaSteps
               PROVE  FALSE
    BY DEF Moves
  <2>1. sdk = "java" /\ step[d] \notin Resting
    BY DEF Types, Resting, JavaSteps
  <2>2. ~overlapped' /\ ~overlapped
    BY <1>1, <2>1 DEF Moves
  <2>3. step[d] \in Resting
    BY <2>2 DEF Moves, Alone
  <2> QED
    BY <2>1, <2>3
<1>4. Distinct'
  <2>1. \A d \in Callers : IsInjective(todo'[d])
    BY DEF Promised, Distinct, Moves
  <2> QED
    BY <2>1 DEF Distinct
<1>5. InOneHand'
  BY <1>1, EventsPassOn DEF Promised
<1>6. Copied'
  <2>1. \A e \in Events : step'[e] = "copied" => Range(todo'[e]) \subseteq Range(retry') \cup {e}
    BY <1>2, <1>3 DEF JavaSteps
  <2>2. ASSUME sdk # "rust", NEW f \in Flushers
        PROVE  Range(todo'[f]) \subseteq Range(retry')
    <3>1. CASE f = c
      BY <2>2, <3>1
    <3>2. CASE f # c
      BY <1>1, <1>2, <2>2, <3>2, EmptyBatch DEF Moves
    <3> QED
      BY <3>1, <3>2
  <2> QED
    BY <2>1, <2>2 DEF Copied, Moves
<1>7. HeldIsSeen'
  <2>1. sdk \in {"browser", "csharp"} => FingerprintsOf(retry)' \subseteq seen'
    BY DEF FingerprintsOf
  <2>2. ASSUME sdk = "java", NEW x \in Range(retry')
        PROVE  \/ FingerprintOf[x] \in seen'
               \/ \E e \in Events : step'[e] = "added" /\ x = Head(todo'[e])
    <3>1. step'[c] = "added" => c \in Events
      BY DEF Moves, JavaSteps
    <3> QED
      BY <2>2, <3>1
  <2>3. \A e \in Events :
          step'[e] \in {"checked", "evicted"} => FingerprintOf[Head(todo'[e])] \notin seen'
    BY <1>2, <1>3 DEF JavaSteps
  <2>4. sdk' = sdk
    BY DEF Moves
  <2> QED
    BY <2>1, <2>2, <2>3, <2>4 DEF HeldIsSeen
<1> QED
  BY <1>4, <1>5, <1>6, <1>7 DEF Promised

\* A call that begins and ends at once.
LEMMA NothingMoves ==
  ASSUME Types, Promised, NEW c \in Callers, Moves(c),
         step[c] \in Resting, todo'[c] = <<>>, UNCHANGED <<retry, seen, acked>>
  PROVE  Promised'
<1>1. todo[c] = <<>> /\ step'[c] \in Resting
  BY DEF Types, Moves
<1>2. /\ \A d \in Callers : todo'[d] = todo[d]
      /\ \A d \in Callers : step'[d] = step[d] \/ (step'[d] \in Resting /\ step[d] \in Resting)
      /\ sdk' = sdk
  BY <1>1 DEF Moves
<1>3. \A d \in Callers : InHand(d)' = InHand(d)
  BY <1>2 DEF InHand, Resting
<1>4. Distinct'
  BY <1>2 DEF Promised, Distinct
<1>5. InOneHand'
  <2>1. \A d \in Callers : step'[d] = "added" <=> step[d] = "added"
    BY <1>2 DEF Resting
  <2> QED
    BY <1>2, <1>3, <2>1 DEF Promised, InOneHand
<1>6. Events \subseteq Callers /\ Flushers \subseteq Callers
  BY DEF Callers
<1>7. Copied'
  BY <1>2, <1>6 DEF Promised, Copied, Resting
<1>8. HeldIsSeen'
  <2>1. \A d \in Callers : \A s \in JavaSteps : step'[d] = s <=> step[d] = s
    BY <1>2 DEF Resting, JavaSteps
  <2>2. FingerprintsOf(retry)' = FingerprintsOf(retry)
    BY DEF FingerprintsOf
  <2> QED
    BY <1>2, <1>6, <2>1, <2>2 DEF Promised, HeldIsSeen, JavaSteps
<1> QED
  BY <1>4, <1>5, <1>7, <1>8 DEF Promised

-----------------------------------------------------------------------------
(* The steps of send *)

\* A call that takes the whole buffer with it.
LEMMA BatchTaken ==
  ASSUME IInv, NEW c \in Callers, step[c] \in Resting, sdk # "java",
         c \in Events => step[c] = "idle",
         c \in Flushers => sdk = "rust" /\ flushed' /\ seen' = seen,
         NEW q \in Seq(Events), Begin(c, q, "sending"),
         Range(q) = Range(retry) \cup ({c} \cap Events),
         IsInjective(retry) /\ c \notin Range(retry) => IsInjective(q),
         retry' = <<>>, seen' = {} \/ (sdk = "rust" /\ seen' = seen),
         UNCHANGED <<sdk, acked>>, flushed' \in BOOLEAN, flushed => flushed'
  PROVE  IInv'
<1>1. Types /\ Alone /\ NotFlushing /\ OnlyGiven /\ (Sound => Promised) /\ retry \in Seq(Events)
  BY DEF IInv, Types
<1>2. Moves(c) /\ todo'[c] = q /\ step'[c] = IF q = <<>> THEN "done" ELSE "sending"
  BY <1>1, BeginMoves
<1>3. step'[c] \notin JavaSteps
  BY <1>2 DEF JavaSteps
<1>4. /\ Given \subseteq Given' /\ Range(q) \subseteq Given' /\ InHand(c)' = Range(q)
      /\ c \notin Range(retry) /\ c \notin acked
  <2>1. Given \subseteq Given' /\ (c \in Events => c \in Given') /\ InHand(c)' = Range(q)
    BY <1>1, <1>2, <1>3, GivenGrows DEF JavaSteps
  <2>2. c \notin Given
    BY CallerTransportAssumption DEF Given
  <2> QED
    BY <1>1, <2>1, <2>2 DEF OnlyGiven
<1>5. retry' \in Seq(Events) /\ Range(retry') = {} /\ IsInjective(retry') /\ Len(retry') = 0
  BY EmptyBatch
<1>6. Types' /\ Alone' /\ NotFlushing' /\ OnlyGiven'
  <2>1. acked' \subseteq Events /\ acked' \subseteq Given' /\ seen' \subseteq Fingerprints
    BY <1>1, <1>4 DEF Types, OnlyGiven
  <2> QED
    BY <1>1, <1>2, <1>4, <1>5, <2>1, CallsKept
<1>7. Bounded'
  BY <1>5, CallerTransportAssumption DEF Bounded
<1>8. SeenIsHeld'
  BY DEF SeenIsHeld
<1>9. ASSUME Sound', q = <<>>
      PROVE  Promised'
  <2>1. Sound
    BY <1>1, <1>2, <1>9, SoundStep
  <2>2. Range(retry) = {} /\ c \notin Events
    BY <1>9, EmptyBatch
  <2>3. retry' = retry
    BY <1>1, <2>2, BatchRange
  <2>4. c \in Flushers /\ seen' = seen
    BY <2>2 DEF Callers
  <2> QED
    BY <1>1, <1>2, <1>9, <2>1, <2>3, <2>4, NothingMoves
<1>10. ASSUME Sound', q # <<>>
       PROVE  Promised'
  <2>1. Sound
    BY <1>1, <1>2, <1>10, SoundStep
  <2>2. Promised /\ Distinct /\ InOneHand
    BY <1>1, <2>1 DEF Promised
  <2>3. step'[c] \notin Resting
    BY <1>2, <1>10 DEF Resting
  <2>4. IsInjective(q) /\ Range(retry) \cap acked = {}
    BY <1>4, <2>2 DEF Distinct, InOneHand
  <2>5. Separate(Range(retry')) /\ FingerprintsOf(retry') = {}
    BY <1>5 DEF Separate, FingerprintsOf
  <2>6. NewIn(c) = {c}
    BY CallerTransportAssumption DEF NewIn, Given
  <2>7. /\ InHand(c)' \subseteq InHand(c) \cup Range(retry) \cup acked \cup NewIn(c)
        /\ acked' \subseteq InHand(c) \cup Range(retry) \cup acked \cup NewIn(c)
        /\ InHand(c)' \cap acked' = {}
    BY <1>4, <2>4, <2>6
  <2>8. step'[c] # "added" /\ step'[c] # "copied" /\ step'[c] \notin {"checked", "evicted"}
    BY <1>3 DEF JavaSteps
  <2> QED
    BY <1>1, <1>2, <1>5, <1>10, <2>2, <2>3, <2>4, <2>5, <2>7, <2>8, PromisesKept
<1> QED
  BY <1>6, <1>7, <1>8, <1>9, <1>10 DEF IInv

LEMMA SendKept ==
  ASSUME IInv, NEW e \in Events, Send(e)
  PROVE  IInv'
<1>1. /\ e \in Callers /\ e \notin Flushers /\ step[e] = "idle" /\ sdk # "java"
      /\ retry' = <<>> /\ seen' = {}
      /\ UNCHANGED <<sdk, acked, flushed>>
      /\ Begin(e, Append(retry, e), "sending")
  BY CallerTransportAssumption DEF Send, Callers
<1>2. retry \in Seq(Events) /\ flushed \in BOOLEAN
  BY DEF IInv, Types
<1>3. /\ Append(retry, e) \in Seq(Events) /\ Range(Append(retry, e)) = Range(retry) \cup {e}
      /\ IsInjective(retry) /\ e \notin Range(retry) => IsInjective(Append(retry, e))
  BY <1>2, NextInBatch
<1> QED
  BY <1>1, <1>2, <1>3, BatchTaken DEF Resting

LEMMA RustSendKept ==
  ASSUME IInv, NEW e \in Events, RustSend(e)
  PROVE  IInv'
<1>1. /\ e \in Callers /\ e \notin Flushers /\ step[e] = "idle" /\ sdk = "rust"
      /\ UNCHANGED <<sdk, seen, acked, flushed>>
  BY CallerTransportAssumption DEF RustSend, Callers
<1>2. /\ Types /\ Alone /\ NotFlushing /\ Bounded /\ OnlyGiven /\ SeenIsHeld
      /\ (Sound => Promised) /\ retry \in Seq(Events) /\ flushed \in BOOLEAN
  BY DEF IInv, Types
<1>3. CASE e \in Unserialisable
  <2>1. Begin(e, <<>>, "sending") /\ retry' = retry
    BY <1>3 DEF RustSend
  <2>2. Moves(e) /\ todo'[e] = <<>>
    BY <1>1, <1>2, <2>1, BeginMoves, EmptyBatch
  <2>3. Types' /\ Alone' /\ NotFlushing' /\ OnlyGiven'
    <3>1. Given \subseteq Given'
      BY <1>1, <1>2, <2>2, GivenGrows
    <3>2. /\ Range(retry') \subseteq Given' /\ acked' \subseteq Given' /\ Range(todo'[e]) = {}
          /\ acked' \subseteq Events /\ seen' \subseteq Fingerprints
      BY <1>1, <1>2, <2>1, <2>2, <3>1, EmptyBatch DEF OnlyGiven, Types
    <3> QED
      BY <1>1, <1>2, <2>1, <2>2, <3>2, CallsKept
  <2>4. Bounded'
    BY <1>1, <1>2, <2>1 DEF Bounded
  <2>5. SeenIsHeld'
    BY <1>1 DEF SeenIsHeld
  <2>6. Promised'
    <3>1. Sound
      BY <1>1, <1>2, SoundCases
    <3> QED
      BY <1>1, <1>2, <2>1, <2>2, <3>1, NothingMoves DEF Resting
  <2> QED
    BY <2>3, <2>4, <2>5, <2>6 DEF IInv
<1>4. CASE e \notin Unserialisable
  <2>1. PICK q \in SetToSeqs(Range(retry)) :
          Begin(e, Append(q, e), "sending") /\ retry' = <<>>
    BY <1>4 DEF RustSend
  <2>2. q \in Seq(Events) /\ Range(q) = Range(retry) /\ IsInjective(q)
    BY <1>2, DrainedBatch, BatchRange
  <2>3. /\ Append(q, e) \in Seq(Events) /\ Range(Append(q, e)) = Range(retry) \cup {e}
        /\ IsInjective(retry) /\ e \notin Range(retry) => IsInjective(Append(q, e))
    BY <2>2, NextInBatch
  <2> QED
    BY <1>1, <1>2, <2>1, <2>3, BatchTaken DEF Resting
<1> QED
  BY <1>3, <1>4

\* Java works on a copy, which it answers for once the buffer is cleared.
LEMMA JavaSendKept ==
  ASSUME IInv, NEW e \in Events, JavaSend(e)
  PROVE  IInv'
<1> DEFINE q == Append(retry, e)
<1>1. /\ e \in Callers /\ e \notin Flushers /\ step[e] = "idle" /\ sdk = "java"
      /\ UNCHANGED <<sdk, retry, seen, acked, flushed>>
      /\ Begin(e, q, "copied")
  BY CallerTransportAssumption DEF JavaSend, Callers
<1>2. /\ Types /\ Alone /\ NotFlushing /\ Bounded /\ OnlyGiven
      /\ (Sound => Promised) /\ retry \in Seq(Events) /\ flushed \in BOOLEAN
  BY DEF IInv, Types
<1>3. /\ q \in Seq(Events) /\ Range(q) = Range(retry) \cup {e} /\ q # <<>>
      /\ IsInjective(retry) /\ e \notin Range(retry) => IsInjective(q)
  BY <1>2, NextInBatch
<1> HIDE DEF q
<1>4. Moves(e) /\ todo'[e] = q /\ step'[e] = "copied"
  BY <1>1, <1>2, <1>3, BeginMoves
<1>5. /\ Given \subseteq Given' /\ e \in Given' /\ InHand(e)' = {e}
      /\ e \notin Given /\ e \notin Range(retry) /\ e \notin acked
  BY <1>1, <1>2, <1>4, GivenGrows DEF Given, OnlyGiven
<1>6. Types' /\ Alone' /\ NotFlushing' /\ OnlyGiven'
  <2>1. /\ Range(retry') \subseteq Given' /\ acked' \subseteq Given' /\ Range(q) \subseteq Given'
        /\ acked' \subseteq Events /\ seen' \subseteq Fingerprints
    BY <1>1, <1>2, <1>3, <1>5 DEF OnlyGiven, Types
  <2> QED
    BY <1>1, <1>2, <1>4, <2>1, CallsKept
<1>7. Bounded'
  BY <1>1, <1>2, <1>4 DEF Bounded, Moves, Callers
<1>8. SeenIsHeld'
  BY <1>1 DEF SeenIsHeld
<1>9. ASSUME Sound'
      PROVE  Promised'
  <2>1. Sound /\ ~overlapped'
    BY <1>1, <1>2, <1>4, <1>9, SoundStep
  <2>2. Promised /\ Distinct /\ InOneHand /\ HeldIsSeen
    BY <1>2, <2>1 DEF Promised
  <2>3. step'[e] \notin Resting
    BY <1>4 DEF Resting
  <2>4. /\ IsInjective(q) /\ IsInjective(retry') /\ Separate(Range(retry'))
        /\ Range(retry') \cap acked' = {}
    BY <1>1, <1>3, <1>5, <2>2 DEF Distinct, InOneHand
  <2>5. /\ InHand(e)' \subseteq InHand(e) \cup Range(retry) \cup acked \cup NewIn(e)
        /\ InHand(e)' \cap acked' = {} /\ InHand(e)' \cap Range(retry') = {}
    BY <1>1, <1>5 DEF NewIn
  <2>6. \A x \in Range(retry') : FingerprintOf[x] \in seen'
    <3>1. \A d \in Events : step[d] # "added"
      BY <1>1, <1>2, <1>4, <1>9, <2>3, SoundStep DEF Callers
    <3> QED
      BY <1>1, <2>2, <3>1 DEF HeldIsSeen
  <2> QED
    BY <1>1, <1>2, <1>3, <1>4, <1>9, <2>2, <2>3, <2>4, <2>5, <2>6, PromisesKept
<1> QED
  BY <1>6, <1>7, <1>8, <1>9 DEF IInv

\* A send under way: what its event and the rest of its batch are.
LEMMA Sending ==
  ASSUME IInv, NEW e \in Events, step[e] \notin Resting
  PROVE  /\ e \in Callers /\ e \notin Flushers /\ e \in Given
         /\ todo[e] \in Seq(Events) /\ todo[e] # <<>>
         /\ Head(todo[e]) \in Events /\ Head(todo[e]) \in Range(todo[e])
         /\ Tail(todo[e]) \in Seq(Events)
         /\ Range(todo[e]) = Range(Tail(todo[e])) \cup {Head(todo[e])}
         /\ Range(todo[e]) \subseteq Given
         /\ Sound => /\ IsInjective(todo[e]) /\ IsInjective(Tail(todo[e]))
                     /\ Head(todo[e]) \notin Range(Tail(todo[e]))
         /\ step[e] # "copied" => InHand(e) = Range(todo[e])
         /\ step[e] = "copied" => InHand(e) = {e}
<1>1. e \in Callers /\ e \notin Flushers
  BY CallerTransportAssumption DEF Callers
<1>2. /\ Types /\ OnlyGiven /\ (Sound => Distinct) /\ todo[e] \in Seq(Events) /\ todo[e] # <<>>
  BY <1>1 DEF IInv, Types, Promised
<1>3. e \in Given /\ Range(todo[e]) \subseteq Given
  BY <1>1, <1>2 DEF Given, OnlyGiven, Resting
<1>4. Sound => IsInjective(todo[e])
  BY <1>1, <1>2 DEF Distinct
<1> QED
  BY <1>1, <1>2, <1>3, <1>4, HeadAndTail, Hands

LEMMA JavaClearKept ==
  ASSUME IInv, NEW e \in Events, JavaClear(e)
  PROVE  IInv'
<1>1. /\ step[e] = "copied" /\ retry' = <<>> /\ StayAt(e, "sending")
      /\ UNCHANGED <<sdk, seen, acked, flushed, overlapped>>
  BY DEF JavaClear
<1>2. Types /\ Alone /\ NotFlushing /\ OnlyGiven /\ (Sound => Promised)
  BY DEF IInv
<1>3. step[e] \notin Resting /\ "sending" \notin JavaSteps
  BY <1>1 DEF Resting, JavaSteps
<1>4. sdk = "java"
  BY <1>1, <1>2 DEF Types, JavaSteps, Callers
<1>5. /\ Moves(e) /\ todo' = todo /\ step'[e] = "sending"
  BY <1>1, <1>2, <1>3, <1>4, StayMoves
<1>6. retry' \in Seq(Events) /\ Range(retry') = {} /\ IsInjective(retry') /\ Len(retry') = 0
  BY <1>1, EmptyBatch
<1>7. Given \subseteq Given' /\ InHand(e)' = Range(todo[e])
  BY <1>2, <1>3, <1>5, Sending, GivenGrows
<1>8. Types' /\ Alone' /\ NotFlushing' /\ OnlyGiven'
  <2>1. /\ acked' \subseteq Given' /\ Range(todo'[e]) \subseteq Given'
        /\ acked' \subseteq Events /\ seen' \subseteq Fingerprints
    BY <1>1, <1>2, <1>3, <1>5, <1>7, Sending DEF OnlyGiven, Types
  <2> QED
    BY <1>2, <1>3, <1>5, <1>6, <2>1, CallsKept, Sending
<1>9. Bounded'
  BY <1>6, CallerTransportAssumption DEF Bounded
<1>10. SeenIsHeld'
  BY <1>1, <1>4 DEF SeenIsHeld
<1>11. ASSUME Sound'
       PROVE  Promised'
  <2>1. Sound
    BY <1>2, <1>3, <1>5, <1>11, Sending, SoundStep
  <2>2. Promised /\ InOneHand /\ Copied
    BY <1>2, <2>1 DEF Promised
  <2>3. step'[e] \notin Resting
    BY <1>5 DEF Resting
  <2>4. /\ Range(todo[e]) \subseteq Range(retry) \cup {e}
        /\ Range(retry) \cap acked = {} /\ InHand(e) = {e} /\ e \notin acked
    BY <1>1, <1>3, <2>2, Sending DEF InOneHand, Copied
  <2>5. Separate(Range(retry'))
    BY <1>6 DEF Separate
  <2>6. IsInjective(todo'[e]) /\ e \in Callers /\ e \notin Flushers
    BY <1>3, <1>5, <2>1, Sending
  <2>7. /\ InHand(e)' \subseteq InHand(e) \cup Range(retry) \cup acked \cup NewIn(e)
        /\ acked' \subseteq InHand(e) \cup Range(retry) \cup acked \cup NewIn(e)
        /\ InHand(e)' \cap acked' = {}
    BY <1>1, <1>7, <2>4
  <2> QED
    BY <1>2, <1>4, <1>5, <1>6, <1>11, <2>2, <2>3, <2>5, <2>6, <2>7, PromisesKept
<1> QED
  BY <1>8, <1>9, <1>10, <1>11 DEF IInv

LEMMA SendOkKept ==
  ASSUME IInv, NEW e \in Events, SendOk(e)
  PROVE  IInv'
<1> DEFINE ev == Head(todo[e])
<1>1. /\ step[e] = "sending" /\ acked' = acked \cup {ev} /\ Advance(e)
      /\ UNCHANGED <<sdk, retry, seen, flushed, overlapped>>
  BY DEF SendOk
<1>2. /\ Types /\ Alone /\ NotFlushing /\ Bounded /\ OnlyGiven /\ SeenIsHeld
      /\ (Sound => Promised) /\ retry \in Seq(Events)
  BY DEF IInv, Types
<1>3. step[e] \notin Resting /\ step[e] \notin JavaSteps /\ step[e] # "copied" /\ step[e] # "added"
  BY <1>1 DEF Resting, JavaSteps
<1>4. /\ Moves(e) /\ todo'[e] = Tail(todo[e]) /\ step'[e] \in {"done", "sending"}
  BY <1>1, <1>2, <1>3, AdvanceMoves, Sending
<1>5. /\ Given \subseteq Given' /\ InHand(e)' = Range(Tail(todo[e]))
      /\ ev \in Range(todo[e]) /\ ev \in Events /\ Range(todo[e]) \subseteq Given
      /\ Range(todo[e]) = Range(Tail(todo[e])) \cup {ev} /\ InHand(e) = Range(todo[e])
      /\ e \in Callers /\ e \notin Flushers
  BY <1>2, <1>3, <1>4, Sending, GivenGrows
<1> HIDE DEF ev
<1>6. Types' /\ Alone' /\ NotFlushing' /\ OnlyGiven'
  <2>1. /\ Range(retry') \subseteq Given' /\ acked' \subseteq Given'
        /\ Range(todo'[e]) \subseteq Given'
        /\ acked' \subseteq Events /\ seen' \subseteq Fingerprints
    BY <1>1, <1>2, <1>4, <1>5 DEF OnlyGiven, Types
  <2> QED
    BY <1>1, <1>2, <1>4, <1>5, <2>1, CallsKept
<1>7. Bounded'
  BY <1>1, <1>2, <1>4 DEF Bounded, Moves, Callers
<1>8. SeenIsHeld'
  BY <1>1, <1>2 DEF SeenIsHeld, FingerprintsOf
<1>9. ASSUME Sound'
      PROVE  Promised'
  <2>1. Sound
    BY <1>2, <1>4, <1>5, <1>9, SoundStep
  <2>2. Promised /\ Distinct /\ InOneHand /\ HeldIsSeen
    BY <1>2, <2>1 DEF Promised
  <2>3. IsInjective(todo'[e]) /\ ev \notin Range(Tail(todo[e]))
    BY <1>3, <1>4, <2>1, Sending DEF ev
  <2>4. /\ IsInjective(retry') /\ Separate(Range(retry'))
        /\ Range(todo[e]) \cap Range(retry) = {} /\ Range(todo[e]) \cap acked = {}
        /\ Range(retry) \cap acked = {}
    BY <1>1, <1>3, <1>5, <2>2 DEF Distinct, InOneHand
  <2>5. /\ InHand(e)' \subseteq InHand(e) \cup Range(retry) \cup acked \cup NewIn(e)
        /\ acked' \subseteq InHand(e) \cup Range(retry) \cup acked \cup NewIn(e)
        /\ InHand(e)' \cap acked' = {} /\ InHand(e)' \cap Range(retry') = {}
        /\ Range(retry') \cap acked' = {}
    BY <1>1, <1>5, <2>3, <2>4
  <2>6. sdk \in {"browser", "csharp"} => FingerprintsOf(retry') \subseteq seen'
    BY <1>1, <2>2 DEF HeldIsSeen, FingerprintsOf
  <2>7. sdk = "java" => \A x \in Range(retry') : FingerprintOf[x] \in seen'
    <3>1. \A d \in Events : step[d] # "added"
      BY <1>2, <1>3, <1>4, <1>5, <1>9, SoundStep DEF Callers
    <3> QED
      BY <1>1, <2>2, <3>1 DEF HeldIsSeen
  <2>8. step'[e] # "added" /\ step'[e] # "copied" /\ step'[e] \notin {"checked", "evicted"}
    BY <1>4
  <2> QED
    BY <1>1, <1>2, <1>3, <1>4, <1>5, <1>9, <2>2, <2>3, <2>4, <2>5, <2>6, <2>7, <2>8, PromisesKept
<1> QED
  BY <1>6, <1>7, <1>8, <1>9 DEF IInv

LEMMA SendFailKept ==
  ASSUME IInv, NEW e \in Events, SendFail(e)
  PROVE  IInv'
<1> DEFINE ev == Head(todo[e])
<1>1. /\ step[e] = "sending" /\ sdk # "java" /\ Advance(e)
      /\ sdk = "rust" => Push(ev) /\ seen' = seen
      /\ sdk # "rust" => Enqueue(ev)
      /\ UNCHANGED <<sdk, acked, flushed, overlapped>>
  BY DEF SendFail
<1>2. /\ Types /\ Alone /\ NotFlushing /\ Bounded /\ OnlyGiven /\ SeenIsHeld
      /\ (Sound => Promised) /\ retry \in Seq(Events)
  BY DEF IInv, Types
<1>3. step[e] \notin Resting /\ step[e] # "copied" /\ step[e] # "added"
  BY <1>1 DEF Resting
<1>4. /\ Moves(e) /\ todo'[e] = Tail(todo[e]) /\ step'[e] \in {"done", "sending"}
  BY <1>1, <1>2, <1>3, AdvanceMoves, Sending
<1>5. /\ Given \subseteq Given' /\ InHand(e)' = Range(Tail(todo[e]))
      /\ ev \in Range(todo[e]) /\ ev \in Events /\ Range(todo[e]) \subseteq Given
      /\ Range(todo[e]) = Range(Tail(todo[e])) \cup {ev} /\ InHand(e) = Range(todo[e])
      /\ e \in Callers /\ e \notin Flushers
  BY <1>2, <1>3, <1>4, Sending, GivenGrows
<1> HIDE DEF ev
<1>6. /\ retry' \in Seq(Events) /\ seen' \subseteq Fingerprints
      /\ Range(retry') \subseteq Range(retry) \cup {ev}
      /\ Len(retry) <= MAX_RETRY_BUFFER => Len(retry') <= MAX_RETRY_BUFFER
      /\ sdk # "rust" /\ seen \subseteq FingerprintsOf(retry) => seen' \subseteq FingerprintsOf(retry')
      /\ /\ sdk # "rust" => FingerprintsOf(retry) \subseteq seen
         /\ IsInjective(retry) /\ Separate(Range(retry))
         => /\ sdk # "rust" => FingerprintsOf(retry') \subseteq seen'
            /\ IsInjective(retry') /\ Separate(Range(retry'))
  <2>1. CASE sdk = "rust"
    <3>1. seen' \subseteq Fingerprints
      BY <1>1, <1>2, <2>1 DEF Types
    <3> QED
      BY <1>1, <1>2, <1>5, <2>1, <3>1, PushEffect
  <2>2. CASE sdk # "rust"
    BY <1>1, <1>2, <1>5, <2>2, EnqueueEffect
  <2> QED
    BY <2>1, <2>2
<1>7. Types' /\ Alone' /\ NotFlushing' /\ OnlyGiven'
  <2>1. /\ Range(retry') \subseteq Given' /\ acked' \subseteq Given'
        /\ Range(todo'[e]) \subseteq Given' /\ acked' \subseteq Events
    BY <1>1, <1>2, <1>4, <1>5, <1>6 DEF OnlyGiven, Types
  <2> QED
    BY <1>2, <1>4, <1>5, <1>6, <2>1, CallsKept
<1>8. Bounded'
  BY <1>1, <1>2, <1>6 DEF Bounded
<1>9. SeenIsHeld'
  <2>1. FingerprintsOf(retry)' = FingerprintsOf(retry')
    BY DEF FingerprintsOf
  <2> QED
    BY <1>1, <1>2, <1>6, <2>1 DEF SeenIsHeld
<1>10. ASSUME Sound'
       PROVE  Promised'
  <2>1. Sound
    BY <1>2, <1>4, <1>5, <1>10, SoundStep
  <2>2. Promised /\ Distinct /\ InOneHand /\ HeldIsSeen
    BY <1>2, <2>1 DEF Promised
  <2>3. IsInjective(todo'[e]) /\ ev \notin Range(Tail(todo[e]))
    BY <1>3, <1>4, <2>1, Sending DEF ev
  <2>4. /\ Range(todo[e]) \cap Range(retry) = {} /\ Range(todo[e]) \cap acked = {}
        /\ Range(retry) \cap acked = {}
    BY <1>3, <1>5, <2>2 DEF InOneHand
  <2>5. /\ IsInjective(retry') /\ Separate(Range(retry'))
        /\ sdk # "rust" => FingerprintsOf(retry') \subseteq seen'
    BY <1>1, <1>2, <1>6, <2>2 DEF Distinct, HeldIsSeen, Types
  <2>6. /\ InHand(e)' \subseteq InHand(e) \cup Range(retry) \cup acked \cup NewIn(e)
        /\ Range(retry') \subseteq InHand(e) \cup Range(retry) \cup acked \cup NewIn(e)
        /\ acked' \subseteq InHand(e) \cup Range(retry) \cup acked \cup NewIn(e)
        /\ InHand(e)' \cap acked' = {} /\ InHand(e)' \cap Range(retry') = {}
        /\ Range(retry') \cap acked' = {}
    BY <1>1, <1>5, <1>6, <2>3, <2>4
  <2>7. step'[e] # "added" /\ step'[e] # "copied" /\ step'[e] \notin {"checked", "evicted"}
    BY <1>4
  <2> QED
    BY <1>1, <1>2, <1>3, <1>4, <1>5, <1>10, <2>2, <2>3, <2>5, <2>6, <2>7, PromisesKept
<1> QED
  BY <1>7, <1>8, <1>9, <1>10 DEF IInv

\* While the promises hold, Java has one call under way.
LEMMA JavaAlone ==
  ASSUME IInv, NEW e \in Events, step[e] \notin Resting, sdk = "java"
  PROVE  /\ Sound => Promised /\ ~overlapped
         /\ ~overlapped => \A d \in Callers : d # e => step[d] \in Resting
         /\ Sound /\ step[e] # "added" => \A x \in Range(retry) : FingerprintOf[x] \in seen
<1>1. Types /\ Alone /\ (Sound => Promised) /\ e \in Callers /\ Events \subseteq Callers
  BY DEF IInv, Callers
<1>2. Sound => ~overlapped
  BY <1>1, SoundCases
<1>3. ~overlapped => \A d \in Callers : d # e => step[d] \in Resting
  BY <1>1 DEF Alone
<1>4. ASSUME Sound, step[e] # "added", NEW x \in Range(retry)
      PROVE  FingerprintOf[x] \in seen
  <2>1. \A d \in Events : step[d] # "added"
    BY <1>1, <1>2, <1>3, <1>4 DEF Resting
  <2> QED
    BY <1>1, <1>4, <2>1 DEF Promised, HeldIsSeen
<1> QED
  BY <1>1, <1>2, <1>3, <1>4

LEMMA JavaFailKept ==
  ASSUME IInv, NEW e \in Events, JavaFail(e)
  PROVE  IInv'
<1> DEFINE ev == Head(todo[e])
<1>1. /\ step[e] = "sending" /\ sdk = "java"
      /\ FingerprintOf[ev] \in seen => Advance(e)
      /\ FingerprintOf[ev] \notin seen => StayAt(e, "checked")
      /\ UNCHANGED <<sdk, retry, seen, acked, flushed, overlapped>>
  BY DEF JavaFail
<1>2. /\ Types /\ Alone /\ NotFlushing /\ Bounded /\ OnlyGiven /\ SeenIsHeld
      /\ (Sound => Promised) /\ retry \in Seq(Events)
  BY DEF IInv, Types
<1>3. /\ step[e] \notin Resting /\ step[e] # "copied" /\ step[e] # "added"
      /\ "checked" \in JavaSteps
  BY <1>1 DEF Resting, JavaSteps
<1>4. /\ ev \in Range(todo[e]) /\ ev \in Events /\ Range(todo[e]) \subseteq Given
      /\ Range(todo[e]) = Range(Tail(todo[e])) \cup {ev} /\ InHand(e) = Range(todo[e])
      /\ e \in Callers /\ e \notin Flushers
      /\ Sound => IsInjective(todo[e]) /\ IsInjective(Tail(todo[e]))
  BY <1>3, Sending
<1>5. /\ Moves(e)
      /\ \/ todo'[e] = Tail(todo[e]) /\ step'[e] \in {"done", "sending"}
         \/ todo'[e] = todo[e] /\ step'[e] = "checked" /\ FingerprintOf[ev] \notin seen
  <2>1. CASE FingerprintOf[ev] \in seen
    BY <1>1, <1>2, <1>3, <1>4, <2>1, AdvanceMoves
  <2>2. CASE FingerprintOf[ev] \notin seen
    BY <1>1, <1>2, <1>3, <1>4, <2>2, StayMoves
  <2> QED
    BY <2>1, <2>2
<1>6. /\ Given \subseteq Given' /\ InHand(e)' = Range(todo'[e])
      /\ Range(todo'[e]) \subseteq Range(todo[e])
      /\ step'[e] # "added" /\ step'[e] # "copied" /\ step'[e] # "evicted"
      /\ step'[e] = "checked" => FingerprintOf[Head(todo'[e])] \notin seen
      /\ Sound => IsInjective(todo'[e])
  BY <1>2, <1>4, <1>5, GivenGrows
<1> HIDE DEF ev
<1>7. Types' /\ Alone' /\ NotFlushing' /\ OnlyGiven'
  <2>1. /\ Range(retry') \subseteq Given' /\ acked' \subseteq Given'
        /\ Range(todo'[e]) \subseteq Given'
        /\ acked' \subseteq Events /\ seen' \subseteq Fingerprints
    BY <1>1, <1>2, <1>4, <1>6 DEF OnlyGiven, Types
  <2> QED
    BY <1>1, <1>2, <1>4, <1>5, <2>1, CallsKept
<1>8. Bounded'
  BY <1>1, <1>2, <1>5, <1>6 DEF Bounded, Moves, Callers
<1>9. SeenIsHeld'
  BY <1>1 DEF SeenIsHeld
<1>10. ASSUME Sound'
       PROVE  Promised'
  <2>1. Sound
    BY <1>2, <1>4, <1>5, <1>10, SoundStep
  <2>2. Promised /\ Distinct /\ InOneHand
    BY <1>2, <2>1 DEF Promised
  <2>3. /\ IsInjective(retry') /\ Separate(Range(retry'))
        /\ Range(todo[e]) \cap Range(retry) = {} /\ Range(todo[e]) \cap acked = {}
        /\ Range(retry) \cap acked = {}
    BY <1>1, <1>3, <1>4, <2>2 DEF Distinct, InOneHand
  <2>4. /\ InHand(e)' \subseteq InHand(e) \cup Range(retry) \cup acked \cup NewIn(e)
        /\ InHand(e)' \cap acked' = {} /\ InHand(e)' \cap Range(retry') = {}
        /\ Range(retry') \cap acked' = {}
    BY <1>1, <1>4, <1>6, <2>3
  <2>5. \A x \in Range(retry') : FingerprintOf[x] \in seen'
    BY <1>1, <1>3, <2>1, JavaAlone
  <2>6. step'[e] \in {"checked", "evicted"} => FingerprintOf[Head(todo'[e])] \notin seen'
    BY <1>1, <1>6
  <2> QED
    BY <1>1, <1>2, <1>3, <1>4, <1>5, <1>6, <1>10, <2>1, <2>2, <2>3, <2>4, <2>5, <2>6, PromisesKept
<1> QED
  BY <1>7, <1>8, <1>9, <1>10 DEF IInv

LEMMA JavaEvictKept ==
  ASSUME IInv, NEW e \in Events, JavaEvict(e)
  PROVE  IInv'
<1>1. /\ step[e] = "checked" /\ StayAt(e, "evicted")
      /\ Len(retry) >= MAX_RETRY_BUFFER =>
           retry' = Tail(retry) /\ seen' = seen \ {FingerprintOf[Head(retry)]}
      /\ ~(Len(retry) >= MAX_RETRY_BUFFER) => retry' = retry /\ seen' = seen
      /\ UNCHANGED <<sdk, acked, flushed, overlapped>>
  BY DEF JavaEvict
<1>2. /\ Types /\ Alone /\ NotFlushing /\ Bounded /\ OnlyGiven
      /\ (Sound => Promised) /\ retry \in Seq(Events) /\ seen \subseteq Fingerprints
      /\ Len(retry) \in Nat /\ MAX_RETRY_BUFFER \in Nat /\ MAX_RETRY_BUFFER > 0
  BY LenProperties, CallerTransportAssumption DEF IInv, Types
<1>3. /\ step[e] \notin Resting /\ step[e] # "copied" /\ step[e] # "added"
      /\ "evicted" \in JavaSteps /\ step[e] \in JavaSteps
  BY <1>1 DEF Resting, JavaSteps
<1>4. /\ e \in Callers /\ e \notin Flushers /\ InHand(e) = Range(todo[e])
      /\ Range(todo[e]) \subseteq Given /\ Head(todo[e]) \in Events
      /\ Sound => IsInjective(todo[e])
  BY <1>3, Sending
<1>5. sdk = "java"
  BY <1>2, <1>3, <1>4 DEF Types
<1>6. Moves(e) /\ todo' = todo /\ step'[e] = "evicted"
  BY <1>1, <1>2, <1>3, <1>5, StayMoves
<1>7. Given \subseteq Given' /\ InHand(e)' = Range(todo[e])
  BY <1>2, <1>4, <1>6, GivenGrows
<1>8. /\ retry' \in Seq(Events) /\ seen' \subseteq seen
      /\ Range(retry') \subseteq Range(retry) /\ Len(retry') <= Len(retry)
      /\ Len(retry) <= MAX_RETRY_BUFFER => Len(retry') < MAX_RETRY_BUFFER
      /\ /\ IsInjective(retry) /\ Separate(Range(retry))
         /\ \A x \in Range(retry) : FingerprintOf[x] \in seen
         => /\ IsInjective(retry') /\ Separate(Range(retry'))
            /\ \A x \in Range(retry') : FingerprintOf[x] \in seen'
  <2>1. CASE Len(retry) >= MAX_RETRY_BUFFER
    <3>1. retry' = Tail(retry) /\ seen' = seen \ {FingerprintOf[Head(retry)]} /\ retry # <<>>
      BY <1>1, <1>2, <2>1, EmptyBatch
    <3> DEFINE h == Head(retry)
               t == Tail(retry)
    <3>2. /\ t \in Seq(Events) /\ Len(t) = Len(retry) - 1
          /\ h \in Range(retry) /\ Range(retry) = Range(t) \cup {h}
          /\ IsInjective(retry) => IsInjective(t) /\ h \notin Range(t)
      BY <1>2, <3>1, HeadAndTail
    <3>3. retry' = t /\ seen' = seen \ {FingerprintOf[h]}
      BY <3>1
    <3> HIDE DEF h, t
    <3>4. ASSUME IsInjective(retry), Separate(Range(retry)),
                 \A x \in Range(retry) : FingerprintOf[x] \in seen
          PROVE  /\ IsInjective(retry') /\ Separate(Range(retry'))
                 /\ \A x \in Range(retry') : FingerprintOf[x] \in seen'
      BY <3>2, <3>3, <3>4 DEF Separate
    <3>5. Len(retry') <= Len(retry) /\ (Len(retry) <= MAX_RETRY_BUFFER => Len(retry') < MAX_RETRY_BUFFER)
      BY <1>2, <3>2, <3>3
    <3> QED
      BY <3>2, <3>3, <3>4, <3>5
  <2>2. CASE ~(Len(retry) >= MAX_RETRY_BUFFER)
    BY <1>1, <1>2, <2>2
  <2> QED
    BY <2>1, <2>2
<1>9. Types' /\ Alone' /\ NotFlushing' /\ OnlyGiven'
  <2>1. /\ Range(retry') \subseteq Given' /\ acked' \subseteq Given'
        /\ Range(todo'[e]) \subseteq Given'
        /\ acked' \subseteq Events /\ seen' \subseteq Fingerprints
    BY <1>1, <1>2, <1>4, <1>6, <1>7, <1>8 DEF OnlyGiven, Types
  <2> QED
    BY <1>2, <1>4, <1>6, <1>8, <2>1, CallsKept
<1>10. Bounded'
  <2>1. ~overlapped => Len(retry) <= MAX_RETRY_BUFFER
    BY <1>2 DEF Bounded
  <2>2. ~overlapped' => Len(retry') < MAX_RETRY_BUFFER
    BY <1>1, <1>8, <2>1
  <2>3. Len(retry') \in Nat
    BY <1>8, LenProperties
  <2> QED
    BY <1>2, <1>5, <1>6, <2>2, <2>3 DEF Bounded, Moves
<1>11. SeenIsHeld'
  BY <1>1, <1>5 DEF SeenIsHeld
<1>12. ASSUME Sound'
       PROVE  Promised'
  <2>1. Sound
    BY <1>2, <1>4, <1>6, <1>12, SoundStep
  <2>2. Promised /\ Distinct /\ InOneHand /\ HeldIsSeen
    BY <1>2, <2>1 DEF Promised
  <2>3. /\ IsInjective(retry') /\ Separate(Range(retry'))
        /\ \A x \in Range(retry') : FingerprintOf[x] \in seen'
    <3>1. \A x \in Range(retry) : FingerprintOf[x] \in seen
      BY <1>3, <1>5, <2>1, JavaAlone
    <3> QED
      BY <1>8, <2>2, <3>1 DEF Distinct
  <2>4. /\ Range(todo[e]) \cap Range(retry) = {} /\ Range(todo[e]) \cap acked = {}
        /\ Range(retry) \cap acked = {}
    BY <1>3, <1>4, <2>2 DEF InOneHand
  <2>5. /\ InHand(e)' \subseteq InHand(e) \cup Range(retry) \cup acked \cup NewIn(e)
        /\ Range(retry') \subseteq InHand(e) \cup Range(retry) \cup acked \cup NewIn(e)
        /\ acked' \subseteq InHand(e) \cup Range(retry) \cup acked \cup NewIn(e)
        /\ InHand(e)' \cap acked' = {} /\ InHand(e)' \cap Range(retry') = {}
        /\ Range(retry') \cap acked' = {}
    BY <1>1, <1>4, <1>7, <1>8, <2>4
  <2>6. FingerprintOf[Head(todo'[e])] \notin seen'
    BY <1>1, <1>6, <1>8, <2>2 DEF HeldIsSeen
  <2> QED
    BY <1>2, <1>3, <1>4, <1>5, <1>6, <1>12, <2>1, <2>2, <2>3, <2>5, <2>6, PromisesKept
<1> QED
  BY <1>9, <1>10, <1>11, <1>12 DEF IInv

LEMMA JavaAddKept ==
  ASSUME IInv, NEW e \in Events, JavaAdd(e)
  PROVE  IInv'
<1> DEFINE ev == Head(todo[e])
<1>1. /\ step[e] = "evicted" /\ StayAt(e, "added")
      /\ retry' = Append(retry, ev)
      /\ UNCHANGED <<sdk, seen, acked, flushed, overlapped>>
  BY DEF JavaAdd
<1>2. /\ Types /\ Alone /\ NotFlushing /\ Bounded /\ OnlyGiven
      /\ (Sound => Promised) /\ retry \in Seq(Events)
      /\ Len(retry) \in Nat /\ MAX_RETRY_BUFFER \in Nat
  BY LenProperties, CallerTransportAssumption DEF IInv, Types
<1>3. /\ step[e] \notin Resting /\ step[e] # "copied" /\ step[e] # "added"
      /\ "added" \in JavaSteps /\ step[e] \in JavaSteps
  BY <1>1 DEF Resting, JavaSteps
<1>4. /\ e \in Callers /\ e \notin Flushers /\ InHand(e) = Range(todo[e])
      /\ Range(todo[e]) \subseteq Given /\ ev \in Events /\ ev \in Range(todo[e])
      /\ Range(todo[e]) = Range(Tail(todo[e])) \cup {ev}
      /\ Sound => IsInjective(todo[e]) /\ ev \notin Range(Tail(todo[e]))
  BY <1>3, Sending
<1>5. sdk = "java"
  BY <1>2, <1>3, <1>4 DEF Types
<1>6. Moves(e) /\ todo' = todo /\ step'[e] = "added"
  BY <1>1, <1>2, <1>3, <1>5, StayMoves
<1>7. Given \subseteq Given' /\ InHand(e)' = Range(todo[e])
  BY <1>2, <1>4, <1>6, GivenGrows
<1>8. /\ retry' \in Seq(Events) /\ Range(retry') = Range(retry) \cup {ev}
      /\ IsInjective(retry) /\ ev \notin Range(retry) => IsInjective(retry')
      /\ Len(retry') = Len(retry) + 1
  BY <1>1, <1>2, <1>4, NextInBatch
<1>9. Types' /\ Alone' /\ NotFlushing' /\ OnlyGiven'
  <2>1. /\ Range(retry') \subseteq Given' /\ acked' \subseteq Given'
        /\ Range(todo'[e]) \subseteq Given'
        /\ acked' \subseteq Events /\ seen' \subseteq Fingerprints
    BY <1>1, <1>2, <1>4, <1>6, <1>7, <1>8 DEF OnlyGiven, Types
  <2> QED
    BY <1>2, <1>4, <1>6, <1>8, <2>1, CallsKept
<1>10. Bounded'
  <2>1. ~overlapped => Len(retry) < MAX_RETRY_BUFFER
    BY <1>1, <1>2, <1>5 DEF Bounded
  <2>2. ~overlapped' => Len(retry') <= MAX_RETRY_BUFFER
    BY <1>1, <1>2, <1>8, <2>1
  <2>3. ASSUME ~overlapped', NEW d \in Events
        PROVE  step'[d] # "evicted"
    <3>1. CASE d = e
      BY <1>6, <3>1
    <3>2. CASE d # e
      BY <1>1, <1>3, <1>5, <1>6, <2>3, <3>2, JavaAlone DEF Moves, Callers, Resting
    <3> QED
      BY <3>1, <3>2
  <2> QED
    BY <1>5, <1>6, <2>2, <2>3 DEF Bounded, Moves
<1>11. SeenIsHeld'
  BY <1>1, <1>5 DEF SeenIsHeld
<1> HIDE DEF ev
<1>12. ASSUME Sound'
       PROVE  Promised'
  <2>1. Sound
    BY <1>2, <1>4, <1>6, <1>12, SoundStep
  <2>2. Promised /\ Distinct /\ InOneHand /\ HeldIsSeen
    BY <1>2, <2>1 DEF Promised
  <2>3. /\ \A x \in Range(retry) : FingerprintOf[x] \in seen
        /\ FingerprintOf[ev] \notin seen
    <3>1. FingerprintOf[ev] \notin seen
      BY <1>1, <2>2 DEF HeldIsSeen, ev
    <3> QED
      BY <1>3, <1>5, <2>1, <3>1, JavaAlone
  <2>4. /\ Range(todo[e]) \cap Range(retry) = {} /\ Range(todo[e]) \cap acked = {}
        /\ Range(retry) \cap acked = {}
    BY <1>3, <1>4, <2>2 DEF InOneHand
  <2>5. IsInjective(retry') /\ Separate(Range(retry'))
    <3>1. IsInjective(retry')
      BY <1>4, <1>8, <2>2, <2>4 DEF Distinct
    <3>2. Separate(Range(retry'))
      BY <1>8, <2>2, <2>3 DEF Distinct, Separate
    <3> QED
      BY <3>1, <3>2
  <2>6. /\ InHand(e)' \subseteq InHand(e) \cup Range(retry) \cup acked \cup NewIn(e)
        /\ Range(retry') \subseteq InHand(e) \cup Range(retry) \cup acked \cup NewIn(e)
        /\ acked' \subseteq InHand(e) \cup Range(retry) \cup acked \cup NewIn(e)
        /\ InHand(e)' \cap acked' = {} /\ Range(retry') \cap acked' = {}
        /\ Range(Tail(todo'[e])) \cap Range(retry') = {}
    BY <1>1, <1>4, <1>6, <1>7, <1>8, <2>1, <2>4
  <2>7. \A x \in Range(retry') :
          FingerprintOf[x] \in seen' \/ (step'[e] = "added" /\ x = Head(todo'[e]))
    BY <1>1, <1>6, <1>8, <2>3 DEF ev
  <2> QED
    BY <1>2, <1>3, <1>4, <1>5, <1>6, <1>12, <2>1, <2>2, <2>5, <2>6, <2>7, PromisesKept
<1> QED
  BY <1>9, <1>10, <1>11, <1>12 DEF IInv

LEMMA JavaPutKept ==
  ASSUME IInv, NEW e \in Events, JavaPut(e)
  PROVE  IInv'
<1> DEFINE ev == Head(todo[e])
<1>1. /\ step[e] = "added" /\ Advance(e)
      /\ seen' = seen \cup {FingerprintOf[ev]}
      /\ UNCHANGED <<sdk, retry, acked, flushed, overlapped>>
  BY DEF JavaPut
<1>2. /\ Types /\ Alone /\ NotFlushing /\ Bounded /\ OnlyGiven
      /\ (Sound => Promised) /\ retry \in Seq(Events)
  BY DEF IInv, Types
<1>3. /\ step[e] \notin Resting /\ step[e] # "copied" /\ step[e] \in JavaSteps
  BY <1>1 DEF Resting, JavaSteps
<1>4. /\ e \in Callers /\ e \notin Flushers /\ InHand(e) = Range(todo[e])
      /\ Range(todo[e]) \subseteq Given /\ ev \in Events
      /\ Range(todo[e]) = Range(Tail(todo[e])) \cup {ev}
      /\ Sound => IsInjective(Tail(todo[e]))
  BY <1>3, Sending
<1>5. sdk = "java"
  BY <1>2, <1>3, <1>4 DEF Types
<1>6. Moves(e) /\ todo'[e] = Tail(todo[e]) /\ step'[e] \in {"done", "sending"}
  BY <1>1, <1>2, <1>3, <1>4, AdvanceMoves
<1>7. Given \subseteq Given' /\ InHand(e)' = Range(Tail(todo[e]))
  BY <1>2, <1>4, <1>6, GivenGrows
<1> HIDE DEF ev
<1>8. Types' /\ Alone' /\ NotFlushing' /\ OnlyGiven'
  <2>1. /\ Range(retry') \subseteq Given' /\ acked' \subseteq Given'
        /\ Range(todo'[e]) \subseteq Given'
        /\ acked' \subseteq Events /\ seen' \subseteq Fingerprints
    BY <1>1, <1>2, <1>4, <1>6, <1>7 DEF OnlyGiven, Types, Fingerprints
  <2> QED
    BY <1>1, <1>2, <1>4, <1>6, <2>1, CallsKept
<1>9. Bounded'
  BY <1>1, <1>2, <1>6 DEF Bounded, Moves, Callers
<1>10. SeenIsHeld'
  BY <1>1, <1>5 DEF SeenIsHeld
<1>11. ASSUME Sound'
       PROVE  Promised'
  <2>1. Sound
    BY <1>2, <1>4, <1>6, <1>11, SoundStep
  <2>2. Promised /\ Distinct /\ InOneHand /\ HeldIsSeen
    BY <1>2, <2>1 DEF Promised
  <2>3. \A x \in Range(retry') : FingerprintOf[x] \in seen'
    <3> SUFFICES ASSUME NEW x \in Range(retry)
                 PROVE  FingerprintOf[x] \in seen'
      BY <1>1
    <3>1. \/ FingerprintOf[x] \in seen
          \/ \E d \in Events : step[d] = "added" /\ x = Head(todo[d])
      BY <1>5, <2>2 DEF HeldIsSeen
    <3>2. \A d \in Events : step[d] = "added" => d = e
      BY <1>3, <1>5, <2>1, JavaAlone DEF Callers, Resting
    <3> QED
      BY <1>1, <3>1, <3>2 DEF ev
  <2>4. /\ Range(Tail(todo[e])) \cap Range(retry) = {} /\ Range(todo[e]) \cap acked = {}
        /\ Range(retry) \cap acked = {}
    BY <1>1, <1>4, <2>2 DEF InOneHand
  <2>5. IsInjective(retry') /\ Separate(Range(retry')) /\ IsInjective(todo'[e])
    BY <1>1, <1>4, <1>6, <2>1, <2>2 DEF Distinct
  <2>6. /\ InHand(e)' \subseteq InHand(e) \cup Range(retry) \cup acked \cup NewIn(e)
        /\ acked' \subseteq InHand(e) \cup Range(retry) \cup acked \cup NewIn(e)
        /\ InHand(e)' \cap acked' = {} /\ InHand(e)' \cap Range(retry') = {}
        /\ Range(retry') \cap acked' = {}
    BY <1>1, <1>4, <1>7, <2>4
  <2> QED
    BY <1>1, <1>2, <1>3, <1>4, <1>5, <1>6, <1>11, <2>2, <2>3, <2>5, <2>6, PromisesKept
<1> QED
  BY <1>8, <1>9, <1>10, <1>11 DEF IInv

-----------------------------------------------------------------------------
(* The steps of flush *)

LEMMA FlushKept ==
  ASSUME IInv, NEW f \in Flushers, Flush(f)
  PROVE  IInv'
<1>1. /\ f \in Callers /\ f \notin Events /\ step[f] \in Resting
      /\ flushed' = TRUE /\ UNCHANGED <<sdk, seen, acked>>
  BY CallerTransportAssumption DEF Flush, Callers, Resting
<1>2. /\ Types /\ Alone /\ NotFlushing /\ Bounded /\ OnlyGiven /\ SeenIsHeld
      /\ (Sound => Promised) /\ retry \in Seq(Events) /\ flushed \in BOOLEAN
  BY DEF IInv, Types
<1>3. CASE sdk = "rust"
  <2>1. PICK q \in SetToSeqs(Range(retry)) : Begin(f, q, "sending") /\ retry' = <<>>
    BY <1>3 DEF Flush
  <2>2. q \in Seq(Events) /\ Range(q) = Range(retry) /\ IsInjective(q)
    BY <1>2, DrainedBatch, BatchRange
  <2> QED
    BY <1>1, <1>2, <1>3, <2>1, <2>2, BatchTaken
<1>4. CASE sdk # "rust"
  <2>1. Begin(f, retry, "sending") /\ retry' = retry
    BY <1>4 DEF Flush
  <2>2. Moves(f) /\ todo'[f] = retry /\ step'[f] = IF retry = <<>> THEN "done" ELSE "sending"
    BY <1>1, <1>2, <2>1, BeginMoves
  <2>3. Given \subseteq Given' /\ InHand(f)' = {}
    BY <1>1, <1>2, <1>4, <2>2, GivenGrows
  <2>4. Types' /\ Alone' /\ NotFlushing' /\ OnlyGiven'
    <3>1. /\ Range(retry') \subseteq Given' /\ acked' \subseteq Given'
          /\ Range(todo'[f]) \subseteq Given'
          /\ acked' \subseteq Events /\ seen' \subseteq Fingerprints
      BY <1>1, <1>2, <2>1, <2>2, <2>3 DEF OnlyGiven, Types
    <3> QED
      BY <1>1, <1>2, <2>1, <2>2, <3>1, CallsKept
  <2>5. Bounded'
    BY <1>1, <1>2, <2>1, <2>2 DEF Bounded, Moves, Callers
  <2>6. SeenIsHeld'
    <3>1. FingerprintsOf(retry)' = FingerprintsOf(retry)
      BY <2>1 DEF FingerprintsOf
    <3> QED
      BY <1>1, <1>2, <3>1 DEF SeenIsHeld
  <2>7. ASSUME Sound'
        PROVE  Promised'
    <3>1. Sound
      BY <1>1, <1>2, <2>2, <2>7, SoundStep
    <3>2. Promised /\ Distinct /\ InOneHand /\ HeldIsSeen
      BY <1>2, <3>1 DEF Promised
    <3>3. CASE retry = <<>>
      BY <1>1, <1>2, <2>1, <2>2, <3>2, <3>3, NothingMoves
    <3>4. CASE retry # <<>>
      <4>1. step'[f] \notin Resting /\ step'[f] = "sending"
        BY <2>2, <3>4 DEF Resting
      <4>2. /\ IsInjective(retry') /\ Separate(Range(retry')) /\ IsInjective(todo'[f])
            /\ Range(retry') \cap acked' = {}
        BY <1>1, <2>1, <2>2, <3>2 DEF Distinct, InOneHand
      <4>3. sdk \in {"browser", "csharp"} => FingerprintsOf(retry') \subseteq seen'
        BY <1>1, <2>1, <3>2 DEF HeldIsSeen
      <4>4. sdk = "java" => \A x \in Range(retry') : FingerprintOf[x] \in seen'
        <5>1. \A d \in Events : step[d] # "added"
          BY <1>1, <1>2, <2>2, <2>7, <4>1, SoundStep DEF Callers
        <5> QED
          BY <1>1, <2>1, <3>2, <5>1 DEF HeldIsSeen
      <4>5. Range(todo'[f]) \subseteq Range(retry')
        BY <2>1, <2>2
      <4> QED
        BY <1>1, <1>2, <2>1, <2>2, <2>3, <2>7, <3>2, <4>1, <4>2, <4>3, <4>4, <4>5, PromisesKept
    <3> QED
      BY <3>3, <3>4
  <2> QED
    BY <2>4, <2>5, <2>6, <2>7 DEF IInv
<1> QED
  BY <1>3, <1>4

\* A flush under way.
LEMMA Flushing ==
  ASSUME IInv, NEW f \in Flushers, step[f] = "sending"
  PROVE  /\ f \in Callers /\ f \notin Events /\ step[f] \notin Resting /\ flushed
         /\ todo[f] \in Seq(Events) /\ todo[f] # <<>>
         /\ Head(todo[f]) \in Events /\ Head(todo[f]) \in Range(todo[f])
         /\ Tail(todo[f]) \in Seq(Events)
         /\ Range(todo[f]) = Range(Tail(todo[f])) \cup {Head(todo[f])}
         /\ Range(todo[f]) \subseteq Given
         /\ Sound => /\ IsInjective(todo[f]) /\ IsInjective(Tail(todo[f]))
                     /\ Head(todo[f]) \notin Range(Tail(todo[f]))
         /\ InHand(f) = IF sdk = "rust" THEN Range(todo[f]) ELSE {}
         /\ Sound /\ sdk # "rust" =>
              /\ Range(todo[f]) \subseteq Range(retry) /\ sdk # "csharp"
              /\ \A d \in Callers : d # f => step[d] \in Resting
<1>1. f \in Callers /\ f \notin Events /\ step[f] \notin Resting /\ step[f] # "idle"
  BY CallerTransportAssumption DEF Callers, Resting
<1>2. /\ Types /\ Alone /\ NotFlushing /\ OnlyGiven /\ (Sound => Promised)
      /\ todo[f] \in Seq(Events) /\ todo[f] # <<>>
  BY <1>1 DEF IInv, Types
<1>3. flushed /\ Range(todo[f]) \subseteq Given
  BY <1>1, <1>2 DEF NotFlushing, OnlyGiven
<1>4. Sound => IsInjective(todo[f])
  BY <1>1, <1>2 DEF Promised, Distinct
<1>5. ASSUME Sound, sdk # "rust"
      PROVE  /\ Range(todo[f]) \subseteq Range(retry) /\ sdk # "csharp"
             /\ \A d \in Callers : d # f => step[d] \in Resting
  <2>1. sdk # "csharp" /\ ~overlapped
    BY <1>2, <1>3, <1>5, SoundCases DEF Types
  <2>2. Range(todo[f]) \subseteq Range(retry)
    BY <1>2, <1>5 DEF Promised, Copied
  <2> QED
    BY <1>1, <1>2, <2>1, <2>2 DEF Alone
<1> QED
  BY <1>1, <1>2, <1>3, <1>4, <1>5, HeadAndTail, Hands

LEMMA FlushFailKept ==
  ASSUME IInv, NEW f \in Flushers, FlushFail(f)
  PROVE  IInv'
<1> DEFINE ev == Head(todo[f])
<1>1. /\ step[f] = "sending" /\ Advance(f)
      /\ sdk = "rust" => Push(ev)
      /\ sdk # "rust" => retry' = retry
      /\ UNCHANGED <<sdk, seen, acked, flushed, overlapped>>
  BY DEF FlushFail
<1>2. /\ Types /\ Alone /\ NotFlushing /\ Bounded /\ OnlyGiven /\ SeenIsHeld
      /\ (Sound => Promised) /\ retry \in Seq(Events)
  BY DEF IInv, Types
<1>3. /\ f \in Callers /\ f \notin Events /\ step[f] \notin Resting /\ flushed
      /\ ev \in Events /\ ev \in Range(todo[f])
      /\ Range(todo[f]) = Range(Tail(todo[f])) \cup {ev}
      /\ Range(todo[f]) \subseteq Given
  BY <1>1, Flushing
<1>4. /\ Moves(f) /\ todo'[f] = Tail(todo[f]) /\ step'[f] \in {"done", "sending"}
  BY <1>1, <1>2, <1>3, AdvanceMoves
<1>5. /\ Given \subseteq Given'
      /\ InHand(f)' = IF sdk = "rust" THEN Range(Tail(todo[f])) ELSE {}
  BY <1>2, <1>3, <1>4, GivenGrows
<1> HIDE DEF ev
<1>6. /\ retry' \in Seq(Events)
      /\ Range(retry') \subseteq Range(retry) \cup (IF sdk = "rust" THEN {ev} ELSE {})
      /\ Len(retry) <= MAX_RETRY_BUFFER => Len(retry') <= MAX_RETRY_BUFFER
      /\ IsInjective(retry) /\ Separate(Range(retry))
         => IsInjective(retry') /\ Separate(Range(retry'))
  <2>1. CASE sdk = "rust"
    BY <1>1, <1>2, <1>3, <2>1, PushEffect
  <2>2. CASE sdk # "rust"
    BY <1>1, <1>2, <2>2
  <2> QED
    BY <2>1, <2>2
<1>7. Types' /\ Alone' /\ NotFlushing' /\ OnlyGiven'
  <2>1. /\ Range(retry') \subseteq Given' /\ acked' \subseteq Given'
        /\ Range(todo'[f]) \subseteq Given'
        /\ acked' \subseteq Events /\ seen' \subseteq Fingerprints
    BY <1>1, <1>2, <1>3, <1>4, <1>5, <1>6 DEF OnlyGiven, Types
  <2> QED
    BY <1>1, <1>2, <1>3, <1>4, <1>6, <2>1, CallsKept
<1>8. Bounded'
  <2>1. sdk # "java" \/ ~overlapped' => Len(retry') <= MAX_RETRY_BUFFER
    BY <1>1, <1>2, <1>6 DEF Bounded
  <2>2. sdk = "java" => retry' = retry
    BY <1>1
  <2>3. \A d \in Events : step'[d] = step[d]
    BY <1>3, <1>4 DEF Moves, Callers
  <2> QED
    BY <1>1, <1>2, <2>1, <2>2, <2>3 DEF Bounded
<1>9. SeenIsHeld'
  <2>1. sdk # "rust" => FingerprintsOf(retry)' = FingerprintsOf(retry)
    BY <1>1 DEF FingerprintsOf
  <2> QED
    BY <1>1, <1>2, <2>1 DEF SeenIsHeld
<1>10. ASSUME Sound'
       PROVE  Promised'
  <2>1. Sound
    BY <1>2, <1>3, <1>4, <1>10, SoundStep
  <2>2. Promised /\ Distinct /\ InOneHand /\ HeldIsSeen
    BY <1>2, <2>1 DEF Promised
  <2>3. /\ IsInjective(todo'[f]) /\ ev \notin Range(Tail(todo[f]))
        /\ InHand(f) = IF sdk = "rust" THEN Range(todo[f]) ELSE {}
        /\ sdk # "rust" => Range(todo[f]) \subseteq Range(retry)
        /\ step[f] # "added"
    BY <1>1, <1>4, <2>1, Flushing DEF ev
  <2>4. /\ InHand(f) \cap Range(retry) = {} /\ InHand(f) \cap acked = {}
        /\ Range(retry) \cap acked = {}
        /\ IsInjective(retry') /\ Separate(Range(retry'))
    BY <1>3, <1>6, <2>2, <2>3 DEF InOneHand, Distinct
  <2>5. /\ InHand(f)' \subseteq InHand(f) \cup Range(retry) \cup acked \cup NewIn(f)
        /\ Range(retry') \subseteq InHand(f) \cup Range(retry) \cup acked \cup NewIn(f)
        /\ acked' \subseteq InHand(f) \cup Range(retry) \cup acked \cup NewIn(f)
        /\ InHand(f)' \cap acked' = {} /\ InHand(f)' \cap Range(retry') = {}
        /\ Range(retry') \cap acked' = {}
    <3>1. CASE sdk = "rust"
      BY <1>1, <1>3, <1>5, <1>6, <2>3, <2>4, <3>1
    <3>2. CASE sdk # "rust"
      BY <1>1, <1>5, <1>6, <2>4, <3>2
    <3> QED
      BY <3>1, <3>2
  <2>6. sdk # "rust" => Range(todo'[f]) \subseteq Range(retry')
    BY <1>1, <1>3, <1>4, <2>3
  <2>7. sdk \in {"browser", "csharp"} => FingerprintsOf(retry') \subseteq seen'
    BY <1>1, <2>2 DEF HeldIsSeen
  <2>8. sdk = "java" => \A x \in Range(retry') : FingerprintOf[x] \in seen'
    <3>1. \A d \in Events : step[d] # "added"
      BY <1>2, <1>3, <1>4, <1>10, SoundStep DEF Callers
    <3> QED
      BY <1>1, <2>2, <3>1 DEF HeldIsSeen
  <2>9. step'[f] # "added" /\ step'[f] # "copied" /\ step'[f] \notin {"checked", "evicted"}
    BY <1>4
  <2> QED
    BY <1>2, <1>3, <1>4, <1>10, <2>2, <2>3, <2>4, <2>5, <2>6, <2>7, <2>8, <2>9, PromisesKept
<1> QED
  BY <1>7, <1>8, <1>9, <1>10 DEF IInv

LEMMA FlushOkEffect ==
  ASSUME IInv, NEW f \in Flushers, FlushOk(f)
  PROVE  /\ step[f] = "sending" /\ Advance(f)
         /\ acked' = acked \cup {Head(todo[f])}
         /\ seen' = seen \ {FingerprintOf[Head(todo[f])]}
         /\ UNCHANGED <<sdk, flushed, overlapped>>
         /\ retry' \in Seq(Events) /\ Range(retry') \subseteq Range(retry) /\ Len(retry') <= Len(retry)
         /\ IsInjective(retry) => IsInjective(retry')
         /\ sdk \in {"browser", "java"} =>
              /\ Range(retry) \ {Head(todo[f])} \subseteq Range(retry')
              /\ IsInjective(retry) => Head(todo[f]) \notin Range(retry')
         /\ sdk = "rust" => retry' = retry
<1> DEFINE ev == Head(todo[f])
<1>1. retry \in Seq(Events) /\ Len(retry) \in Nat /\ sdk \in {"browser", "java", "csharp", "rust"}
  BY LenProperties DEF IInv, Types
<1>2. /\ step[f] = "sending" /\ Advance(f) /\ acked' = acked \cup {ev}
      /\ seen' = seen \ {FingerprintOf[ev]} /\ UNCHANGED <<sdk, flushed, overlapped>>
  BY DEF FlushOk
<1>3. /\ sdk \in {"browser", "java"} => retry' = RemoveFirst(retry, ev)
      /\ sdk = "csharp" => retry' = IF retry = <<>> THEN retry ELSE Tail(retry)
      /\ sdk = "rust" => retry' = retry
  <2> DEFINE r == CASE sdk \in {"browser", "java"} -> RemoveFirst(retry, ev)
                    [] sdk = "csharp" -> IF retry = <<>> THEN retry ELSE Tail(retry)
                    [] sdk = "rust" -> retry
  <2>1. retry' = r
    BY DEF FlushOk
  <2>2. /\ sdk = "browser" => r = RemoveFirst(retry, ev)
        /\ sdk = "java" => r = RemoveFirst(retry, ev)
    OBVIOUS
  <2>3. sdk = "csharp" => r = IF retry = <<>> THEN retry ELSE Tail(retry)
    OBVIOUS
  <2>4. sdk = "rust" => r = retry
    OBVIOUS
  <2> HIDE DEF r
  <2> QED
    BY <2>1, <2>2, <2>3, <2>4
<1> HIDE DEF ev
<1>4. CASE sdk \in {"browser", "java"}
  <2>1. retry' = RemoveFirst(retry, ev)
    BY <1>3, <1>4
  <2>2. /\ retry' \in Seq(Events) /\ Range(retry') \subseteq Range(retry) /\ Len(retry') <= Len(retry)
        /\ Range(retry) \ {ev} \subseteq Range(retry')
        /\ IsInjective(retry) => IsInjective(retry') /\ ev \notin Range(retry')
    BY <1>1, <2>1, Removed
  <2> QED
    BY <1>2, <1>4, <2>2 DEF ev
<1>5. CASE sdk = "csharp" /\ retry # <<>>
  <2>1. retry' = Tail(retry)
    BY <1>3, <1>5
  <2>2. /\ retry' \in Seq(Events) /\ Range(retry') \subseteq Range(retry) /\ Len(retry') = Len(retry) - 1
        /\ IsInjective(retry) => IsInjective(retry')
    BY <1>1, <1>5, <2>1, HeadAndTail
  <2>3. Len(retry') <= Len(retry)
    BY <1>1, <2>2
  <2> QED
    BY <1>2, <1>5, <2>2, <2>3 DEF ev
<1>6. CASE sdk = "rust" \/ (sdk = "csharp" /\ retry = <<>>)
  <2>1. retry' = retry
    BY <1>3, <1>6
  <2> QED
    BY <1>1, <1>2, <1>6, <2>1 DEF ev
<1> QED
  BY <1>1, <1>4, <1>5, <1>6

LEMMA FlushOkKept ==
  ASSUME IInv, NEW f \in Flushers, FlushOk(f)
  PROVE  IInv'
<1> DEFINE ev == Head(todo[f])
<1>1. /\ step[f] = "sending" /\ Advance(f)
      /\ acked' = acked \cup {ev} /\ seen' = seen \ {FingerprintOf[ev]}
      /\ UNCHANGED <<sdk, flushed, overlapped>>
      /\ retry' \in Seq(Events) /\ Range(retry') \subseteq Range(retry) /\ Len(retry') <= Len(retry)
      /\ IsInjective(retry) => IsInjective(retry')
      /\ sdk \in {"browser", "java"} =>
           /\ Range(retry) \ {ev} \subseteq Range(retry')
           /\ IsInjective(retry) => ev \notin Range(retry')
      /\ sdk = "rust" => retry' = retry
  BY FlushOkEffect
<1>2. /\ Types /\ Alone /\ NotFlushing /\ Bounded /\ OnlyGiven /\ SeenIsHeld
      /\ (Sound => Promised) /\ retry \in Seq(Events)
      /\ Len(retry) \in Nat /\ MAX_RETRY_BUFFER \in Nat
  BY LenProperties, CallerTransportAssumption DEF IInv, Types
<1>3. /\ f \in Callers /\ f \notin Events /\ step[f] \notin Resting /\ flushed
      /\ ev \in Events /\ ev \in Range(todo[f])
      /\ Range(todo[f]) = Range(Tail(todo[f])) \cup {ev}
      /\ Range(todo[f]) \subseteq Given
  BY <1>1, Flushing
<1>4. /\ Moves(f) /\ todo'[f] = Tail(todo[f]) /\ step'[f] \in {"done", "sending"}
  BY <1>1, <1>2, <1>3, AdvanceMoves
<1>5. /\ Given \subseteq Given'
      /\ InHand(f)' = IF sdk = "rust" THEN Range(Tail(todo[f])) ELSE {}
  BY <1>2, <1>3, <1>4, GivenGrows
<1> HIDE DEF ev
<1>6. Types' /\ Alone' /\ NotFlushing' /\ OnlyGiven'
  <2>1. /\ Range(retry') \subseteq Given' /\ acked' \subseteq Given'
        /\ Range(todo'[f]) \subseteq Given'
        /\ acked' \subseteq Events /\ seen' \subseteq Fingerprints
    BY <1>1, <1>2, <1>3, <1>4, <1>5 DEF OnlyGiven, Types
  <2> QED
    BY <1>1, <1>2, <1>3, <1>4, <2>1, CallsKept
<1>7. Bounded'
  <2>1. Len(retry') \in Nat /\ Len(retry') <= Len(retry)
    BY <1>1, LenProperties
  <2>2. \A d \in Events : step'[d] = step[d]
    BY <1>3, <1>4 DEF Moves, Callers
  <2>3. sdk # "java" \/ ~overlapped => Len(retry') <= MAX_RETRY_BUFFER
    BY <1>2, <2>1 DEF Bounded
  <2>4. ASSUME sdk = "java" /\ ~overlapped, NEW d \in Events, step[d] = "evicted"
        PROVE  Len(retry') < MAX_RETRY_BUFFER
    <3>1. Len(retry) < MAX_RETRY_BUFFER
      BY <1>2, <2>4 DEF Bounded
    <3> QED
      BY <1>2, <2>1, <3>1
  <2> QED
    BY <1>1, <2>2, <2>3, <2>4 DEF Bounded
<1>8. SeenIsHeld'
  <2> SUFFICES ASSUME sdk = "browser", NEW k \in seen, k # FingerprintOf[ev]
               PROVE  k \in FingerprintsOf(retry')
    BY <1>1, <1>3 DEF SeenIsHeld, FingerprintsOf
  <2>1. PICK x \in Range(retry) : k = FingerprintOf[x]
    BY <1>2 DEF SeenIsHeld, FingerprintsOf
  <2>2. x \in Range(retry')
    BY <1>1, <2>1
  <2> QED
    BY <2>1, <2>2 DEF FingerprintsOf
<1>9. ASSUME Sound'
       PROVE  Promised'
  <2>1. Sound
    BY <1>2, <1>3, <1>4, <1>9, SoundStep
  <2>2. Promised /\ Distinct /\ InOneHand /\ HeldIsSeen
    BY <1>2, <2>1 DEF Promised
  <2>3. /\ IsInjective(todo'[f]) /\ ev \notin Range(Tail(todo[f]))
        /\ InHand(f) = IF sdk = "rust" THEN Range(todo[f]) ELSE {}
        /\ sdk # "rust" =>
             /\ Range(todo[f]) \subseteq Range(retry) /\ sdk # "csharp"
             /\ \A d \in Callers : d # f => step[d] \in Resting
        /\ step[f] # "added"
    BY <1>1, <1>4, <2>1, Flushing DEF ev
  <2>4. sdk # "rust" => sdk \in {"browser", "java"}
    BY <1>2, <2>3 DEF Types
  <2>5. /\ InHand(f) \cap Range(retry) = {} /\ InHand(f) \cap acked = {}
        /\ Range(retry) \cap acked = {}
        /\ IsInjective(retry) /\ Separate(Range(retry))
    BY <1>3, <2>2, <2>3 DEF InOneHand, Distinct
  <2>6. IsInjective(retry') /\ Separate(Range(retry'))
    BY <1>1, <2>5 DEF Separate
  <2>7. sdk # "rust" =>
          /\ ev \in Range(retry) /\ ev \notin Range(retry')
          /\ Range(retry') = Range(retry) \ {ev}
    BY <1>1, <1>3, <2>3, <2>4, <2>5
  <2>8. /\ InHand(f)' \subseteq InHand(f) \cup Range(retry) \cup acked \cup NewIn(f)
        /\ Range(retry') \subseteq InHand(f) \cup Range(retry) \cup acked \cup NewIn(f)
        /\ acked' \subseteq InHand(f) \cup Range(retry) \cup acked \cup NewIn(f)
        /\ InHand(f)' \cap acked' = {} /\ InHand(f)' \cap Range(retry') = {}
        /\ Range(retry') \cap acked' = {}
    <3>1. CASE sdk = "rust"
      BY <1>1, <1>3, <1>5, <2>3, <2>5, <3>1
    <3>2. CASE sdk # "rust"
      BY <1>1, <1>5, <2>5, <2>7, <3>2
    <3> QED
      BY <3>1, <3>2
  <2>9. sdk # "rust" => Range(todo'[f]) \subseteq Range(retry')
    BY <1>3, <1>4, <2>3, <2>7
  <2>10. ASSUME sdk # "rust", NEW x \in Range(retry')
         PROVE  FingerprintOf[x] \in seen'
    <3>1. x \in Range(retry) /\ x # ev /\ ev \in Range(retry)
      BY <2>7, <2>10
    <3>2. FingerprintOf[x] # FingerprintOf[ev]
      BY <2>5, <3>1 DEF Separate
    <3>3. FingerprintOf[x] \in seen
      <4>1. CASE sdk = "browser"
        BY <2>2, <3>1, <4>1 DEF HeldIsSeen, FingerprintsOf
      <4>2. CASE sdk = "java"
        <5>1. \A d \in Events : step[d] # "added"
          BY <1>3, <2>3, <4>2 DEF Callers, Resting
        <5> QED
          BY <2>2, <3>1, <4>2, <5>1 DEF HeldIsSeen
      <4> QED
        BY <2>4, <2>10, <4>1, <4>2
    <3> QED
      BY <1>1, <3>2, <3>3
  <2>11. sdk \in {"browser", "csharp"} => FingerprintsOf(retry') \subseteq seen'
    BY <2>10 DEF FingerprintsOf
  <2>12. sdk = "java" => \A x \in Range(retry') : FingerprintOf[x] \in seen'
    BY <2>10
  <2>13. step'[f] # "added" /\ step'[f] # "copied" /\ step'[f] \notin {"checked", "evicted"}
    BY <1>4
  <2> QED
    BY <1>2, <1>3, <1>4, <1>9, <2>2, <2>3, <2>6, <2>8, <2>9, <2>11, <2>12, <2>13, PromisesKept
<1> QED
  BY <1>6, <1>7, <1>8, <1>9 DEF IInv

-----------------------------------------------------------------------------
(* The invariant *)

LEMMA InvariantHolds == Init => IInv
<1> SUFFICES ASSUME Init
             PROVE  IInv
  OBVIOUS
<1>1. /\ sdk \in Sdks /\ retry = <<>> /\ seen = {}
      /\ todo = [c \in Callers |-> <<>>] /\ step = [c \in Callers |-> "idle"]
      /\ acked = {} /\ flushed = FALSE /\ overlapped = FALSE
  BY DEF Init
<1>2. Events \subseteq Callers /\ Flushers \subseteq Callers
  BY DEF Callers
<1>3. retry \in Seq(Events) /\ Range(retry) = {} /\ IsInjective(retry) /\ Len(retry) = 0
  BY <1>1, EmptyBatch
<1>4. \A c \in Callers : todo[c] = <<>> /\ Range(todo[c]) = {} /\ IsInjective(todo[c]) /\ step[c] = "idle"
  BY <1>1, EmptyBatch
<1>5. Types
  <2>1. sdk \in {"browser", "java", "csharp", "rust"}
    BY <1>1, CallerTransportAssumption
  <2>2. todo \in [Callers -> Seq(Events)] /\ step \in [Callers -> Resting \cup JavaSteps \cup {"sending"}]
    BY <1>1, EmptyBatch DEF Resting
  <2>3. \A c \in Callers : step[c] \in Resting /\ step[c] \notin JavaSteps
    BY <1>4 DEF Resting, JavaSteps
  <2>4. flushed \in BOOLEAN /\ overlapped \in BOOLEAN
    BY <1>1, Zenon
  <2> QED
    BY <1>1, <1>3, <1>4, <2>1, <2>2, <2>3, <2>4 DEF Types
<1>6. Alone
  BY <1>4 DEF Alone, Resting
<1>7. NotFlushing
  BY <1>2, <1>4 DEF NotFlushing
<1>8. Bounded
  BY <1>2, <1>3, <1>4, CallerTransportAssumption DEF Bounded
<1>9. OnlyGiven
  BY <1>1, <1>3, <1>4 DEF OnlyGiven
<1>10. SeenIsHeld
  BY <1>1 DEF SeenIsHeld
<1>11. Promised
  <2>1. \A c \in Callers : InHand(c) = {}
    BY <1>4 DEF InHand
  <2>2. Distinct
    BY <1>3, <1>4 DEF Distinct, Separate
  <2>3. InOneHand
    BY <1>3, <1>4, <2>1 DEF InOneHand
  <2>4. Copied
    BY <1>2, <1>4 DEF Copied
  <2>5. HeldIsSeen
    BY <1>2, <1>3, <1>4 DEF HeldIsSeen, FingerprintsOf
  <2> QED
    BY <2>2, <2>3, <2>4, <2>5 DEF Promised
<1> QED
  BY <1>5, <1>6, <1>7, <1>8, <1>9, <1>10, <1>11 DEF IInv

LEMMA StutterKept ==
  ASSUME IInv, UNCHANGED vars
  PROVE  IInv'
<1>1. UNCHANGED <<sdk, retry, seen, todo, step, acked, flushed, overlapped>>
  BY DEF vars
<1>2. /\ Given' = Given /\ FingerprintsOf(retry)' = FingerprintsOf(retry)
      /\ \A c \in Callers : InHand(c)' = InHand(c)
      /\ Sound' = Sound
  BY <1>1 DEF InHand, Given, FingerprintsOf, Sound
<1>3. Types' /\ Alone' /\ NotFlushing' /\ Bounded' /\ OnlyGiven' /\ SeenIsHeld'
  BY <1>1, <1>2 DEF IInv, Types, Alone, NotFlushing, Bounded, OnlyGiven, SeenIsHeld
<1>4. Promised => Distinct' /\ InOneHand' /\ Copied' /\ HeldIsSeen'
  BY <1>1, <1>2 DEF Promised, Distinct, InOneHand, Copied, HeldIsSeen
<1> QED
  BY <1>2, <1>3, <1>4 DEF IInv, Promised

LEMMA InvariantKept == IInv /\ [Next]_vars => IInv'
<1> SUFFICES ASSUME IInv, [Next]_vars
             PROVE  IInv'
  OBVIOUS
<1>1. CASE \E e \in Events : Send(e)
  BY <1>1, SendKept
<1>2. CASE \E e \in Events : RustSend(e)
  BY <1>2, RustSendKept
<1>3. CASE \E e \in Events : JavaSend(e)
  BY <1>3, JavaSendKept
<1>4. CASE \E e \in Events : SendStep(e)
  BY <1>4, JavaClearKept, SendOkKept, SendFailKept, JavaFailKept, JavaEvictKept, JavaAddKept,
     JavaPutKept DEF SendStep
<1>5. CASE \E f \in Flushers : Flush(f)
  BY <1>5, FlushKept
<1>6. CASE \E f \in Flushers : FlushStep(f)
  BY <1>6, FlushOkKept, FlushFailKept DEF FlushStep
<1>7. CASE UNCHANGED vars
  BY <1>7, StutterKept
<1> QED
  BY <1>1, <1>2, <1>3, <1>4, <1>5, <1>6, <1>7 DEF Next

LEMMA InvariantAlways == Spec => []IInv
BY InvariantHolds, InvariantKept, PTL DEF Spec

-----------------------------------------------------------------------------
(* The theorems *)

\* In every SDK, whatever the calls do, the buffer holds no more events than its
\* bound (Java's while calls do not overlap), a call under way has a batch left
\* and one that has returned has none.
THEOREM TypeCorrect == Spec => []TypeOK
<1>1. IInv => TypeOK
  <2> SUFFICES ASSUME IInv
               PROVE  TypeOK
    OBVIOUS
  <2>1. Types /\ (sdk # "java" \/ ~overlapped => Len(retry) <= MAX_RETRY_BUFFER)
    BY DEF IInv, Bounded
  <2>2. \A c \in Callers : (c \in Active) <=> (todo[c] # <<>>)
    BY <2>1 DEF Types, Active, Resting
  <2>3. step \in [Callers -> {"idle", "copied", "sending", "checked", "evicted", "added", "done"}]
    BY <2>1 DEF Types, Resting, JavaSteps
  <2> QED
    BY <2>1, <2>2, <2>3 DEF Types, TypeOK
<1> QED
  BY <1>1, InvariantAlways, PTL

\* While an SDK keeps what its transport promises, the buffer holds one event of
\* a fingerprint, and an event is in the hands of one call, or in the buffer, or
\* acknowledged, and nowhere else: it is not on the wire twice, nor sent again
\* after the endpoint acknowledged it.
THEOREM EventInOneHand == Spec => []OneCopy
<1>1. IInv => OneCopy
  <2> SUFFICES ASSUME IInv, Sound
               PROVE  /\ \A i, j \in DOMAIN retry :
                           FingerprintOf[retry[i]] = FingerprintOf[retry[j]] => i = j
                      /\ Owned \cap acked = {}
                      /\ \A c, d \in Callers : c # d => InHand(c) \cap InHand(d) = {}
                      /\ \A c \in Callers : step[c] # "added" => InHand(c) \cap Range(retry) = {}
    BY DEF OneCopy
  <2>1. Distinct /\ InOneHand
    BY DEF IInv, Promised
  <2>2. ASSUME NEW i \in DOMAIN retry, NEW j \in DOMAIN retry,
               FingerprintOf[retry[i]] = FingerprintOf[retry[j]]
        PROVE  i = j
    <3>1. retry[i] = retry[j]
      BY <2>1, <2>2 DEF Distinct, Separate, Range
    <3> QED
      BY <2>1, <3>1 DEF Distinct, IsInjective
  <2>3. Owned \cap acked = {}
    BY <2>1 DEF InOneHand, Owned
  <2> QED
    BY <2>1, <2>2, <2>3 DEF InOneHand
<1> QED
  BY <1>1, InvariantAlways, PTL

-----------------------------------------------------------------------------
(* What a step may lose *)

\* Only the call that moves and the buffer can let go of an event.
LEMMA LostFromHand ==
  ASSUME Types, NEW c \in Callers, Moves(c), NEW x \in Lost
  PROVE  /\ x \in Range(retry) \cup InHand(c)
         /\ x \notin Range(retry') /\ x \notin InHand(c)' /\ x \notin acked'
<1>1. x \in Owned /\ x \notin Owned' /\ x \notin acked'
  BY DEF Lost
<1>2. x \notin Range(retry') /\ \A d \in Callers : x \notin InHand(d)'
  BY <1>1 DEF Owned, Callers
<1>3. \A d \in Callers : d # c => InHand(d)' = InHand(d)
  BY DEF InHand, Moves
<1> QED
  BY <1>1, <1>2, <1>3 DEF Owned

LEMMA SendLoses ==
  ASSUME IInv, KeepsUnacked, NEW e \in Events, Send(e) \/ RustSend(e) \/ SendStep(e)
  PROVE  AllowedLoss
<1>1. /\ Types /\ Alone /\ SeenIsHeld /\ retry \in Seq(Events)
      /\ e \in Callers /\ e \notin Flushers /\ flushed \in BOOLEAN
  BY CallerTransportAssumption DEF IInv, Types, Callers
<1>2. /\ sdk \in {"browser", "csharp", "rust"}
      /\ sdk # "rust" => seen \subseteq FingerprintsOf(retry)
      /\ step[e] \notin JavaSteps
  BY <1>1 DEF KeepsUnacked, SeenIsHeld, Types
<1> SUFFICES ASSUME NEW x \in Lost, x \notin Unserialisable
             PROVE  FingerprintOf[x] \in FingerprintsOf(retry') \/ Len(retry) >= MAX_RETRY_BUFFER
  BY DEF AllowedLoss
<1>3. CASE Send(e)
  <2>1. /\ Begin(e, Append(retry, e), "sending") /\ UNCHANGED <<sdk, flushed>> /\ step[e] = "idle"
    BY <1>3 DEF Send
  <2>2. Append(retry, e) \in Seq(Events) /\ Range(Append(retry, e)) = Range(retry) \cup {e}
    BY <1>1, NextInBatch
  <2>3. Moves(e) /\ todo'[e] = Append(retry, e) /\ step'[e] # "copied"
    BY <1>1, <2>1, <2>2, BeginMoves
  <2>4. InHand(e)' = Range(retry) \cup {e}
    BY <1>1, <2>2, <2>3, GivenGrows
  <2>5. InHand(e) = {}
    BY <1>1, <2>1, EmptyBatch DEF InHand, Types, Resting
  <2> QED
    BY <1>1, <2>3, <2>4, <2>5, LostFromHand
<1>4. CASE RustSend(e)
  <2>1. /\ step[e] = "idle" /\ sdk = "rust" /\ UNCHANGED <<sdk, flushed>>
    BY <1>4 DEF RustSend
  <2>2. InHand(e) = {}
    BY <1>1, <2>1, EmptyBatch DEF InHand, Types, Resting
  <2>3. CASE e \in Unserialisable
    <3>1. Begin(e, <<>>, "sending") /\ retry' = retry
      BY <1>4, <2>3 DEF RustSend
    <3>2. Moves(e)
      BY <1>1, <2>1, <3>1, BeginMoves, EmptyBatch
    <3> QED
      BY <1>1, <2>2, <3>1, <3>2, LostFromHand
  <2>4. CASE e \notin Unserialisable
    <3>1. PICK q \in SetToSeqs(Range(retry)) : Begin(e, Append(q, e), "sending")
      BY <1>4, <2>4 DEF RustSend
    <3>2. q \in Seq(Events) /\ Range(q) = Range(retry)
      BY <1>1, DrainedBatch, BatchRange
    <3>3. Append(q, e) \in Seq(Events) /\ Range(Append(q, e)) = Range(retry) \cup {e}
      BY <3>2, NextInBatch
    <3>4. Moves(e) /\ todo'[e] = Append(q, e) /\ step'[e] # "copied"
      BY <1>1, <2>1, <3>1, <3>3, BeginMoves
    <3>5. InHand(e)' = Range(retry) \cup {e}
      BY <1>1, <3>3, <3>4, GivenGrows
    <3> QED
      BY <1>1, <2>2, <3>4, <3>5, LostFromHand
  <2> QED
    BY <2>3, <2>4
<1>5. CASE SendStep(e)
  <2>1. step[e] = "sending" /\ (SendOk(e) \/ SendFail(e))
    BY <1>2, <1>5 DEF SendStep, JavaClear, SendOk, SendFail, JavaFail, JavaEvict, JavaAdd, JavaPut,
       JavaSteps
  <2>2. step[e] \notin Resting /\ step[e] # "copied"
    BY <2>1 DEF Resting
  <2> DEFINE ev == Head(todo[e])
  <2>3. /\ Range(todo[e]) = Range(Tail(todo[e])) \cup {ev} /\ InHand(e) = Range(todo[e])
        /\ ev \in Events
    BY <2>2, Sending
  <2>4. Advance(e) /\ UNCHANGED <<sdk, flushed, overlapped>>
    BY <2>1 DEF SendOk, SendFail
  <2>5. Moves(e) /\ todo'[e] = Tail(todo[e]) /\ step'[e] # "copied"
    BY <1>1, <2>2, <2>4, AdvanceMoves
  <2>6. InHand(e)' = Range(Tail(todo[e]))
    BY <1>1, <2>5, GivenGrows
  <2>7. x \in Range(retry) \cup {ev} /\ x \notin Range(retry') /\ x \notin acked'
    BY <1>1, <2>3, <2>5, <2>6, LostFromHand
  <2>8. CASE SendOk(e)
    BY <2>7, <2>8 DEF SendOk
  <2>9. CASE SendFail(e) /\ sdk = "rust"
    <3>1. Push(ev)
      BY <2>9 DEF SendFail
    <3> HIDE DEF ev
    <3> QED
      BY <1>1, <2>3, <2>7, <3>1, PushEffect
  <2>10. CASE SendFail(e) /\ sdk # "rust"
    <3>1. Enqueue(ev)
      BY <2>10 DEF SendFail
    <3> HIDE DEF ev
    <3> QED
      BY <1>1, <1>2, <2>3, <2>7, <2>10, <3>1, EnqueueEffect
  <2> QED
    BY <2>1, <2>8, <2>9, <2>10
<1> QED
  BY <1>3, <1>4, <1>5

LEMMA FlushLoses ==
  ASSUME IInv, KeepsUnacked, NEW f \in Flushers, Flush(f) \/ FlushStep(f)
  PROVE  AllowedLoss
<1>1. /\ Types /\ Alone /\ retry \in Seq(Events)
      /\ f \in Callers /\ f \notin Events /\ flushed \in BOOLEAN
  BY CallerTransportAssumption DEF IInv, Types, Callers
<1>2. sdk \in {"browser", "csharp", "rust"} /\ (sdk = "csharp" => ~flushed)
  BY <1>1 DEF KeepsUnacked
<1> SUFFICES ASSUME NEW x \in Lost, x \notin Unserialisable
             PROVE  FingerprintOf[x] \in FingerprintsOf(retry') \/ Len(retry) >= MAX_RETRY_BUFFER
  BY DEF AllowedLoss
<1>3. CASE Flush(f)
  <2>1. step[f] \in Resting /\ flushed' = TRUE /\ sdk' = sdk
    BY <1>3 DEF Flush, Resting
  <2>2. InHand(f) = {}
    BY <1>1, <2>1, EmptyBatch DEF InHand, Types, Resting
  <2>3. CASE sdk = "rust"
    <3>1. PICK q \in SetToSeqs(Range(retry)) : Begin(f, q, "sending")
      BY <1>3, <2>3 DEF Flush
    <3>2. q \in Seq(Events) /\ Range(q) = Range(retry)
      BY <1>1, DrainedBatch, BatchRange
    <3>3. Moves(f) /\ todo'[f] = q /\ step'[f] # "copied"
      BY <1>1, <2>1, <3>1, <3>2, BeginMoves
    <3>4. InHand(f)' = Range(retry)
      BY <1>1, <2>3, <3>2, <3>3, GivenGrows
    <3> QED
      BY <1>1, <2>2, <3>3, <3>4, LostFromHand
  <2>4. CASE sdk # "rust"
    <3>1. Begin(f, retry, "sending") /\ retry' = retry
      BY <1>3, <2>4 DEF Flush
    <3>2. Moves(f)
      BY <1>1, <2>1, <3>1, BeginMoves
    <3> QED
      BY <1>1, <2>2, <3>1, <3>2, LostFromHand
  <2> QED
    BY <2>3, <2>4
<1>4. CASE FlushStep(f)
  <2>1. step[f] = "sending" /\ (FlushOk(f) \/ FlushFail(f))
    BY <1>4 DEF FlushStep, FlushOk, FlushFail
  <2> DEFINE ev == Head(todo[f])
  <2>2. /\ step[f] \notin Resting /\ flushed /\ ev \in Events
        /\ Range(todo[f]) = Range(Tail(todo[f])) \cup {ev}
        /\ InHand(f) = IF sdk = "rust" THEN Range(todo[f]) ELSE {}
    BY <2>1, Flushing
  <2>3. Advance(f) /\ UNCHANGED <<sdk, flushed, overlapped>>
    BY <2>1 DEF FlushOk, FlushFail
  <2>4. Moves(f) /\ todo'[f] = Tail(todo[f]) /\ step'[f] # "copied"
    BY <1>1, <2>2, <2>3, AdvanceMoves
  <2>5. InHand(f)' = IF sdk = "rust" THEN Range(Tail(todo[f])) ELSE {}
    BY <1>1, <2>4, GivenGrows
  <2>6. /\ x \in Range(retry) \/ (sdk = "rust" /\ x = ev)
        /\ x \notin Range(retry') /\ x \notin acked'
    BY <1>1, <2>2, <2>4, <2>5, LostFromHand
  <2>7. CASE FlushOk(f)
    <3>1. /\ acked' = acked \cup {ev}
          /\ sdk = "browser" => Range(retry) \ {ev} \subseteq Range(retry')
          /\ sdk = "rust" => retry' = retry
      BY <2>7, FlushOkEffect
    <3> QED
      BY <1>2, <2>2, <2>6, <3>1
  <2>8. CASE FlushFail(f) /\ sdk = "rust"
    <3>1. Push(ev)
      BY <2>8 DEF FlushFail
    <3> HIDE DEF ev
    <3> QED
      BY <1>1, <2>2, <2>6, <3>1, PushEffect
  <2>9. CASE FlushFail(f) /\ sdk # "rust"
    BY <2>6, <2>9 DEF FlushFail
  <2> QED
    BY <2>1, <2>7, <2>8, <2>9
<1> QED
  BY <1>3, <1>4

\* The browser and Rust, and C# until Flush is called, let go of an event the
\* endpoint has not acknowledged only when its fingerprint is in the buffer,
\* when the buffer was full, or when it cannot be serialised: no interleaving of
\* calls loses one silently.
THEOREM LossExplained == Spec => NoSilentLoss
<1>1. IInv /\ [Next]_vars => [KeepsUnacked => AllowedLoss]_vars
  <2> SUFFICES ASSUME IInv, Next, KeepsUnacked
               PROVE  AllowedLoss
    OBVIOUS
  <2>1. \A e \in Events : ~JavaSend(e)
    BY DEF JavaSend, KeepsUnacked
  <2> QED
    BY <2>1, SendLoses, FlushLoses DEF Next
<1> QED
  BY <1>1, InvariantAlways, PTL DEF Spec, NoSilentLoss

=============================================================================
