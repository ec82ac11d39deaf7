--------------------------- MODULE CallerTransport ---------------------------
(***************************************************************************)
(* The transports that send in the caller's own thread: the browser SDK    *)
(* (src/browser-v2/transport.ts), Java (Transport.java), C# (Capture.cs)   *)
(* and Rust (rust/src/transport.rs).  A send takes the whole retry buffer, *)
(* adds its event, tries them in turn and buffers those that fail.  Calls  *)
(* of send and flush overlap: other promises in the browser, other threads *)
(* elsewhere.                                                              *)
(*                                                                         *)
(* A step is what no other call can cut in two: the code between two       *)
(* awaits, a critical section, or, in Java, where nothing is locked, one   *)
(* operation on a concurrent collection (the eviction and the removal      *)
(* after a flush touch two collections in one step).  A request is folded  *)
(* into the step that reads its result.  The endpoint is external.         *)
(***************************************************************************)
EXTENDS Naturals, Sequences, FiniteSets, Functions, SequencesExt

CONSTANTS
  Sdks,             \* the SDKs under study
  Events, FingerprintOf, Unserialisable,
  MAX_RETRY_BUFFER, \* the 30 of every SDK
  Flushers,         \* the callers of flush
  MaxCalls          \* how many calls the application makes at a time

ASSUME CallerTransportAssumption ==
  /\ Sdks \subseteq {"browser", "java", "csharp", "rust"}
  /\ IsFiniteSet(Events)
  /\ DOMAIN FingerprintOf = Events
  /\ Unserialisable \subseteq Events
  /\ MAX_RETRY_BUFFER \in Nat \ {0}
  /\ Flushers \cap Events = {}
  /\ MaxCalls \in Nat \ {0}

VARIABLES
  sdk,        \* which SDK this is
  retry,      \* the retry buffer
  seen,       \* the fingerprints it is believed to hold (Rust keeps none)
  todo,       \* what is left of the batch of each call, head on the wire
  step,       \* where each call stands; an event names the call that sends it
  acked,      \* events the endpoint acknowledged
  flushed,    \* history: flush has been called
  overlapped  \* history: two calls have been under way at once

vars == <<sdk, retry, seen, todo, step, acked, flushed, overlapped>>

Callers == Events \cup Flushers
Active == {c \in Callers : step[c] \notin {"idle", "done"}}
Fingerprints == {FingerprintOf[e] : e \in Events}
FingerprintsOf(q) == {FingerprintOf[e] : e \in Range(q)}

\* In Java the buffer keeps its bound only while calls do not overlap, for size
\* and add are two operations (Transport.java:93-97).
TypeOK ==
  /\ sdk \in Sdks
  /\ retry \in Seq(Events)
  /\ sdk # "java" \/ ~overlapped => Len(retry) <= MAX_RETRY_BUFFER
  /\ seen \subseteq Fingerprints
  /\ todo \in [Callers -> Seq(Events)]
  /\ step \in [Callers -> {"idle", "copied", "sending", "checked", "evicted", "added",
                           "done"}]
  /\ \A c \in Callers : (c \in Active) <=> (todo[c] # <<>>)
  /\ acked \subseteq Events
  /\ flushed \in BOOLEAN /\ overlapped \in BOOLEAN

Init ==
  /\ sdk \in Sdks
  /\ retry = <<>>
  /\ seen = {}
  /\ todo = [c \in Callers |-> <<>>]
  /\ step = [c \in Callers |-> "idle"]
  /\ acked = {}
  /\ flushed = FALSE
  /\ overlapped = FALSE

-----------------------------------------------------------------------------
(* Helpers *)

\* Call c starts with the batch q.
Begin(c, q, at) ==
  /\ Cardinality(Active) < MaxCalls
  /\ todo' = [todo EXCEPT ![c] = q]
  /\ step' = [step EXCEPT ![c] = IF q = <<>> THEN "done" ELSE at]
  /\ overlapped' = (overlapped \/ (Active \ {c} # {} /\ q # <<>>))

\* Call c goes on with its next event, or returns.
Advance(c) ==
  /\ todo' = [todo EXCEPT ![c] = Tail(@)]
  /\ step' = [step EXCEPT ![c] = IF Len(todo[c]) = 1 THEN "done" ELSE "sending"]

StayAt(c, s) ==
  /\ step' = [step EXCEPT ![c] = s]
  /\ UNCHANGED todo

\* Mutation: the buffer evicts one event too late.
EnqueueLate(e) ==
  IF FingerprintOf[e] \in seen
  THEN UNCHANGED <<retry, seen>>
  ELSE LET full == Len(retry) > MAX_RETRY_BUFFER
       IN  /\ retry' = Append(IF full THEN Tail(retry) ELSE retry, e)
           /\ seen' = (IF full THEN seen \ {FingerprintOf[Head(retry)]} ELSE seen)
                        \cup {FingerprintOf[e]}

\* enqueue of the browser and of C#: the oldest event makes room.
Enqueue(e) ==
  IF FingerprintOf[e] \in seen
  THEN UNCHANGED <<retry, seen>>
  ELSE LET full == Len(retry) >= MAX_RETRY_BUFFER
       IN  /\ retry' = Append(IF full THEN Tail(retry) ELSE retry, e)
           /\ seen' = (IF full THEN seen \ {FingerprintOf[Head(retry)]} ELSE seen)
                        \cup {FingerprintOf[e]}

\* RetryBuffer::push of Rust: an equal key is replaced, a full map is cleared.
Push(e) ==
  LET fp == FingerprintOf[e]
  IN  retry' = IF fp \in FingerprintsOf(retry)
               THEN [i \in DOMAIN retry |-> IF FingerprintOf[retry[i]] = fp THEN e ELSE retry[i]]
               ELSE IF Len(retry) >= MAX_RETRY_BUFFER THEN <<e>>
               ELSE Append(retry, e)

-----------------------------------------------------------------------------
(* send *)

\* Mutation: the fingerprints are not forgotten with the events.
SendKeepsSeen(e) ==
  /\ step[e] = "idle"
  /\ sdk \in {"browser", "csharp"}
  /\ retry' = <<>>
  /\ UNCHANGED <<seen, sdk, acked, flushed>>
  /\ Begin(e, Append(retry, e), "sending")

\* The browser and C#: take the buffer, forget the fingerprints.
Send(e) ==
  /\ step[e] = "idle"
  /\ sdk \in {"browser", "csharp"}
  /\ retry' = <<>>
  /\ seen' = {}
  /\ UNCHANGED <<sdk, acked, flushed>>
  /\ Begin(e, Append(retry, e), "sending")

\* Rust: an event that cannot be serialised ends the call; otherwise drain the
\* map, in whatever order it yields.
RustSend(e) ==
  /\ step[e] = "idle"
  /\ sdk = "rust"
  /\ UNCHANGED <<sdk, seen, acked, flushed>>
  /\ IF e \in Unserialisable
     THEN Begin(e, <<>>, "sending") /\ UNCHANGED retry
     ELSE \E q \in SetToSeqs(Range(retry)) :
            Begin(e, Append(q, e), "sending") /\ retry' = <<>>

\* Java copies the buffer and then clears it, the fingerprints staying behind.
JavaSend(e) ==
  /\ step[e] = "idle"
  /\ sdk = "java"
  /\ UNCHANGED <<sdk, retry, seen, acked, flushed>>
  /\ Begin(e, Append(retry, e), "copied")

JavaClear(e) ==
  /\ step[e] = "copied"
  /\ retry' = <<>>
  /\ StayAt(e, "sending")
  /\ UNCHANGED <<sdk, seen, acked, flushed, overlapped>>

SendOk(e) ==
  /\ step[e] = "sending"
  /\ Head(todo[e]) \notin Unserialisable
  /\ acked' = acked \cup {Head(todo[e])}
  /\ Advance(e)
  /\ UNCHANGED <<sdk, retry, seen, flushed, overlapped>>

\* Mutation: the failed event stays at the head of the batch.
SendFailStays(e) ==
  /\ step[e] = "sending"
  /\ sdk # "java"
  /\ IF sdk = "rust" THEN Push(Head(todo[e])) /\ UNCHANGED seen ELSE Enqueue(Head(todo[e]))
  /\ UNCHANGED <<sdk, todo, step, acked, flushed, overlapped>>

\* A failed request, or, but for Rust, an event that cannot be serialised.
SendFail(e) ==
  /\ step[e] = "sending"
  /\ sdk # "java"
  /\ IF sdk = "rust" THEN Push(Head(todo[e])) /\ UNCHANGED seen ELSE Enqueue(Head(todo[e]))
  /\ Advance(e)
  /\ UNCHANGED <<sdk, acked, flushed, overlapped>>

\* Java's enqueue, one collection operation at a time.
JavaFail(e) ==
  /\ step[e] = "sending"
  /\ sdk = "java"
  /\ IF FingerprintOf[Head(todo[e])] \in seen THEN Advance(e) ELSE StayAt(e, "checked")
  /\ UNCHANGED <<sdk, retry, seen, acked, flushed, overlapped>>

JavaEvict(e) ==
  /\ step[e] = "checked"
  /\ IF Len(retry) >= MAX_RETRY_BUFFER
     THEN /\ retry' = Tail(retry)
          /\ seen' = seen \ {FingerprintOf[Head(retry)]}
     ELSE UNCHANGED <<retry, seen>>
  /\ StayAt(e, "evicted")
  /\ UNCHANGED <<sdk, acked, flushed, overlapped>>

JavaAdd(e) ==
  /\ step[e] = "evicted"
  /\ retry' = Append(retry, Head(todo[e]))
  /\ StayAt(e, "added")
  /\ UNCHANGED <<sdk, seen, acked, flushed, overlapped>>

JavaPut(e) ==
  /\ step[e] = "added"
  /\ seen' = seen \cup {FingerprintOf[Head(todo[e])]}
  /\ Advance(e)
  /\ UNCHANGED <<sdk, retry, acked, flushed, overlapped>>

-----------------------------------------------------------------------------
(* flush *)

\* A snapshot, but for Rust, which drains the map as send does.
Flush(f) ==
  /\ step[f] \in {"idle", "done"}
  /\ flushed' = TRUE
  /\ IF sdk = "rust"
     THEN \E q \in SetToSeqs(Range(retry)) : Begin(f, q, "sending") /\ retry' = <<>>
     ELSE Begin(f, retry, "sending") /\ UNCHANGED retry
  /\ UNCHANGED <<sdk, seen, acked>>

\* Mutation: a delivered event is left in the buffer.
FlushOkLeaves(f) ==
  /\ step[f] = "sending"
  /\ Head(todo[f]) \notin Unserialisable
  /\ acked' = acked \cup {Head(todo[f])}
  /\ Advance(f)
  /\ UNCHANGED <<sdk, retry, seen, flushed, overlapped>>

\* The event was delivered: the browser and Java take it out of the buffer if it
\* is there still, C# takes out whichever event is first.
FlushOk(f) ==
  LET ev == Head(todo[f])
  IN  /\ step[f] = "sending"
      /\ ev \notin Unserialisable
      /\ acked' = acked \cup {ev}
      /\ retry' = CASE sdk \in {"browser", "java"} -> RemoveFirst(retry, ev)
                    [] sdk = "csharp" -> IF retry = <<>> THEN retry ELSE Tail(retry)
                    [] sdk = "rust" -> retry
      /\ seen' = seen \ {FingerprintOf[ev]}
      /\ Advance(f)
      /\ UNCHANGED <<sdk, flushed, overlapped>>

FlushFail(f) ==
  /\ step[f] = "sending"
  /\ IF sdk = "rust" THEN Push(Head(todo[f])) ELSE UNCHANGED retry
  /\ Advance(f)
  /\ UNCHANGED <<sdk, seen, acked, flushed, overlapped>>

-----------------------------------------------------------------------------

SendStep(e) ==
  \/ JavaClear(e)
  \/ SendOk(e)
  \/ SendFail(e)
  \/ JavaFail(e)
  \/ JavaEvict(e)
  \/ JavaAdd(e)
  \/ JavaPut(e)

FlushStep(f) == FlushOk(f) \/ FlushFail(f)

Next ==
  \/ \E e \in Events : Send(e)
  \/ \E e \in Events : RustSend(e)
  \/ \E e \in Events : JavaSend(e)
  \/ \E e \in Events : SendStep(e)
  \/ \E f \in Flushers : Flush(f)
  \/ \E f \in Flushers : FlushStep(f)

Spec == Init /\ [][Next]_vars

\* Requests settle, and threads and promises run on.
Fairness ==
  /\ \A e \in Events : WF_vars(SendStep(e))
  /\ \A f \in Flushers : WF_vars(FlushStep(f))

FairSpec == Spec /\ Fairness

-----------------------------------------------------------------------------
(* Properties *)

\* The histories under which an SDK keeps what its transport promises: Rust's
\* always; the browser's unless a flush overlapped another call; C#'s until a
\* flush, which removes the wrong event; Java's until two calls overlap.
Sound ==
  CASE sdk = "rust" -> TRUE
    [] sdk = "browser" -> ~(flushed /\ overlapped)
    [] sdk = "csharp" -> ~flushed
    [] sdk = "java" -> ~overlapped

\* The events a call is answerable for: all of its batch, but for a flush that
\* works from a snapshot, and none before Java's copy has cleared the buffer.
InHand(c) ==
  IF c \in Flushers /\ sdk # "rust" THEN {}
  ELSE IF step[c] = "copied" THEN {c} ELSE Range(todo[c])

Owned == Range(retry) \cup UNION {InHand(c) : c \in Callers}

\* No event is on the wire twice at a time, or again after its acknowledgement,
\* or both with a call and in the buffer for the next one; and the buffer is
\* "deduped by fingerprint" (browser-v2/transport.ts:30, Transport.java:19).
OneCopy ==
  Sound =>
    /\ \A i, j \in DOMAIN retry :
         FingerprintOf[retry[i]] = FingerprintOf[retry[j]] => i = j
    /\ Owned \cap acked = {}
    /\ \A c, d \in Callers : c # d => InHand(c) \cap InHand(d) = {}
    /\ \A c \in Callers : step[c] # "added" => InHand(c) \cap Range(retry) = {}

\* An event leaves the SDK unacknowledged only when one of its fingerprint is in
\* the buffer, when the buffer was full, or when it cannot be serialised.  The
\* browser and Rust always keep to it, C# until Flush is called.
Lost == Owned \ (Owned' \cup acked')

AllowedLoss ==
  \A e \in Lost :
    \/ e \in Unserialisable
    \/ FingerprintOf[e] \in FingerprintsOf(retry')
    \/ Len(retry) >= MAX_RETRY_BUFFER

KeepsUnacked == sdk \in {"browser", "rust"} \/ (sdk = "csharp" /\ ~flushed)

NoSilentLoss == [][KeepsUnacked => AllowedLoss]_vars

\* Every call of send and of flush returns, though its failures refill the
\* buffer it drained.
CallsReturn == \A c \in Callers : c \in Active ~> c \notin Active

\* Transport.java:18-19 promises "a bounded retry buffer (30 entries, dedup by
\* fingerprint)" that mirrors the Node SDK's.  send empties the buffer and not
\* "seen", so a second failure drops the event from a buffer with room.
NoSilentLossEver == [][AllowedLoss]_vars

=============================================================================
