---------------------------- MODULE SessionRecorder ----------------------------
(***************************************************************************)
(* Browser session recording, src/src/session.ts: initSession awaits the   *)
(* import of rrweb, whose recorder then calls emit for every interaction;  *)
(* a navigation awaits another import before it is pushed.                 *)
(***************************************************************************)
EXTENDS Naturals, Sequences, SequencesExt, FiniteSets

CONSTANTS
  SessionInits,   \* calls of initSession
  Interactions,   \* clicks and inputs
  Navigations,    \* Meta events
  MaxEvents,      \* maxEvents
  MaxSeconds,     \* maxSeconds
  MaxClock        \* bound: seconds

ASSUME SessionRecorderAssumption ==
  /\ IsFiniteSet(SessionInits) /\ Interactions \cap Navigations = {}
  /\ MaxEvents \in Nat \ {0} /\ MaxSeconds \in Nat /\ MaxClock \in Nat

VARIABLES
  sessionActive,
  initStage,       \* where each call of initSession stands
  sessionBuffer,   \* what was recorded, by which recorder, and when
  scrubbing,       \* emits of navigations that await their import
  happened,        \* the interactions so far, in order
  clock,
  initsOverlapped  \* history: an initSession began while another awaited rrweb

recorderVars == <<sessionActive, initStage, sessionBuffer, scrubbing, happened, clock,
                  initsOverlapped>>

SessionEvents == [what : Interactions \cup Navigations, by : SessionInits,
                  timestamp : 0..MaxClock]

RecorderTypeOK ==
  /\ sessionActive \in BOOLEAN /\ initsOverlapped \in BOOLEAN
  /\ initStage \in [SessionInits -> {"new", "importing", "recording", "failed"}]
  /\ sessionBuffer \in Seq(SessionEvents)
  /\ scrubbing \subseteq SessionInits \X Navigations
  /\ happened \in Seq(Interactions \cup Navigations) /\ clock \in 0..MaxClock

RecorderInit ==
  /\ sessionActive = FALSE /\ initsOverlapped = FALSE
  /\ initStage = [i \in SessionInits |-> "new"]
  /\ sessionBuffer = <<>> /\ scrubbing = {} /\ happened = <<>> /\ clock = 0

Recorders == {i \in SessionInits : initStage[i] = "recording"}

MayInit == ~sessionActive

InitSession(i) ==
  /\ initStage[i] = "new" /\ MayInit
  /\ initStage' = [initStage EXCEPT ![i] = "importing"]
  /\ initsOverlapped' = (initsOverlapped \/ \E j \in SessionInits : initStage[j] = "importing")
  /\ UNCHANGED <<sessionActive, sessionBuffer, scrubbing, happened, clock>>

\* ok: rrweb is installed and has record.
RrwebImported(i, ok) ==
  /\ initStage[i] = "importing"
  /\ initStage' = [initStage EXCEPT ![i] = IF ok THEN "recording" ELSE "failed"]
  /\ sessionActive' = (sessionActive \/ ok)
  /\ UNCHANGED <<sessionBuffer, scrubbing, happened, clock, initsOverlapped>>

\* Eviction by count, then of a prefix by age.
Evicted(buffer) ==
  LET few == IF Len(buffer) > MaxEvents
             THEN SubSeq(buffer, Len(buffer) - MaxEvents + 1, Len(buffer)) ELSE buffer
      fresh == {n \in DOMAIN few : few[n].timestamp + MaxSeconds >= clock}
  IN  SubSeq(few, CHOOSE n \in fresh : \A k \in fresh : n <= k, Len(few))

PushEvent(buffer, event) == Evicted(Append(buffer, event))

Recorded(e, i) == [what |-> e, by |-> i, timestamp |-> clock]

\* Every recorder hears of every interaction.
Interact(e) ==
  /\ e \notin Range(happened)
  /\ happened' = Append(happened, e)
  /\ sessionBuffer' = FoldLeft(PushEvent, sessionBuffer,
                               SetToSeq({Recorded(e, i) : i \in Recorders}))
  /\ UNCHANGED <<sessionActive, initStage, scrubbing, clock, initsOverlapped>>

Navigate(e) ==
  /\ e \notin Range(happened)
  /\ happened' = Append(happened, e)
  /\ scrubbing' = scrubbing \cup (Recorders \X {e})
  /\ UNCHANGED <<sessionActive, initStage, sessionBuffer, clock, initsOverlapped>>

\* scrubUrl has been imported; the timestamp is of now.
NavigationPushed(i, e) ==
  /\ <<i, e>> \in scrubbing
  /\ scrubbing' = scrubbing \ {<<i, e>>}
  /\ sessionBuffer' = PushEvent(sessionBuffer, Recorded(e, i))
  /\ UNCHANGED <<sessionActive, initStage, happened, clock, initsOverlapped>>

SecondPasses ==
  /\ clock < MaxClock
  /\ clock' = clock + 1
  /\ UNCHANGED <<sessionActive, initStage, sessionBuffer, scrubbing, happened, initsOverlapped>>

RecorderNext ==
  \/ \E i \in SessionInits, ok \in BOOLEAN : InitSession(i) \/ RrwebImported(i, ok)
  \/ \E e \in Interactions : Interact(e)
  \/ \E e \in Navigations : Navigate(e)
  \/ \E i \in SessionInits, e \in Navigations : NavigationPushed(i, e)
  \/ SecondPasses

-----------------------------------------------------------------------------
(* Properties *)

\* An interaction is recorded once, unless two calls of initSession were both
\* waiting for rrweb (session.ts:84, 196).
OneRecordPerInteraction ==
  /\ ~initsOverlapped => IsInjective([n \in DOMAIN sessionBuffer |-> sessionBuffer[n].what])
  /\ IsInjective([n \in DOMAIN sessionBuffer |-> <<sessionBuffer[n].what, sessionBuffer[n].by>>])

\* The buffer is within its bounds and in the order of its timestamps; clicks
\* and inputs are in the order they happened in, and of those that followed the
\* newest one's predecessors none is missing (session.ts:57-70).
SessionInOrder ==
  LET at(n) == CHOOSE k \in DOMAIN happened : happened[k] = sessionBuffer[n].what
      clicks == {n \in DOMAIN sessionBuffer : sessionBuffer[n].what \in Interactions}
  IN  /\ Len(sessionBuffer) <= MaxEvents
      /\ \A m, n \in DOMAIN sessionBuffer :
           m < n => /\ sessionBuffer[m].timestamp <= sessionBuffer[n].timestamp
                    /\ sessionBuffer[n].timestamp <= sessionBuffer[m].timestamp + MaxSeconds
      /\ \A m, n \in clicks : m < n => at(m) <= at(n)
      /\ \A m, n \in clicks : \A k \in at(m)..at(n) :
           happened[k] \in Interactions =>
             \E l \in clicks : sessionBuffer[l].what = happened[k]

=============================================================================
