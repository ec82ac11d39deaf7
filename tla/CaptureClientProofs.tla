------------------------- MODULE CaptureClientProofs -------------------------
(***************************************************************************)
(* Proofs about CaptureClient: type correctness, HandedOnce,               *)
(* RedactionMatchesTransport and DeployKeepsTransport, for any captures,   *)
(* configurations and integrations.  What the two transports contribute is *)
(* proved in NodeTransportProofs, of which each is an instance.  At the    *)
(* end, what the client uses: one identity and the token budget            *)
(* (PayloadV2), the caches of source files (FileCaches), and the scrubbing *)
(* of requests (RequestScrub).                                             *)
(***************************************************************************)
EXTENDS CaptureClient, FileCaches, PayloadV2, RequestScrub, SequenceLemmas

P1 == INSTANCE NodeTransportProofs
  WITH retryBuffer <- buffer1, pendingSends <- pending1, batches <- batches1,
       flusher <- flusher1, awaited <- awaited1, acked <- acked1,
       dropped <- dropped1, owed <- owed1, troubled <- troubled1

P2 == INSTANCE NodeTransportProofs
  WITH retryBuffer <- buffer2, pendingSends <- pending2, batches <- batches2,
       flusher <- flusher2, awaited <- awaited2, acked <- acked2,
       dropped <- dropped2, owed <- owed2, troubled <- troubled2

-----------------------------------------------------------------------------
(* The inductive invariant *)

\* An event is where the transport of the init that took it last is.
WhereItWent ==
  /\ P1!Reached = {e \in Events : via[e] = 1 /\ ~configs[1].local}
  /\ P2!Reached = {e \in Events : via[e] = 2 /\ ~configs[2].local}
  /\ \A e \in Events : via[e] <= Current

\* A local transport threw on the event, and it waits to be handed over again.
GoesAgain(e) == e \in thrown /\ stage[e] = "redact"

\* An event was printed when a local transport threw on it, and when the transport
\* that took it for good is a local one.
PrintsCounted ==
  \A e \in Events :
    prints[e] = (IF e \in thrown THEN 1 ELSE 0)
                + (IF via[e] # 0 /\ configs[via[e]].local /\ ~GoesAgain(e) THEN 1 ELSE 0)

\* An event on which a local transport threw waits behind the redactor, which is
\* there by then, or was handed over again.
ThrownState ==
  \A e \in thrown :
    /\ stage[e] \in {"redact", "handed"} /\ via[e] # 0
    /\ stage[e] = "redact" => redactorLoaded /\ configs[via[e]].local
    /\ context[e] # "tree" /\ \E k \in 1..Current : configs[k].local

\* An event that waits at a hook has that hook's integration at the head of what
\* it has still to meet.
HooksReady ==
  /\ hooksLeft = [e \in Captures |-> hooksLeft[e]]
  /\ \A e \in Captures : stage[e] = "hooks" =>
       hooksLeft[e] # <<>> /\ Head(hooksLeft[e]) \in Hooked

\* The chain works only after an init, and an event that was handed over is at its
\* end or goes again.
ChainState ==
  \A e \in Captures :
    /\ stage[e] # "new" => Current > 0
    /\ (via[e] # 0) <=> (stage[e] = "handed" \/ GoesAgain(e))

\* A marker is due from the init that reports it until it is sent; the second
\* init reports one only if its release is not the one reported first.
DeployState ==
  /\ \A k \in DOMAIN DeployOf :
       /\ via[DeployOf[k]] \in {0, k}
       /\ DeployOf[k] \in deploying => k <= Current /\ via[DeployOf[k]] = 0
  /\ Current = 0 => lastRelease = NoRelease
  /\ Current = 1 => lastRelease = configs[1].release
  /\ Current = 2 /\ (DeployOf[2] \in deploying \/ via[DeployOf[2]] # 0)
       => configs[1].release # configs[2].release

ClientTypes ==
  /\ context \in [Captures -> Contexts]
  /\ configs \in Seq(Configs) /\ Len(configs) <= MaxInits
  /\ substrate \in BOOLEAN /\ redactorLoaded \in BOOLEAN
  /\ stage \in [Captures -> {"new"} \cup InPipeline \cup Ended]
  /\ via \in [Events -> 0..MaxInits]
  /\ redacted \in [Captures -> BOOLEAN]
  /\ deploying \subseteq Range(DeployOf)
  /\ prints \in [Events -> 0..2]
  /\ thrown \subseteq Captures

IInv ==
  /\ P1!IInv /\ P2!IInv
  /\ ClientTypes
  /\ HooksReady
  /\ WhereItWent
  /\ PrintsCounted
  /\ ThrownState
  /\ ChainState
  /\ RedactionMatchesTransport
  /\ DeployState

-----------------------------------------------------------------------------
(* The two transports *)

\* The captures and the markers are different events, finitely many.
LEMMA EventsOfClient ==
  /\ IsFiniteSet(Events)
  /\ \A k \in 1..MaxInits : DeployOf[k] \in Events /\ DeployOf[k] \notin Captures
  /\ Captures \subseteq Events
  /\ \A e \in Events : e \in Captures \/ e \in Range(DeployOf)
<1>1. IsFiniteSet(1..MaxInits)
  <2>1. MaxInits \in Int
    BY DEF MaxInits
  <2> QED
    BY <2>1, FS_Interval
<1>2. DeployOf \in Surjection(1..MaxInits, Range(DeployOf))
  BY CaptureClientAssumption DEF Surjection, Range
<1>3. IsFiniteSet(Range(DeployOf))
  BY <1>1, <1>2, FS_Surjection
<1>4. IsFiniteSet(Events)
  BY <1>3, CaptureClientAssumption, FS_Union DEF Events
<1>5. \A k \in 1..MaxInits : DeployOf[k] \in Range(DeployOf)
  BY CaptureClientAssumption DEF Range
<1> QED
  BY <1>4, <1>5, CaptureClientAssumption DEF Events

LEMMA TransportAssumptions ==
  P1!NodeTransportAssumption /\ P2!NodeTransportAssumption
<1>1. P1!IsFiniteSet(Events) /\ P2!IsFiniteSet(Events)
  BY EventsOfClient DEF IsFiniteSet, P1!IsFiniteSet, P2!IsFiniteSet
<1> QED
  BY <1>1, CaptureClientAssumption
     DEF P1!NodeTransportAssumption, P2!NodeTransportAssumption

\* The operators of T1, the first transport, as NodeTransportProofs knows them.
LEMMA FirstTransport ==
  /\ T1!Held = P1!Held
  /\ T1!TypeOK <=> P1!TypeOK
  /\ T1!Init => P1!Init
  /\ \A e : T1!Send(e) => P1!Send(e)
  /\ \A f : T1!FlushCall(f) => P1!FlushCall(f)
  /\ T1!Settle => P1!Settle
  /\ UNCHANGED transport1 => UNCHANGED P1!vars
<1> USE DEF T1!Range, P1!Range, T1!InFlight, P1!InFlight, T1!Held, P1!Held,
            T1!Owners, P1!Owners, T1!Batch, P1!Batch
<1>1. T1!TypeOK <=> P1!TypeOK
  BY DEF T1!TypeOK, P1!TypeOK
<1>2. T1!Init => P1!Init
  BY DEF T1!Init, P1!Init
<1>3. /\ \A e : T1!Send(e) => P1!Send(e)
      /\ \A f : T1!FlushCall(f) => P1!FlushCall(f)
  BY DEF T1!Send, P1!Send, T1!FlushCall, P1!FlushCall
<1>4. \A e : /\ T1!SendOk(e) => P1!SendOk(e)
             /\ T1!SendFail(e) => P1!SendFail(e)
             /\ T1!SendThrow(e) => P1!SendThrow(e)
  BY DEF T1!SendOk, P1!SendOk, T1!SendFail, P1!SendFail, T1!SendThrow, P1!SendThrow,
         T1!StartBatch, P1!StartBatch, T1!NoteFailure, P1!NoteFailure
<1>5. \A b : /\ T1!BatchOk(b) => P1!BatchOk(b)
             /\ T1!BatchFail(b) => P1!BatchFail(b)
  BY DEF T1!BatchOk, P1!BatchOk, T1!BatchFail, P1!BatchFail,
         T1!ReleaseOwner, P1!ReleaseOwner, T1!Kept, P1!Kept, T1!Room, P1!Room,
         T1!NoteFailure, P1!NoteFailure
<1>6. \A f : T1!FlushSettled(f) => P1!FlushSettled(f)
  BY DEF T1!FlushSettled, P1!FlushSettled, T1!StartBatch, P1!StartBatch
<1>7. T1!Settle => P1!Settle
  BY <1>4, <1>5, <1>6 DEF T1!Settle, P1!Settle
<1>8. UNCHANGED transport1 => UNCHANGED P1!vars
  BY DEF transport1, P1!vars
<1> QED
  BY <1>1, <1>2, <1>3, <1>7, <1>8

\* The same of T2.
LEMMA SecondTransport ==
  /\ T2!Held = P2!Held
  /\ T2!TypeOK <=> P2!TypeOK
  /\ T2!Init => P2!Init
  /\ \A e : T2!Send(e) => P2!Send(e)
  /\ \A f : T2!FlushCall(f) => P2!FlushCall(f)
  /\ T2!Settle => P2!Settle
  /\ UNCHANGED transport2 => UNCHANGED P2!vars
<1> USE DEF T2!Range, P2!Range, T2!InFlight, P2!InFlight, T2!Held, P2!Held,
            T2!Owners, P2!Owners, T2!Batch, P2!Batch
<1>1. T2!TypeOK <=> P2!TypeOK
  BY DEF T2!TypeOK, P2!TypeOK
<1>2. T2!Init => P2!Init
  BY DEF T2!Init, P2!Init
<1>3. /\ \A e : T2!Send(e) => P2!Send(e)
      /\ \A f : T2!FlushCall(f) => P2!FlushCall(f)
  BY DEF T2!Send, P2!Send, T2!FlushCall, P2!FlushCall
<1>4. \A e : /\ T2!SendOk(e) => P2!SendOk(e)
             /\ T2!SendFail(e) => P2!SendFail(e)
             /\ T2!SendThrow(e) => P2!SendThrow(e)
  BY DEF T2!SendOk, P2!SendOk, T2!SendFail, P2!SendFail, T2!SendThrow, P2!SendThrow,
         T2!StartBatch, P2!StartBatch, T2!NoteFailure, P2!NoteFailure
<1>5. \A b : /\ T2!BatchOk(b) => P2!BatchOk(b)
             /\ T2!BatchFail(b) => P2!BatchFail(b)
  BY DEF T2!BatchOk, P2!BatchOk, T2!BatchFail, P2!BatchFail,
         T2!ReleaseOwner, P2!ReleaseOwner, T2!Kept, P2!Kept, T2!Room, P2!Room,
         T2!NoteFailure, P2!NoteFailure
<1>6. \A f : T2!FlushSettled(f) => P2!FlushSettled(f)
  BY DEF T2!FlushSettled, P2!FlushSettled, T2!StartBatch, P2!StartBatch
<1>7. T2!Settle => P2!Settle
  BY <1>4, <1>5, <1>6 DEF T2!Settle, P2!Settle
<1>8. UNCHANGED transport2 => UNCHANGED P2!vars
  BY DEF transport2, P2!vars
<1> QED
  BY <1>1, <1>2, <1>3, <1>7, <1>8

\* Transports that nobody touches.
LEMMA TransportsIdle ==
  ASSUME IInv
  PROVE  /\ UNCHANGED transport1 => P1!IInv' /\ P1!Reached' = P1!Reached
         /\ UNCHANGED transport2 => P2!IInv' /\ P2!Reached' = P2!Reached
  BY FirstTransport, SecondTransport, TransportAssumptions,
     P1!IdleKeepsReached, P2!IdleKeepsReached DEF IInv

-----------------------------------------------------------------------------
(* Handing an event over *)

LEMMA CurrentIsNat ==
  ASSUME IInv
  PROVE  /\ Current \in 0..MaxInits
         /\ \A k \in 1..Current :
              /\ configs[k] \in Configs
              /\ configs[k].local \in BOOLEAN /\ configs[k].redact \in BOOLEAN
<1>1. configs \in Seq(Configs) /\ Current = Len(configs) /\ Len(configs) <= MaxInits
  BY DEF IInv, ClientTypes, Current
<1>2. Len(configs) \in Nat /\ MaxInits \in Nat
  BY <1>1, LenProperties DEF MaxInits
<1> QED
  BY <1>1, <1>2, ElementOfSeq, CaptureClientAssumption

\* An event that no transport took for good reaches the k-th one, or is printed.
LEMMA HandToReaches ==
  ASSUME IInv, NEW e \in Events, via[e] = 0 \/ configs[via[e]].local,
         NEW k \in 1..Current, HandTo(e, k), configs' = configs
  PROVE  /\ P1!IInv' /\ P2!IInv'
         /\ WhereItWent'
         /\ via' \in [Events -> 0..MaxInits]
         /\ \A x \in Events : via'[x] = IF x = e THEN k ELSE via[x]
         /\ prints' = IF configs[k].local THEN [prints EXCEPT ![e] = @ + 1] ELSE prints
         /\ thrown' = thrown
<1>1. k \in {1, 2} /\ k <= Current /\ k # 0 /\ configs[k].local \in BOOLEAN
  BY CurrentIsNat DEF MaxInits
<1>2. /\ via' \in [Events -> 0..MaxInits]
      /\ \A x \in Events : via'[x] = IF x = e THEN k ELSE via[x]
  BY <1>1 DEF HandTo, IInv, ClientTypes, MaxInits
<1>3. /\ prints' = IF configs[k].local THEN [prints EXCEPT ![e] = @ + 1] ELSE prints
      /\ thrown' = thrown
  BY DEF HandTo
<1>4. ASSUME configs[k].local
      PROVE  P1!IInv' /\ P2!IInv' /\ WhereItWent'
  <2>1. UNCHANGED <<transport1, transport2>>
    BY <1>4 DEF HandTo
  <2>2. /\ P1!IInv' /\ P1!Reached' = P1!Reached
        /\ P2!IInv' /\ P2!Reached' = P2!Reached
    BY <2>1, TransportsIdle
  <2>3. WhereItWent'
    BY <1>1, <1>2, <1>4, <2>2 DEF IInv, WhereItWent, Current
  <2> QED
    BY <2>2, <2>3
<1>5. ASSUME ~configs[k].local, k = 1
      PROVE  P1!IInv' /\ P2!IInv' /\ WhereItWent'
  <2>1. T1!Send(e) /\ UNCHANGED transport2
    BY <1>5 DEF HandTo
  <2>2. P1!IInv' /\ P1!Reached' = P1!Reached \cup {e}
    BY <2>1, FirstTransport, TransportAssumptions, P1!SendReaches DEF IInv
  <2>3. P2!IInv' /\ P2!Reached' = P2!Reached
    BY <2>1, TransportsIdle
  <2>4. WhereItWent'
    BY <1>1, <1>2, <1>5, <2>2, <2>3 DEF IInv, WhereItWent, Current
  <2> QED
    BY <2>2, <2>3, <2>4
<1>6. ASSUME ~configs[k].local, k = 2
      PROVE  P1!IInv' /\ P2!IInv' /\ WhereItWent'
  <2>1. T2!Send(e) /\ UNCHANGED transport1
    BY <1>6 DEF HandTo
  <2>2. P2!IInv' /\ P2!Reached' = P2!Reached \cup {e}
    BY <2>1, SecondTransport, TransportAssumptions, P2!SendReaches DEF IInv
  <2>3. P1!IInv' /\ P1!Reached' = P1!Reached
    BY <2>1, TransportsIdle
  <2>4. WhereItWent'
    BY <1>1, <1>2, <1>6, <2>2, <2>3 DEF IInv, WhereItWent, Current
  <2> QED
    BY <2>2, <2>3, <2>4
<1> QED
  BY <1>1, <1>2, <1>3, <1>4, <1>5, <1>6

-----------------------------------------------------------------------------
(* The chain *)

\* What a step of the chain does to its event: it waits at another stage, it ends
\* without a transport, or the current transport gets it, redacted or not as the
\* current configuration has it -- and may throw, if it is a local one.
MovesOn(e) ==
  \/ \E s \in InPipeline \cup {"filtered", "lost"} : MoveTo(e, s)
  \/ Hand(e, Config.redact)
  \/ ThrowsLocally(e) /\ HandUnsigned(e)

LEMMA SendV1MovesOn ==
  ASSUME IInv, NEW e \in Captures, Current > 0, SendV1(e)
  PROVE  MovesOn(e) /\ (MoveTo(e, "redact") \/ Hand(e, Config.redact))
<1>1. Config.redact \in BOOLEAN
  BY CurrentIsNat DEF Config
<1>2. CASE Config.redact
  BY <1>2 DEF SendV1, MovesOn, InPipeline
<1>3. CASE ~Config.redact
  <2>1. Config.redact = FALSE
    BY <1>1, <1>3
  <2>2. Hand(e, FALSE)
    BY <1>3 DEF SendV1
  <2> QED
    BY <2>1, <2>2 DEF MovesOn
<1> QED
  BY <1>2, <1>3

\* After a step to a stage other than "hooks", hooksLeft need only be a function.
LEMMA LeavesHooks ==
  ASSUME IInv, NEW e \in Captures, NEW s, s # "hooks",
         stage' = [stage EXCEPT ![e] = s],
         hooksLeft' \in {hooksLeft, [hooksLeft EXCEPT ![e] = <<>>]}
  PROVE  HooksReady'
<1>1. /\ stage \in [Captures -> {"new"} \cup InPipeline \cup Ended]
      /\ hooksLeft = [x \in Captures |-> hooksLeft[x]]
      /\ \A x \in Captures : stage[x] = "hooks" =>
           hooksLeft[x] # <<>> /\ Head(hooksLeft[x]) \in Hooked
  BY DEF IInv, ClientTypes, HooksReady
<1>2. \A x \in Captures : stage'[x] = IF x = e THEN s ELSE stage[x]
  BY <1>1
<1>3. hooksLeft' = [x \in Captures |-> hooksLeft'[x]]
  BY <1>1
<1>4. \A x \in Captures : x # e => hooksLeft'[x] = hooksLeft[x]
  BY <1>1
<1> QED
  BY <1>1, <1>2, <1>3, <1>4 DEF HooksReady

\* Where MovesOn leaves its event.
LEMMA StageOfMovesOn ==
  ASSUME NEW e \in Captures, SendV1(e)
  PROVE  \E s : s # "hooks" /\ stage' = [stage EXCEPT ![e] = s]
  BY DEF SendV1, MoveTo, Hand

\* The loop over the integrations leaves the event at a hook, or past them all.
LEMMA RunHooksMovesOn ==
  ASSUME IInv, NEW e \in Captures, Current > 0, NEW list, RunHooks(e, list)
  PROVE  MovesOn(e) /\ HooksReady'
<1>1. /\ stage \in [Captures -> {"new"} \cup InPipeline \cup Ended]
      /\ hooksLeft = [x \in Captures |-> hooksLeft[x]]
      /\ \A x \in Captures : stage[x] = "hooks" =>
           hooksLeft[x] # <<>> /\ Head(hooksLeft[x]) \in Hooked
  BY DEF IInv, ClientTypes, HooksReady
<1>2. CASE list # <<>> /\ Head(list) \in Hooked
  <2>1. hooksLeft' = [hooksLeft EXCEPT ![e] = list] /\ MoveTo(e, "hooks")
    BY <1>2 DEF RunHooks
  <2>2. /\ hooksLeft' = [x \in Captures |-> hooksLeft'[x]]
        /\ \A x \in Captures :
             /\ hooksLeft'[x] = IF x = e THEN list ELSE hooksLeft[x]
             /\ stage'[x] = IF x = e THEN "hooks" ELSE stage[x]
    BY <1>1, <2>1 DEF MoveTo
  <2>3. HooksReady'
    BY <1>1, <1>2, <2>2 DEF HooksReady
  <2> QED
    BY <2>1, <2>3 DEF MovesOn, InPipeline
<1>3. CASE ~(list # <<>> /\ Head(list) \in Hooked)
  <2>1. hooksLeft' = [hooksLeft EXCEPT ![e] = <<>>] /\ AfterHooks(e)
    BY <1>3 DEF RunHooks
  <2>2. MovesOn(e)
    BY <2>1, SendV1MovesOn DEF AfterHooks, MovesOn, InPipeline
  <2>3. \E s : s # "hooks" /\ stage' = [stage EXCEPT ![e] = s]
    BY <2>1, StageOfMovesOn DEF AfterHooks, MoveTo
  <2>4. HooksReady'
    BY <2>1, <2>3, LeavesHooks
  <2> QED
    BY <2>2, <2>4
<1> QED
  BY <1>2, <1>3

\* A step of the chain keeps the invariant.  An event on which a transport threw
\* can only be handed over, and one that waits for the redactor then has it.
LEMMA MovesOnKeeps ==
  ASSUME IInv, NEW e \in Captures, stage[e] \in InPipeline, MovesOn(e), HooksReady',
         e \in thrown => Hand(e, Config.redact),
         e \in thrown' \ thrown /\ Config.redact => redactorLoaded',
         redactorLoaded => redactorLoaded',
         redactorLoaded' \in BOOLEAN, UNCHANGED <<initVars, deploying>>
  PROVE  IInv'
<1>1. /\ Current > 0 /\ Current \in 1..MaxInits /\ stage[e] # "handed"
      /\ Config = configs[Current] /\ Config.redact \in BOOLEAN
  BY CurrentIsNat DEF IInv, ChainState, InPipeline, Config, MaxInits
<1>2. /\ e \in Events /\ Captures \subseteq Events
      /\ e \notin thrown => via[e] = 0
      /\ e \in thrown => stage[e] = "redact" /\ via[e] # 0 /\ configs[via[e]].local
  BY <1>1, EventsOfClient DEF IInv, ChainState, GoesAgain, ThrownState
<1>3. /\ UNCHANGED <<context, configs, lastRelease, substrate, deploying>>
      /\ Current' = Current
  BY DEF initVars, Current
<1>4. /\ \A k \in 1..MaxInits : DeployOf[k] \in Events /\ DeployOf[k] # e
      /\ DOMAIN DeployOf = 1..MaxInits /\ 2 \in 1..MaxInits
  BY EventsOfClient, CaptureClientAssumption DEF MaxInits
<1>5. /\ stage \in [Captures -> {"new"} \cup InPipeline \cup Ended]
      /\ redacted \in [Captures -> BOOLEAN]
      /\ via \in [Events -> 0..MaxInits] /\ prints \in [Events -> 0..2]
      /\ thrown \subseteq Captures
  BY DEF IInv, ClientTypes
<1>6. ASSUME \E s \in InPipeline \cup {"filtered", "lost"} : MoveTo(e, s), e \notin thrown
      PROVE  IInv'
  <2>1. PICK s \in InPipeline \cup {"filtered", "lost"} : MoveTo(e, s)
    BY <1>6
  <2>2. /\ UNCHANGED <<via, redacted, prints, thrown, transport1, transport2>>
        /\ stage' \in [Captures -> {"new"} \cup InPipeline \cup Ended]
        /\ \A x \in Captures : stage'[x] = IF x = e THEN s ELSE stage[x]
    BY <1>5, <2>1 DEF MoveTo, Ended
  <2>3. /\ P1!IInv' /\ P1!Reached' = P1!Reached
        /\ P2!IInv' /\ P2!Reached' = P2!Reached
    BY <2>2, TransportsIdle
  <2>4. s # "handed" /\ s # "new"
    BY DEF InPipeline
  <2>5. ClientTypes'
    BY <1>3, <2>2 DEF IInv, ClientTypes
  <2>6. WhereItWent' /\ DeployState'
    BY <1>3, <2>2, <2>3 DEF IInv, WhereItWent, DeployState
  <2>7. \A x \in Captures : GoesAgain(x)' <=> GoesAgain(x)
    BY <1>6, <2>2 DEF GoesAgain
  <2>8. ChainState' /\ RedactionMatchesTransport'
    BY <1>1, <1>2, <1>3, <1>6, <2>2, <2>4, <2>7
       DEF IInv, ChainState, RedactionMatchesTransport
  <2>9. ThrownState'
    BY <1>3, <1>5, <1>6, <2>2 DEF IInv, ThrownState
  <2>10. PrintsCounted'
    <3>1. \A x \in Events : GoesAgain(x)' <=> GoesAgain(x)
      BY <1>5, <1>6, <2>2, <2>7 DEF GoesAgain
    <3> QED
      BY <1>3, <2>2, <3>1 DEF IInv, PrintsCounted
  <2> QED
    BY <2>3, <2>5, <2>6, <2>8, <2>9, <2>10 DEF IInv
<1>7. ASSUME Hand(e, Config.redact)
      PROVE  IInv'
  <2>1. /\ HandTo(e, Current)
        /\ stage' = [stage EXCEPT ![e] = "handed"]
        /\ redacted' = [redacted EXCEPT ![e] = Config.redact]
    BY <1>7 DEF Hand
  <2>2. /\ P1!IInv' /\ P2!IInv'
        /\ WhereItWent'
        /\ via' \in [Events -> 0..MaxInits]
        /\ \A x \in Events : via'[x] = IF x = e THEN Current ELSE via[x]
        /\ prints' = IF Config.local THEN [prints EXCEPT ![e] = @ + 1] ELSE prints
        /\ thrown' = thrown
    <3>1. Current \in 1..Current
      BY <1>1
    <3> QED
      BY <1>1, <1>2, <1>3, <2>1, <3>1, HandToReaches
  <2>3. /\ stage' \in [Captures -> {"new"} \cup InPipeline \cup Ended]
        /\ \A x \in Captures : stage'[x] = IF x = e THEN "handed" ELSE stage[x]
        /\ redacted' \in [Captures -> BOOLEAN]
        /\ \A x \in Captures : redacted'[x] = IF x = e THEN Config.redact ELSE redacted[x]
    BY <1>1, <1>5, <2>1 DEF Ended
  <2>4. \A x \in Captures : GoesAgain(x)' <=> x # e /\ GoesAgain(x)
    BY <2>2, <2>3 DEF GoesAgain
  <2>5. /\ prints[e] = (IF e \in thrown THEN 1 ELSE 0)
        /\ \A x \in Events :
             prints'[x] = IF x = e /\ Config.local THEN prints[e] + 1 ELSE prints[x]
    BY <1>2, <1>5, <2>2 DEF IInv, PrintsCounted, GoesAgain
  <2>6. prints' \in [Events -> 0..2]
    <3>1. prints[e] + 1 \in 0..2
      BY <2>5
    <3> QED
      BY <1>5, <2>2, <3>1
  <2>7. ClientTypes'
    BY <1>3, <2>2, <2>3, <2>6 DEF IInv, ClientTypes
  <2>8. ChainState'
    BY <1>1, <1>2, <1>3, <2>2, <2>3, <2>4 DEF IInv, ChainState
  <2>9. RedactionMatchesTransport'
    BY <1>1, <1>2, <1>3, <2>2, <2>3 DEF IInv, RedactionMatchesTransport
  <2>10. ThrownState'
    <3>1. \A x \in thrown : x \in Events
      BY <1>2, <1>5
    <3>2. \A x \in thrown : x # e => via'[x] = via[x] /\ stage'[x] = stage[x]
      BY <1>5, <2>2, <2>3, <3>1
    <3>3. e \in thrown => stage'[e] = "handed" /\ via'[e] # 0
      BY <1>1, <1>2, <2>2, <2>3
    <3> QED
      BY <1>3, <2>2, <3>2, <3>3 DEF IInv, ThrownState
  <2>11. PrintsCounted'
    <3>1. ASSUME NEW x \in Events, x # e
          PROVE  /\ prints'[x] = prints[x] /\ via'[x] = via[x]
                 /\ x \in thrown' <=> x \in thrown
                 /\ GoesAgain(x)' <=> GoesAgain(x)
      BY <1>5, <2>2, <2>3, <2>5, <3>1 DEF GoesAgain
    <3>2. /\ via'[e] = Current /\ ~GoesAgain(e)'
          /\ prints'[e] = IF Config.local THEN prints[e] + 1 ELSE prints[e]
      BY <1>2, <2>2, <2>3, <2>5 DEF GoesAgain
    <3>3. prints'[e] = (IF e \in thrown' THEN 1 ELSE 0)
                       + (IF via'[e] # 0 /\ configs'[via'[e]].local /\ ~GoesAgain(e)'
                          THEN 1 ELSE 0)
      BY <1>1, <1>3, <2>2, <2>5, <3>2
    <3> QED
      BY <1>3, <3>1, <3>3 DEF IInv, PrintsCounted
  <2>12. DeployState'
    <3>1. \A k \in 1..MaxInits : via'[DeployOf[k]] = via[DeployOf[k]]
      BY <1>4, <2>2
    <3> QED
      BY <1>3, <1>4, <3>1 DEF IInv, DeployState
  <2> QED
    BY <2>2, <2>7, <2>8, <2>9, <2>10, <2>11, <2>12 DEF IInv
<1>8. ASSUME ThrowsLocally(e), HandUnsigned(e), e \notin thrown
      PROVE  IInv'
  <2> DEFINE s == IF Config.redact THEN "redact" ELSE "handed"
             n == IF Config.redact THEN 1 ELSE 2
  <2>1. /\ UNCHANGED <<transport1, transport2>>
        /\ stage' = [stage EXCEPT ![e] = s]
        /\ redacted' = [redacted EXCEPT ![e] = Config.redact]
        /\ via' = [via EXCEPT ![e] = Current]
        /\ prints' = [prints EXCEPT ![e] = @ + n]
        /\ thrown' = thrown \cup {e}
        /\ configs[Current].local /\ context[e] # "tree"
    BY <1>1, <1>8 DEF HandUnsigned, ThrowsLocally
  <2>2. /\ P1!IInv' /\ P1!Reached' = P1!Reached
        /\ P2!IInv' /\ P2!Reached' = P2!Reached
    BY <2>1, TransportsIdle
  <2>3. s \in {"redact", "handed"} /\ n \in {1, 2}
    OBVIOUS
  <2>4. prints[e] = 0
    BY <1>2, <1>8 DEF IInv, PrintsCounted
  <2>5. /\ stage' \in [Captures -> {"new"} \cup InPipeline \cup Ended]
        /\ redacted' \in [Captures -> BOOLEAN]
        /\ via' \in [Events -> 0..MaxInits] /\ prints' \in [Events -> 0..2]
        /\ thrown' \subseteq Captures
    <3>1. prints[e] + n \in 0..2 /\ Current \in 0..MaxInits
      BY <1>1, <2>3, <2>4 DEF MaxInits
    <3>2. s \in InPipeline \cup Ended
      BY <2>3 DEF InPipeline, Ended
    <3> HIDE DEF s, n
    <3> QED
      BY <1>1, <1>5, <2>1, <3>1, <3>2
  <2>6. /\ \A x \in Captures : /\ stage'[x] = IF x = e THEN s ELSE stage[x]
                               /\ redacted'[x] = IF x = e THEN Config.redact ELSE redacted[x]
        /\ \A x \in Events : /\ via'[x] = IF x = e THEN Current ELSE via[x]
                             /\ prints'[x] = IF x = e THEN n ELSE prints[x]
    <3>1. prints[e] + n = n
      BY <2>3, <2>4
    <3> HIDE DEF s, n
    <3> QED
      BY <1>2, <1>5, <2>1, <3>1
  <2>7. /\ GoesAgain(e)' <=> Config.redact
        /\ \A x \in Captures : x # e => (GoesAgain(x)' <=> GoesAgain(x))
    BY <2>1, <2>6 DEF GoesAgain
  <2>8. ClientTypes'
    BY <1>3, <2>5 DEF IInv, ClientTypes
  <2>9. WhereItWent'
    BY <1>1, <1>2, <1>3, <1>8, <2>1, <2>2, <2>6 DEF IInv, WhereItWent, MaxInits
  <2>10. ChainState'
    <3>1. via'[e] # 0 /\ (stage'[e] = "handed" \/ GoesAgain(e)')
      BY <1>1, <1>2, <2>6, <2>7
    <3>2. stage'[e] # "new" /\ Current' > 0
      BY <1>1, <1>3, <2>3, <2>6
    <3>3. \A x \in Captures : x # e => stage'[x] = stage[x] /\ via'[x] = via[x]
      BY <1>2, <2>6
    <3> HIDE DEF s, n
    <3> QED
      BY <1>3, <2>7, <3>1, <3>2, <3>3 DEF IInv, ChainState
  <2>11. RedactionMatchesTransport'
    BY <1>1, <1>2, <1>3, <2>6 DEF IInv, RedactionMatchesTransport
  <2>12. ThrownState'
    <3>1. \A x \in thrown : x # e /\ via'[x] = via[x] /\ stage'[x] = stage[x]
      BY <1>2, <1>5, <1>8, <2>6
    <3>2. /\ stage'[e] \in {"redact", "handed"} /\ via'[e] = Current /\ via'[e] # 0
          /\ stage'[e] = "redact" => redactorLoaded'
          /\ configs'[via'[e]].local /\ context'[e] # "tree"
          /\ Current \in 1..Current /\ configs'[Current].local
      BY <1>1, <1>2, <1>3, <1>8, <2>1, <2>6
    <3> HIDE DEF s, n
    <3> QED
      BY <1>3, <2>1, <3>1, <3>2 DEF IInv, ThrownState
  <2>13. PrintsCounted'
    <3>1. ASSUME NEW x \in Events, x # e
          PROVE  /\ prints'[x] = prints[x] /\ via'[x] = via[x]
                 /\ x \in thrown' <=> x \in thrown
                 /\ GoesAgain(x)' <=> GoesAgain(x)
      <4> HIDE DEF s, n
      <4> QED
        BY <1>5, <2>1, <2>6, <3>1 DEF GoesAgain
    <3>2. prints'[e] = (IF e \in thrown' THEN 1 ELSE 0)
                       + (IF via'[e] # 0 /\ configs'[via'[e]].local /\ ~GoesAgain(e)'
                          THEN 1 ELSE 0)
      BY <1>1, <1>2, <1>3, <2>1, <2>6, <2>7
    <3> HIDE DEF s, n
    <3> QED
      BY <1>3, <3>1, <3>2 DEF IInv, PrintsCounted
  <2>14. DeployState'
    <3>1. \A k \in 1..MaxInits : via'[DeployOf[k]] = via[DeployOf[k]]
      BY <1>4, <2>6
    <3> QED
      BY <1>3, <1>4, <3>1 DEF IInv, DeployState
  <2> QED
    BY <2>2, <2>8, <2>9, <2>10, <2>11, <2>12, <2>13, <2>14 DEF IInv
<1> QED
  BY <1>6, <1>7, <1>8 DEF MovesOn

-----------------------------------------------------------------------------
(* Every action keeps the invariant *)

\* A new configuration comes behind the earlier ones, which stay as they are.
LEMMA InitClientKeeps ==
  ASSUME IInv, NEW cfg \in Configs, InitClient(cfg)
  PROVE  IInv'
<1>1. /\ Current \in {0, 1} /\ Current = Len(configs) /\ configs \in Seq(Configs)
      /\ configs' = Append(configs, cfg)
      /\ UNCHANGED <<context, substrate, redactorLoaded, stage, hooksLeft, via, redacted,
                     prints, thrown, transport1, transport2>>
  BY CurrentIsNat DEF InitClient, IInv, ClientTypes, Current, MaxInits
<1>2. /\ configs' \in Seq(Configs) /\ Current' = Current + 1
      /\ \A k \in 1..Current : configs'[k] = configs[k]
      /\ configs'[Current + 1] = cfg
  BY <1>1, AppendProperties DEF Current
<1>3. \A e \in Events : via[e] # 0 => via[e] \in 1..Current /\ configs'[via[e]] = configs[via[e]]
  BY <1>1, <1>2 DEF IInv, ClientTypes, WhereItWent, MaxInits
<1>4. /\ P1!IInv' /\ P1!Reached' = P1!Reached
      /\ P2!IInv' /\ P2!Reached' = P2!Reached
  BY <1>1, TransportsIdle
<1>5. /\ DOMAIN DeployOf = {1, 2} /\ DeployOf[1] # DeployOf[2]
      /\ \A k \in {1, 2} : DeployOf[k] \in Range(DeployOf) /\ DeployOf[k] \in Events
  BY CaptureClientAssumption, EventsOfClient DEF IsInjective, Range, MaxInits
<1>6. \/ /\ cfg.release # NoRelease /\ cfg.release # lastRelease
         /\ lastRelease' = cfg.release
         /\ deploying' = deploying \cup {DeployOf[Current + 1]}
      \/ /\ cfg.release = NoRelease \/ cfg.release = lastRelease
         /\ UNCHANGED <<lastRelease, deploying>>
  BY DEF InitClient
<1>7. ClientTypes'
  BY <1>1, <1>2, <1>5, <1>6 DEF IInv, ClientTypes, Current, MaxInits
<1>8. WhereItWent'
  BY <1>1, <1>2, <1>3, <1>4 DEF IInv, WhereItWent, ClientTypes, MaxInits
<1>9. HooksReady'
  BY <1>1 DEF IInv, HooksReady
<1>10. ChainState' /\ PrintsCounted' /\ ThrownState'
  <2>1. \A e : GoesAgain(e)' <=> GoesAgain(e)
    BY <1>1 DEF GoesAgain
  <2>2. ChainState' /\ PrintsCounted'
    BY <1>1, <1>2, <1>3, <2>1 DEF IInv, ChainState, PrintsCounted
  <2>3. thrown \subseteq Events
    BY EventsOfClient DEF IInv, ClientTypes
  <2>4. ThrownState'
    BY <1>1, <1>2, <1>3, <2>3 DEF IInv, ThrownState
  <2> QED
    BY <2>2, <2>4
<1>11. RedactionMatchesTransport'
  BY <1>1, <1>3, EventsOfClient DEF IInv, RedactionMatchesTransport, ChainState
<1>12. via[DeployOf[Current + 1]] = 0 /\ DeployOf[Current + 1] \notin deploying
  BY <1>1, <1>5 DEF IInv, DeployState, WhereItWent
<1>13. \A k \in DOMAIN DeployOf :
         /\ via'[DeployOf[k]] \in {0, k}
         /\ DeployOf[k] \in deploying' => k <= Current' /\ via'[DeployOf[k]] = 0
  BY <1>1, <1>2, <1>5, <1>6, <1>12 DEF IInv, DeployState
<1>14. CASE Current = 0
  <2>1. lastRelease = NoRelease
    BY <1>14 DEF IInv, DeployState
  <2> QED
    BY <1>2, <1>4, <1>6, <1>7, <1>8, <1>9, <1>10, <1>11, <1>13, <1>14, <2>1
       DEF IInv, DeployState
<1>15. CASE Current = 1
  <2>1. lastRelease = configs[1].release /\ configs'[1] = configs[1] /\ configs'[2] = cfg
    BY <1>2, <1>15 DEF IInv, DeployState
  <2>2. DeployOf[2] \in deploying' => cfg.release # configs[1].release
    BY <1>6, <1>12, <1>15, <2>1
  <2>3. DeployState'
    BY <1>1, <1>2, <1>12, <1>13, <1>15, <2>1, <2>2 DEF DeployState
  <2> QED
    BY <1>4, <1>7, <1>8, <1>9, <1>10, <1>11, <2>3 DEF IInv
<1> QED
  BY <1>1, <1>14, <1>15

\* Steps that touch neither the chain nor a hand-over.
LEMMA ChainIdle ==
  ASSUME IInv, P1!IInv', P2!IInv', P1!Reached' = P1!Reached, P2!Reached' = P2!Reached,
         substrate' \in BOOLEAN,
         UNCHANGED <<context, configs, lastRelease, redactorLoaded, stage, hooksLeft, via, redacted,
                     deploying, prints, thrown>>
  PROVE  IInv'
  BY DEF IInv, ClientTypes, HooksReady, WhereItWent, ChainState, Current, PrintsCounted,
         ThrownState, GoesAgain, RedactionMatchesTransport, DeployState

LEMMA CaptureKeeps ==
  ASSUME IInv, NEW e \in Captures, Capture(e)
  PROVE  IInv'
<1>1. /\ Current > 0 /\ stage[e] = "new"
      /\ stage' = [stage EXCEPT ![e] = "fingerprint"]
      /\ UNCHANGED <<initVars, redactorLoaded, hooksLeft, deploying, via, redacted,
                     prints, thrown, transport1, transport2>>
  BY DEF Capture, MoveTo
<1>2. /\ P1!IInv' /\ P1!Reached' = P1!Reached
      /\ P2!IInv' /\ P2!Reached' = P2!Reached
  BY <1>1, TransportsIdle
<1>3. /\ stage' \in [Captures -> {"new"} \cup InPipeline \cup Ended]
      /\ \A x \in Captures : stage'[x] = IF x = e THEN "fingerprint" ELSE stage[x]
  BY <1>1 DEF IInv, ClientTypes, InPipeline
<1>4. ClientTypes' /\ WhereItWent' /\ DeployState'
  BY <1>1, <1>2, <1>3 DEF initVars, IInv, ClientTypes, WhereItWent, DeployState, Current
<1>5. ChainState' /\ RedactionMatchesTransport' /\ PrintsCounted' /\ ThrownState'
  <2>1. e \notin thrown /\ thrown \subseteq Captures
    BY <1>1 DEF IInv, ThrownState, ClientTypes
  <2>2. \A x \in Events : GoesAgain(x)' <=> GoesAgain(x)
    BY <1>1, <1>3, <2>1 DEF GoesAgain
  <2>3. ChainState' /\ RedactionMatchesTransport'
    BY <1>1, <1>3, <2>1, <2>2, EventsOfClient
       DEF initVars, IInv, ChainState, RedactionMatchesTransport, Current
  <2>4. PrintsCounted'
    BY <1>1, <2>2 DEF initVars, IInv, PrintsCounted
  <2>5. ThrownState'
    BY <1>1, <1>3, <2>1 DEF initVars, IInv, ThrownState, Current
  <2> QED
    BY <2>3, <2>4, <2>5
<1>6. HooksReady'
  BY <1>1, LeavesHooks
<1> QED
  BY <1>2, <1>4, <1>5, <1>6 DEF IInv

LEMMA PipelineKeeps ==
  ASSUME IInv, NEW e \in Captures, Pipeline(e)
  PROVE  IInv'
<1>1. /\ stage[e] \in InPipeline
      /\ redactorLoaded' \in BOOLEAN
      /\ redactorLoaded => redactorLoaded'
      /\ UNCHANGED <<initVars, deploying>>
  BY DEF Pipeline, Fingerprinted, SubstrateFlushed, HookPasses, HookDrops, V2Built,
         V2Unsigned, V2Failed, Redact, RedactorMissing, InPipeline, IInv, ClientTypes
<1>2. Current > 0 /\ Config.redact \in BOOLEAN
  BY <1>1, CurrentIsNat DEF IInv, ChainState, InPipeline, Config
<1>3. e \in thrown => stage[e] = "redact" /\ redactorLoaded
  BY <1>1 DEF IInv, ThrownState, InPipeline
<1>4. ASSUME NEW s \in InPipeline \cup {"filtered", "lost"}, s # "hooks", MoveTo(e, s),
             hooksLeft' \in {hooksLeft, [hooksLeft EXCEPT ![e] = <<>>]}
      PROVE  MovesOn(e) /\ HooksReady' /\ thrown' = thrown
  BY <1>4, LeavesHooks DEF MovesOn, MoveTo
<1>5. ASSUME SendV1(e), hooksLeft' = hooksLeft
      PROVE  MovesOn(e) /\ HooksReady' /\ thrown' = thrown
  <2>1. MovesOn(e) /\ HooksReady'
    BY <1>2, <1>5, SendV1MovesOn, StageOfMovesOn, LeavesHooks
  <2>2. thrown' = thrown
    BY <1>5 DEF SendV1, MoveTo, Hand, HandTo
  <2> QED
    BY <2>1, <2>2
<1>6. ASSUME Hand(e, Config.redact), hooksLeft' = hooksLeft
      PROVE  MovesOn(e) /\ HooksReady' /\ thrown' = thrown
  BY <1>6, LeavesHooks DEF MovesOn, Hand, HandTo
<1>7. ASSUME HandUnsigned(e), hooksLeft' = hooksLeft
      PROVE  MovesOn(e) /\ HooksReady'
  <2>1. CASE ~ThrowsLocally(e)
    BY <1>6, <1>7, <2>1 DEF HandUnsigned
  <2>2. CASE ThrowsLocally(e)
    <3>1. \E s : s # "hooks" /\ stage' = [stage EXCEPT ![e] = s]
      BY <1>7, <2>2 DEF HandUnsigned
    <3> QED
      BY <1>7, <2>2, <3>1, LeavesHooks DEF MovesOn
  <2> QED
    BY <2>1, <2>2
<1>8. ASSUME MovesOn(e), HooksReady', thrown' = thrown, stage[e] # "redact"
      PROVE  IInv'
  BY <1>1, <1>3, <1>8, MovesOnKeeps
<1>9. CASE Fingerprinted(e) \/ SubstrateFlushed(e) \/ HookPasses(e)
  <2>1. \/ MoveTo(e, "substrate") /\ hooksLeft' = hooksLeft
        \/ \E list : RunHooks(e, list)
    BY <1>9 DEF Fingerprinted, SubstrateFlushed, HookPasses, StartHooks
  <2>2. MovesOn(e) /\ HooksReady'
    BY <1>2, <1>4, <2>1, RunHooksMovesOn DEF InPipeline
  <2>3. thrown' = thrown /\ stage[e] # "redact"
    BY <1>9 DEF Fingerprinted, SubstrateFlushed, HookPasses, StartHooks, RunHooks,
                AfterHooks, SendV1, MoveTo, Hand, HandTo
  <2> QED
    BY <1>8, <2>2, <2>3
<1>10. CASE HookDrops(e)
  <2>1. MovesOn(e) /\ HooksReady' /\ thrown' = thrown
    BY <1>4, <1>10 DEF HookDrops
  <2> QED
    BY <1>8, <1>10, <2>1 DEF HookDrops
<1>11. CASE V2Built(e)
  <2>1. /\ hooksLeft' = hooksLeft
        /\ IF Config.redact THEN MoveTo(e, "redactV2") ELSE Hand(e, FALSE)
    BY <1>11 DEF V2Built
  <2>2. MoveTo(e, "redactV2") \/ Hand(e, Config.redact)
    <3>1. CASE Config.redact
      BY <2>1, <3>1
    <3>2. CASE ~Config.redact
      <4>1. Config.redact = FALSE
        BY <1>2, <3>2
      <4> QED
        BY <2>1, <3>2, <4>1
    <3> QED
      BY <3>1, <3>2
  <2>3. MovesOn(e) /\ HooksReady' /\ thrown' = thrown
    BY <1>4, <1>6, <2>1, <2>2 DEF InPipeline
  <2> QED
    BY <1>8, <1>11, <2>3 DEF V2Built
<1>12. CASE V2Unsigned(e)
  <2>1. /\ stage[e] = "v2" /\ hooksLeft' = hooksLeft
        /\ IF Config.redact THEN MoveTo(e, "redactUnsigned") ELSE HandUnsigned(e)
    BY <1>12 DEF V2Unsigned
  <2>2. CASE Config.redact
    <3>1. MovesOn(e) /\ HooksReady' /\ thrown' = thrown
      BY <1>4, <2>1, <2>2 DEF InPipeline
    <3> QED
      BY <1>8, <2>1, <3>1
  <2>3. CASE ~Config.redact
    <3>1. MovesOn(e) /\ HooksReady'
      BY <1>7, <2>1, <2>3
    <3> QED
      BY <1>1, <1>3, <2>1, <2>3, <3>1, MovesOnKeeps
  <2> QED
    BY <2>2, <2>3
<1>13. CASE V2Failed(e)
  <2>1. MovesOn(e) /\ HooksReady' /\ thrown' = thrown
    BY <1>5, <1>13 DEF V2Failed
  <2> QED
    BY <1>8, <1>13, <2>1 DEF V2Failed
<1>14. CASE Redact(e)
  <2>1. redactorLoaded' = TRUE /\ hooksLeft' = hooksLeft
    BY <1>14 DEF Redact
  <2>2. CASE Hand(e, Config.redact)
    <3>1. MovesOn(e) /\ HooksReady' /\ thrown' = thrown
      BY <1>6, <2>1, <2>2
    <3> QED
      BY <1>1, <2>2, <3>1, MovesOnKeeps
  <2>3. CASE stage[e] = "redactUnsigned" /\ HandUnsigned(e)
    <3>1. MovesOn(e) /\ HooksReady'
      BY <1>7, <2>1, <2>3
    <3> QED
      BY <1>1, <1>3, <2>1, <2>3, <3>1, MovesOnKeeps
  <2> QED
    BY <1>14, <2>2, <2>3 DEF Redact
<1>15. CASE RedactorMissing(e)
  <2>1. e \notin thrown
    BY <1>3, <1>15 DEF RedactorMissing
  <2>2. MovesOn(e) /\ HooksReady' /\ thrown' = thrown
    BY <1>4, <1>5, <1>15 DEF RedactorMissing
  <2> QED
    BY <1>1, <2>1, <2>2, MovesOnKeeps
<1> QED
  BY <1>9, <1>10, <1>11, <1>12, <1>13, <1>14, <1>15 DEF Pipeline

\* A marker goes to the transport of the init that reported it.
LEMMA SendDeployKeeps ==
  ASSUME IInv, NEW k \in DOMAIN DeployOf, SendDeploy(k)
  PROVE  IInv'
<1> DEFINE d == DeployOf[k]
<1>1. /\ k \in 1..Current /\ d \in deploying
      /\ deploying' = deploying \ {d}
      /\ HandTo(d, k)
      /\ UNCHANGED <<context, configs, lastRelease, substrate, redactorLoaded, stage, hooksLeft,
                     redacted>>
  BY DEF SendDeploy, initVars
<1>2. d \in Events /\ d \notin Captures /\ k \in 1..MaxInits
  BY EventsOfClient, CaptureClientAssumption
<1>3. via[d] = 0 /\ Current' = Current
  BY <1>1 DEF IInv, DeployState, Current
<1>4. /\ P1!IInv' /\ P2!IInv'
      /\ WhereItWent'
      /\ via' \in [Events -> 0..MaxInits]
      /\ \A x \in Events : via'[x] = IF x = d THEN k ELSE via[x]
      /\ prints' = IF configs[k].local THEN [prints EXCEPT ![d] = @ + 1] ELSE prints
      /\ thrown' = thrown
  BY <1>1, <1>2, <1>3, HandToReaches
<1>5. /\ prints \in [Events -> 0..2] /\ prints[d] = 0 /\ prints' \in [Events -> 0..2]
      /\ thrown \subseteq Captures /\ d \notin thrown
      /\ \A x \in Events : prints'[x] = IF x = d /\ configs[k].local THEN 1 ELSE prints[x]
  <2>1. prints \in [Events -> 0..2] /\ thrown \subseteq Captures /\ d \notin thrown
    BY <1>2 DEF IInv, ClientTypes
  <2>2. prints[d] = 0
    BY <1>2, <1>3, <2>1 DEF IInv, PrintsCounted
  <2>3. prints[d] + 1 = 1 /\ 1 \in 0..2
    BY <2>2
  <2> QED
    BY <1>2, <1>4, <2>1, <2>2, <2>3
<1>6. ClientTypes'
  BY <1>1, <1>4, <1>5 DEF IInv, ClientTypes
<1>7. /\ HooksReady' /\ ChainState' /\ RedactionMatchesTransport'
      /\ PrintsCounted' /\ ThrownState'
  <2>1. \A x : GoesAgain(x)' <=> GoesAgain(x)
    BY <1>1, <1>4 DEF GoesAgain
  <2>2. \A x \in Captures : x \in Events /\ x # d /\ via'[x] = via[x]
    BY <1>2, <1>4, EventsOfClient
  <2>3. HooksReady' /\ ChainState' /\ RedactionMatchesTransport'
    BY <1>1, <1>3, <2>1, <2>2 DEF IInv, HooksReady, ChainState, RedactionMatchesTransport
  <2>4. ThrownState'
    BY <1>1, <1>3, <1>4, <1>5, <2>2 DEF IInv, ThrownState
  <2>5. k # 0
    BY <1>2
  <2>6. PrintsCounted'
    <3>1. ASSUME NEW x \in Events, x # d
          PROVE  prints'[x] = prints[x] /\ via'[x] = via[x]
      BY <1>4, <1>5, <3>1
    <3>2. /\ prints'[d] = IF configs[k].local THEN 1 ELSE 0
          /\ via'[d] = k /\ ~GoesAgain(d)' /\ d \notin thrown'
      BY <1>2, <1>4, <1>5 DEF GoesAgain
    <3>3. prints'[d] = (IF d \in thrown' THEN 1 ELSE 0)
                       + (IF via'[d] # 0 /\ configs'[via'[d]].local /\ ~GoesAgain(d)'
                          THEN 1 ELSE 0)
      BY <1>1, <2>5, <3>2
    <3> HIDE DEF d
    <3> QED
      BY <1>1, <1>4, <2>1, <3>1, <3>3 DEF IInv, PrintsCounted
  <2> QED
    BY <2>3, <2>4, <2>6
<1>8. DeployState'
  <2>1. \A j \in DOMAIN DeployOf : j # k => DeployOf[j] # d /\ DeployOf[j] \in Events
    BY CaptureClientAssumption, EventsOfClient DEF IsInjective
  <2>2. \A j \in DOMAIN DeployOf :
          via'[DeployOf[j]] = IF j = k THEN k ELSE via[DeployOf[j]]
    BY <1>2, <1>4, <2>1
  <2>3. \A j \in DOMAIN DeployOf : DeployOf[j] \in deploying' => j # k
    BY <1>1
  <2>4. 2 \in DOMAIN DeployOf
    BY CaptureClientAssumption DEF MaxInits
  <2> QED
    BY <1>1, <1>3, <2>2, <2>3, <2>4 DEF IInv, DeployState
<1> QED
  BY <1>4, <1>6, <1>7, <1>8 DEF IInv

LEMMA FlushKeeps ==
  ASSUME IInv, NEW f \in Flushers, Flush(f)
  PROVE  IInv'
<1>1. UNCHANGED <<initVars, redactorLoaded, stage, hooksLeft, via, redacted, deploying,
                  prints, thrown>>
  BY DEF Flush
<1>2. substrate' \in BOOLEAN
  BY <1>1 DEF initVars, IInv, ClientTypes
<1>3. Current \in {1, 2}
  BY CurrentIsNat DEF Flush, MaxInits
<1>4. \/ T1!FlushCall(f) /\ UNCHANGED transport2
      \/ T2!FlushCall(f) /\ UNCHANGED transport1
  BY <1>3 DEF Flush
<1>5. /\ P1!IInv' /\ P1!Reached' = P1!Reached
      /\ P2!IInv' /\ P2!Reached' = P2!Reached
  BY <1>4, FirstTransport, SecondTransport, TransportAssumptions, TransportsIdle,
     P1!SettleKeepsReached, P2!SettleKeepsReached DEF IInv
<1> QED
  BY <1>1, <1>2, <1>5, ChainIdle DEF initVars

LEMMA TransportSettleKeeps ==
  ASSUME IInv, TransportSettle
  PROVE  IInv'
<1>1. UNCHANGED clientVars /\ substrate' \in BOOLEAN
  BY DEF TransportSettle, clientVars, initVars, IInv, ClientTypes
<1>2. /\ P1!IInv' /\ P1!Reached' = P1!Reached
      /\ P2!IInv' /\ P2!Reached' = P2!Reached
  BY FirstTransport, SecondTransport, TransportAssumptions, TransportsIdle,
     P1!SettleKeepsReached, P2!SettleKeepsReached DEF IInv, TransportSettle
<1> QED
  BY <1>1, <1>2, ChainIdle DEF clientVars, initVars

-----------------------------------------------------------------------------
(* The theorems *)

LEMMA InvariantInit == Init => IInv
<1> SUFFICES ASSUME Init
             PROVE  IInv
  OBVIOUS
<1>1. /\ P1!IInv /\ P1!Reached = {}
      /\ P2!IInv /\ P2!Reached = {}
  BY FirstTransport, SecondTransport, TransportAssumptions,
     P1!NothingReachedYet, P2!NothingReachedYet DEF Init
<1>2. configs = <<>> /\ <<>> \in Seq(Configs) /\ Len(<<>>) = 0 /\ Current = 0
  BY EmptySeq DEF Init, Current
<1>3. /\ \A e \in Events : via[e] = 0
      /\ \A e \in Captures : stage[e] = "new"
      /\ via \in [Events -> 0..MaxInits]
  BY DEF Init, MaxInits
<1>4. ClientTypes
  <2>1. configs \in Seq(Configs) /\ Len(configs) <= MaxInits
    BY <1>2 DEF MaxInits
  <2>2. /\ substrate \in BOOLEAN /\ redactorLoaded \in BOOLEAN
        /\ redacted \in [Captures -> BOOLEAN]
        /\ deploying \subseteq Range(DeployOf)
        /\ thrown \subseteq Captures
        /\ context \in [Captures -> Contexts]
    BY DEF Init
  <2>3. stage \in [Captures -> {"new"} \cup InPipeline \cup Ended]
    BY DEF Init
  <2>4. prints \in [Events -> 0..2]
    <3>1. 0 \in 0..2
      OBVIOUS
    <3> QED
      BY <3>1 DEF Init
  <2> QED
    BY <1>3, <2>1, <2>2, <2>3, <2>4 DEF ClientTypes
<1>5. HooksReady
  BY <1>3 DEF Init, HooksReady
<1>6. WhereItWent
  BY <1>1, <1>2, <1>3 DEF Init, WhereItWent
<1>7. ChainState /\ RedactionMatchesTransport /\ PrintsCounted /\ ThrownState
  <2>1. thrown = {} /\ \A e \in Events : prints[e] = 0 /\ via[e] = 0
    BY <1>3 DEF Init
  <2>2. Captures \subseteq Events
    BY EventsOfClient
  <2>3. ChainState
    BY <1>3, <2>1, <2>2 DEF ChainState, GoesAgain
  <2>4. RedactionMatchesTransport /\ ThrownState
    BY <2>1, <2>2 DEF RedactionMatchesTransport, ThrownState
  <2>5. PrintsCounted
    BY <2>1 DEF PrintsCounted, GoesAgain
  <2> QED
    BY <2>3, <2>4, <2>5
<1>8. DeployState
  <2>1. \A k \in DOMAIN DeployOf : via[DeployOf[k]] = 0
    BY <1>3, EventsOfClient, CaptureClientAssumption
  <2> QED
    BY <1>2, <2>1 DEF Init, DeployState
<1> QED
  BY <1>1, <1>4, <1>5, <1>6, <1>7, <1>8 DEF IInv

LEMMA InvariantStep == IInv /\ [Next]_vars => IInv'
<1> SUFFICES ASSUME IInv, [Next]_vars
             PROVE  IInv'
  OBVIOUS
<1>1. ASSUME NEW cfg \in Configs, InitClient(cfg)
      PROVE  IInv'
  BY <1>1, InitClientKeeps
<1>2. CASE SubstrateReady
  <2>1. /\ substrate' \in BOOLEAN
        /\ UNCHANGED <<context, configs, registered, lastRelease, redactorLoaded, stage,
                       hooksLeft, via, redacted, deploying, prints, thrown, transport1,
                       transport2>>
    BY <1>2 DEF SubstrateReady
  <2> QED
    BY <2>1, TransportsIdle, ChainIdle
<1>3. ASSUME NEW e \in Captures, Capture(e)
      PROVE  IInv'
  BY <1>3, CaptureKeeps
<1>4. ASSUME NEW e \in Captures, Pipeline(e)
      PROVE  IInv'
  BY <1>4, PipelineKeeps
<1>5. ASSUME NEW k \in DOMAIN DeployOf, SendDeploy(k)
      PROVE  IInv'
  BY <1>5, SendDeployKeeps
<1>6. ASSUME NEW f \in Flushers, Flush(f)
      PROVE  IInv'
  BY <1>6, FlushKeeps
<1>7. CASE TransportSettle
  BY <1>7, TransportSettleKeeps
<1>8. CASE UNCHANGED vars
  <2>1. substrate' \in BOOLEAN
    BY <1>8 DEF vars, clientVars, initVars, IInv, ClientTypes
  <2> QED
    BY <1>8, <2>1, TransportsIdle, ChainIdle DEF vars, clientVars, initVars
<1> QED
  BY <1>1, <1>2, <1>3, <1>4, <1>5, <1>6, <1>7, <1>8 DEF Next

\* The inductive invariant holds in every reachable state.
LEMMA Invariant == Spec => []IInv
  BY InvariantInit, InvariantStep, PTL DEF Spec

\* Type correctness of the client and of both its transports (client.ts:32-76).
THEOREM TypeCorrect == Spec => []TypeOK
<1>1. IInv => TypeOK
  <2>1. IInv => T1!TypeOK /\ T2!TypeOK
    BY FirstTransport, SecondTransport DEF IInv, P1!IInv, P2!IInv
  <2>2. IInv => ClientTypes /\ HooksReady
    BY DEF IInv
  <2> QED
    BY <2>1, <2>2 DEF ClientTypes, HooksReady, TypeOK
<1> QED
  BY <1>1, Invariant, PTL

\* An event leaves the chain of hooks once, for one transport, whatever init,
\* hooks, fallbacks and flush do meanwhile, unless a local transport threw on it in
\* the v2 branch: then it goes out twice (client.ts:79-119, transport.ts:187).
THEOREM EventHandedOnce == Spec => []HandedOnce
<1>1. IInv => HandedOnce
  <2> SUFFICES ASSUME IInv
               PROVE  HandedOnce
    OBVIOUS
  <2>1. /\ T1!Held \cup acked1 \cup dropped1 = P1!Reached
        /\ T2!Held \cup acked2 \cup dropped2 = P2!Reached
    BY FirstTransport, SecondTransport DEF P1!Reached, P2!Reached
  <2>2. ASSUME NEW e \in Events
        PROVE  /\ via[e] \in 0..2 /\ via[e] <= Current
               /\ e \in P1!Reached <=> via[e] = 1 /\ ~configs[1].local
               /\ e \in P2!Reached <=> via[e] = 2 /\ ~configs[2].local
    BY <2>2 DEF IInv, ClientTypes, WhereItWent, MaxInits
  <2>3. ASSUME NEW e \in Events
        PROVE  Outings(e) = (IF e \in thrown THEN 1 ELSE 0)
                            + (IF via[e] # 0 /\ ~GoesAgain(e) THEN 1 ELSE 0)
    <3>1. prints[e] = (IF e \in thrown THEN 1 ELSE 0)
                      + (IF via[e] # 0 /\ configs[via[e]].local /\ ~GoesAgain(e)
                         THEN 1 ELSE 0)
      BY <2>3 DEF IInv, PrintsCounted
    <3>2. GoesAgain(e) => configs[via[e]].local
      BY DEF IInv, ThrownState, GoesAgain
    <3>3. /\ Outings(e) = prints[e] + (IF via[e] = 1 /\ ~configs[1].local THEN 1 ELSE 0)
                                    + (IF via[e] = 2 /\ ~configs[2].local THEN 1 ELSE 0)
          /\ via[e] = 0 \/ via[e] = 1 \/ via[e] = 2
      BY <2>1, <2>2, <2>3 DEF Outings
    <3> QED
      BY <3>1, <3>2, <3>3
  <2>4. \A e \in Captures :
          Outings(e) = (IF stage[e] = "handed" THEN 1 ELSE 0) + (IF e \in thrown THEN 1 ELSE 0)
    <3> SUFFICES ASSUME NEW e \in Captures
                 PROVE  Outings(e) = (IF stage[e] = "handed" THEN 1 ELSE 0)
                                     + (IF e \in thrown THEN 1 ELSE 0)
      OBVIOUS
    <3>1. via[e] # 0 /\ ~GoesAgain(e) <=> stage[e] = "handed"
      BY DEF IInv, ChainState, GoesAgain
    <3> QED
      BY <2>3, <3>1, EventsOfClient
  <2>5. \A d \in Range(DeployOf) : Outings(d) <= 1
    <3>1. \A d \in Range(DeployOf) : d \in Events /\ d \notin thrown
      BY CaptureClientAssumption DEF Events, IInv, ClientTypes
    <3> QED
      BY <2>3, <3>1
  <2>6. \A e \in thrown :
          /\ stage[e] \in {"redact", "handed"}
          /\ context[e] # "tree" /\ \E k \in 1..Current : configs[k].local
    BY DEF IInv, ThrownState
  <2> QED
    BY <2>4, <2>5, <2>6 DEF HandedOnce
<1> QED
  BY <1>1, Invariant, PTL

\* A handed event is redacted exactly when the configuration behind its transport
\* asks for it (client.ts:92-96, 115-119).
THEOREM RedactionFits == Spec => []RedactionMatchesTransport
<1>1. IInv => RedactionMatchesTransport
  BY DEF IInv
<1> QED
  BY <1>1, Invariant, PTL

\* A deploy marker goes to the transport of the init that reported it, and one
\* release leaves one marker (client.ts:205-208, 273, 287).
THEOREM DeployGoesHome == Spec => []DeployKeepsTransport
<1>1. IInv => DeployKeepsTransport
  <2> SUFFICES ASSUME IInv
               PROVE  DeployKeepsTransport
    OBVIOUS
  <2>1. \A k \in DOMAIN DeployOf : via[DeployOf[k]] \in {0, k}
    BY DEF IInv, DeployState
  <2>2. ASSUME Current = 2, configs[1].release = configs[2].release
        PROVE  ~(DeployOf[2] \in deploying \/ via[DeployOf[2]] # 0)
    BY <2>2 DEF IInv, DeployState
  <2> QED
    BY <2>1, <2>2 DEF DeployKeepsTransport
<1> QED
  BY <1>1, Invariant, PTL

-----------------------------------------------------------------------------
(***************************************************************************)
(* The identity the processes of a user share (PayloadV2).                 *)
(*                                                                         *)
(* As long as no two creations met and no read failed, a process creates   *)
(* only while the file holds no key, so whatever is in memory is none; the *)
(* key it writes is then the only one.                                     *)
(***************************************************************************)
CreatingNow(p) == step[p] \in {"open", "write"}

IdentityInv ==
  /\ PayloadTypeOK
  /\ step = [p \in Processes |-> step[p]]
  /\ cachedKeypair = [p \in Processes |-> cachedKeypair[p]]
  /\ fresh = [p \in Processes |-> fresh[p]]
  /\ \A p \in Processes : CreatingNow(p) => fresh[p] \in Keys
  /\ OneIdentity
  /\ excused = {} =>
       /\ \A p \in Processes : CreatingNow(p) => keyFile \notin Keys
       /\ \A p, q \in Processes : CreatingNow(p) /\ CreatingNow(q) => p = q

LEMMA IdentityStarts == PayloadInit => IdentityInv
  BY PayloadAssumption DEF PayloadInit, IdentityInv, PayloadTypeOK, OneIdentity, CreatingNow, Steps

LEMMA IdentityKept == IdentityInv /\ [PayloadNext]_payloadVars => IdentityInv'
<1> USE PayloadAssumption DEF IdentityInv, PayloadTypeOK, OneIdentity, CreatingNow, Steps, Goto
<1>1. CASE UNCHANGED payloadVars
  BY <1>1 DEF payloadVars
<1>2. ASSUME IdentityInv, NEW p \in Processes, Enrich(p)
      PROVE  IdentityInv'
  BY <1>2 DEF Enrich
<1>3. ASSUME IdentityInv, NEW p \in Processes, BuildPayloadV2Unsigned(p)
      PROVE  IdentityInv'
  BY <1>3 DEF BuildPayloadV2Unsigned
<1>4. ASSUME IdentityInv, NEW p \in Processes, CachedKey(p)
      PROVE  IdentityInv'
  BY <1>4 DEF CachedKey
<1>5. ASSUME IdentityInv, NEW p \in Processes, LoadKeypair(p)
      PROVE  IdentityInv'
  BY <1>5 DEF LoadKeypair
<1>6. ASSUME IdentityInv, NEW p \in Processes, GenerateKeypair(p)
      PROVE  IdentityInv'
  <2>1. PICK k \in Keys \ used : fresh' = [fresh EXCEPT ![p] = k]
    BY <1>6 DEF GenerateKeypair
  <2>2. excused' = {} => excused = {} /\ keyFile \notin Keys /\ Creating(p) = {}
    BY <1>6 DEF GenerateKeypair
  <2>3. QED
    BY <1>6, <2>1, <2>2 DEF GenerateKeypair, Creating
<1>7. ASSUME IdentityInv, NEW p \in Processes, SaveOpen(p)
      PROVE  IdentityInv'
  BY <1>7 DEF SaveOpen
<1>8. ASSUME IdentityInv, NEW p \in Processes, SaveFails(p)
      PROVE  IdentityInv'
  BY <1>8 DEF SaveFails
<1>9. ASSUME IdentityInv, NEW p \in Processes, SaveWrite(p)
      PROVE  IdentityInv'
  BY <1>9 DEF SaveWrite
<1>10. ASSUME IdentityInv, NEW p \in Processes, SignReceiptId(p)
       PROVE  IdentityInv'
  BY <1>10 DEF SignReceiptId
<1>11. ASSUME IdentityInv, NEW p \in Processes, Finish(p)
       PROVE  IdentityInv'
  BY <1>11 DEF Finish
<1>12. ASSUME IdentityInv, NEW p \in Processes, Crash(p)
       PROVE  IdentityInv'
  BY <1>12 DEF Crash
<1>13. QED
  BY <1>1, <1>2, <1>3, <1>4, <1>5, <1>6, <1>7, <1>8, <1>9, <1>10, <1>11, <1>12 DEF PayloadNext

\* Whatever processes sign, crash and fail to save, a key in memory is the one
\* in keypair.json until two creations overlap or a read of the file fails
\* (getOrCreateKeypair, src/src/signing.ts).
THEOREM OneKeyInMemory == PayloadInit /\ [][PayloadNext]_payloadVars => []OneIdentity
<1>1. IdentityInv => OneIdentity
  BY DEF IdentityInv
<1>2. QED
  BY <1>1, IdentityStarts, IdentityKept, PTL

-----------------------------------------------------------------------------
(***************************************************************************)
(* The file caches (FileCaches).                                           *)
(*                                                                         *)
(* An entry is kept under the mtimes its files had before they were read.  *)
(* When a later stat finds the same sum, and no file has an mtime that it, *)
(* or a later one, had had before, then each has the mtime it had, and has *)
(* not been written since: what the entry holds is what they hold.  Two    *)
(* callers that saw one key may read different contents, but each of what  *)
(* was read was on the disk during the call of both.                       *)
(***************************************************************************)
FileTypes ==
  /\ slot \in Slots /\ clock \in Nat \ {0}
  /\ disk \in [AllFiles -> Nat] /\ mtime \in [AllFiles -> Nat] /\ newest \in [AllFiles -> Nat]
  /\ newer \in [AllFiles -> BOOLEAN]
  /\ \A f \in AllFiles : mtime[f] <= newest[f]
  /\ \A f \in AllFiles : newer[f] /\ disk[f] # Missing => mtime[f] = newest[f]
  /\ head \in [repo : BOOLEAN, dir : BOOLEAN, sha : 0 .. clock, mtime : 0 .. clock]
  /\ located = NotLooked \/ located \subseteq (IF Finding THEN SchemaFiles ELSE {"repo"})
  /\ cache \in [mtime : Int, content : SUBSET Nat]
  /\ compiled \in [Commits -> [mtime : Int, frame : SUBSET Nat, content : SUBSET Nat]]
  /\ headCache \in [mtime : Int, sha : Int]
  /\ pc = [r \in Readers |-> pc[r]] /\ stat \in [Readers -> Nat]
  /\ held \in [Readers -> SUBSET Nat] /\ during \in [Readers -> SUBSET Nat]
  /\ commit \in [Readers -> Commits] /\ keyed \in [Readers -> Nat]
  /\ framed \in [Readers -> SUBSET Nat] /\ sha \in [Readers -> Int]
  /\ hit \in [Readers -> BOOLEAN] /\ retimed = [r \in Readers |-> retimed[r]]
  /\ answer = [r \in Readers |-> answer[r]]
  /\ \A r \in Readers : slot # "blame" => answer[r] \in SUBSET Nat

\* Where a call of each kind of slot passes; the Node readers run a call at a
\* time.
StagesOf ==
  CASE slot = "compiler" ->
         {"idle", "compile", "typescript", "zod", "find", "stat", "load", "store", "keep", "done"}
    [] slot = "blame" -> {"idle", "find", "stat", "root", "head", "rev-parse", "blame", "done"}
    [] OTHER -> {"idle", "find", "stat", "load", "store", "done"}

CallsInTurn ==
  /\ \A r \in Readers : pc[r] \in StagesOf
  /\ \A r, o \in Readers : slot \in Node /\ pc[r] # "idle" /\ pc[o] # "idle" => r = o
  /\ \A r \in Readers : Finding /\ pc[r] \in {"stat", "load", "store"} => located # NotLooked

SeenFromTheStart ==
  \A r \in Readers : pc[r] # "idle" =>
    \A f \in Files : disk[f] \in during[r] /\ (newer[f] \/ f \in retimed[r])

\* The key of a content is the sum of mtimes that the files had before it was
\* read.  When the mtimes are those still, and each is the first of its kind, then
\* the files were not written since and the content is of them.
KeyPart(files, base, f) == IF f \in files THEN base[f] ELSE 0
KeyOf(files, base) ==
  KeyPart(files, base, "frame") + KeyPart(files, base, "schema1") + KeyPart(files, base, "schema2")

KeyedIn(files, d, m, n, w, key, content) ==
  \E base \in [AllFiles -> Nat] :
    /\ key = KeyOf(files, base)
    /\ \A f \in files : base[f] <= n[f]
    /\ (\A f \in files : d[f] # Missing /\ w[f] /\ m[f] = base[f])
         => content \subseteq {d[f] : f \in files}

Keyed(files, key, content) == KeyedIn(files, disk, mtime, newest, newer, key, content)

Told(r) == retimed[r] \cap LoadedFrom = {}

LoadsAnswer ==
  slot # "blame" =>
    /\ cache.mtime # -1 =>
         (Finding => located # NotLooked) /\ Keyed(LoadFiles, cache.mtime, cache.content)
    /\ \A r \in Readers :
         /\ pc[r] = "load" => Keyed(LoadFiles, stat[r], {})
         /\ pc[r] = "store" => Keyed(LoadFiles, stat[r], held[r]) /\ held[r] \subseteq during[r]
         /\ pc[r] = "load" /\ cache.mtime = stat[r] /\ Told(r) => cache.content \subseteq during[r]
    /\ \A r, o \in Readers :
         pc[r] = "load" /\ pc[o] = "store" /\ stat[r] = stat[o] /\ Told(r) => held[o] \subseteq during[r]

\* The same of the frame's file, under the compiler's key.
Compiling == {"typescript", "zod", "find", "stat", "load", "store", "keep"}
ContractsAnswer ==
  slot = "compiler" =>
    /\ \A c \in Commits :
         compiled[c].mtime # -1 => Keyed({"frame"}, compiled[c].mtime, compiled[c].frame)
    /\ \A r \in Readers :
         /\ pc[r] \in {"idle", "compile"} => framed[r] = {}
         /\ pc[r] \in Compiling => Keyed({"frame"}, keyed[r], framed[r]) /\ framed[r] \subseteq during[r]

\* A blame is no older than the commit it is kept under, and that is no older
\* than the last change of .git/HEAD; and its file is keyed as any other.
Blaming == {"root", "head", "rev-parse", "blame"}
HeadRead ==
  /\ head.mtime <= head.sha /\ (~head.dir => head.repo)
  /\ headCache.mtime <= headCache.sha /\ headCache.sha <= head.sha
  /\ \A r \in Readers :
       /\ pc[r] \in {"head", "rev-parse", "blame"} => head.repo
       /\ pc[r] = "rev-parse" => keyed[r] <= head.mtime
       /\ pc[r] = "blame" => IF sha[r] = NoHead THEN ~head.dir \/ unread
                             ELSE keyed[r] <= sha[r] /\ sha[r] <= head.sha
BlamesAnswer ==
  slot = "blame" =>
    /\ HeadRead /\ (located = {"repo"} => head.repo)
    /\ \A b \in blameCache :
         /\ b.sha \in Int /\ b.key[2] \in Int /\ b.sha >= b.key[2]
         /\ b.file \in Nat /\ Keyed({"frame"}, b.key[1], {b.file})
    /\ \A r \in Readers : pc[r] \in Blaming =>
         /\ Keyed({"frame"}, stat[r], {})
         /\ "frame" \notin retimed[r] =>
              \A b \in blameCache : b.key[1] = stat[r] => b.file \in during[r]

FilesInv ==
  /\ FileTypes /\ CallsInTurn /\ SeenFromTheStart /\ LoadsAnswer /\ ContractsAnswer /\ BlamesAnswer
  /\ LoadedDuringCall /\ ContractsOfFrame /\ BlameOfHead

Stamped(d, m, n, w) ==
  /\ d \in [AllFiles -> Nat] /\ m \in [AllFiles -> Nat] /\ n \in [AllFiles -> Nat]
  /\ w \in [AllFiles -> BOOLEAN]
  /\ \A f \in AllFiles : m[f] <= n[f]
  /\ \A f \in AllFiles : w[f] /\ d[f] # Missing => m[f] = n[f]

LEMMA KeyMatches ==
  ASSUME NEW files \in SUBSET AllFiles, NEW d, NEW m, NEW n, NEW w, Stamped(d, m, n, w),
         NEW content, KeyedIn(files, d, m, n, w, KeyOf(files, m), content),
         \A f \in files : d[f] # Missing /\ w[f]
  PROVE  content \subseteq {d[f] : f \in files}
<1>1. PICK base \in [AllFiles -> Nat] :
        /\ KeyOf(files, m) = KeyOf(files, base)
        /\ \A f \in files : base[f] <= n[f]
        /\ (\A f \in files : d[f] # Missing /\ w[f] /\ m[f] = base[f])
             => content \subseteq {d[f] : f \in files}
  BY DEF KeyedIn
<1>2. \A f \in AllFiles : f \in files => base[f] <= m[f]
  BY <1>1 DEF Stamped
<1>3. \A f \in AllFiles : m[f] \in Nat /\ base[f] \in Nat
  BY DEF AllFiles, Stamped
<1>4. \A f \in files : m[f] = base[f]
  <2>1. /\ "frame" \in files => m["frame"] = base["frame"]
        /\ "schema1" \in files => m["schema1"] = base["schema1"]
        /\ "schema2" \in files => m["schema2"] = base["schema2"]
    BY <1>1, <1>2, <1>3 DEF KeyOf, KeyPart, AllFiles
  <2>2. QED
    BY <2>1 DEF AllFiles
<1>5. QED
  BY <1>1, <1>4

LEMMA KeyWritten ==
  ASSUME NEW files \in SUBSET AllFiles, NEW d, NEW m, NEW n, NEW w, Stamped(d, m, n, w),
         NEW key, NEW content, KeyedIn(files, d, m, n, w, key, content),
         NEW g \in AllFiles, NEW v \in Nat, NEW t \in Nat
  PROVE  KeyedIn(files, [d EXCEPT ![g] = v], [m EXCEPT ![g] = t],
                 [n EXCEPT ![g] = IF t > @ THEN t ELSE @],
                 [w EXCEPT ![g] = v = Missing \/ t > n[g]], key, content)
<1> DEFINE d1 == [d EXCEPT ![g] = v]
           m1 == [m EXCEPT ![g] = t]
           n1 == [n EXCEPT ![g] = IF t > @ THEN t ELSE @]
           w1 == [w EXCEPT ![g] = v = Missing \/ t > n[g]]
<1>1. PICK base \in [AllFiles -> Nat] :
        /\ key = KeyOf(files, base)
        /\ \A f \in files : base[f] <= n[f]
        /\ (\A f \in files : d[f] # Missing /\ w[f] /\ m[f] = base[f])
             => content \subseteq {d[f] : f \in files}
  BY DEF KeyedIn
<1>2. \A f \in files : f \in AllFiles /\ base[f] \in Nat /\ n[f] \in Nat /\ base[f] <= n[f]
  BY <1>1 DEF Stamped
<1>3. /\ d1[g] = v /\ m1[g] = t /\ w1[g] = (v = Missing \/ t > n[g])
      /\ n1[g] = IF t > n[g] THEN t ELSE n[g]
      /\ \A f \in AllFiles : f # g => d1[f] = d[f] /\ m1[f] = m[f] /\ n1[f] = n[f] /\ w1[f] = w[f]
  BY DEF Stamped
<1> HIDE DEF d1, m1, n1, w1
<1>4. \A f \in files : base[f] <= n1[f]
  BY <1>2, <1>3 DEF Stamped
<1>5. ASSUME \A f \in files : d1[f] # Missing /\ w1[f] /\ m1[f] = base[f]
      PROVE  content \subseteq {d1[f] : f \in files}
  <2>1. g \notin files
    <3> SUFFICES ASSUME g \in files PROVE FALSE
      OBVIOUS
    <3>1. v # Missing /\ t > n[g] /\ t = base[g]
      BY <1>3, <1>5
    <3> QED
      BY <1>2, <3>1
  <2>2. \A f \in files : d1[f] = d[f] /\ w1[f] = w[f] /\ m1[f] = m[f]
    BY <1>2, <1>3, <2>1
  <2>3. content \subseteq {d[f] : f \in files}
    BY <1>1, <1>5, <2>2
  <2> QED
    BY <2>2, <2>3
<1>6. KeyedIn(files, d1, m1, n1, w1, key, content)
  BY <1>1, <1>4, <1>5 DEF KeyedIn
<1> QED
  BY <1>6 DEF d1, m1, n1, w1

LEMMA KeyRead ==
  ASSUME NEW files, NEW d, NEW m, NEW n, NEW w, NEW key, NEW content,
         KeyedIn(files, d, m, n, w, key, content)
  PROVE  KeyedIn(files, d, m, n, w, key,
                 content \cup {d[f] : f \in {h \in files : d[h] # Missing}})
<1>1. PICK base \in [AllFiles -> Nat] :
        /\ key = KeyOf(files, base)
        /\ \A f \in files : base[f] <= n[f]
        /\ (\A f \in files : d[f] # Missing /\ w[f] /\ m[f] = base[f])
             => content \subseteq {d[f] : f \in files}
  BY DEF KeyedIn
<1>2. QED
  BY <1>1 DEF KeyedIn

LEMMA KeyNow ==
  ASSUME NEW files \in SUBSET AllFiles, NEW d, NEW m, NEW n, NEW w, Stamped(d, m, n, w)
  PROVE  KeyedIn(files, d, m, n, w, KeyOf(files, m), {})
  BY DEF KeyedIn, Stamped

LEMMA KeyOfNothing ==
  ASSUME NEW files, NEW d, NEW m, NEW n, NEW w, NEW key, NEW content,
         KeyedIn(files, d, m, n, w, key, content)
  PROVE  KeyedIn(files, d, m, n, w, key, {})
  BY DEF KeyedIn

LEMMA FilesKnown == slot \in Slots => Files \subseteq AllFiles /\ "frame" \in FilesOf["compiler"]
                                       /\ "frame" \in FilesOf["blame"]
                                       /\ (~Finding => "frame" \in Files)
                                       /\ (slot = "compiler" => "frame" \in Files)
                                       /\ (slot = "blame" => "frame" \in Files)
  BY DEF Slots, Files, FilesOf, AllFiles, Finding

LEMMA VersionsAreNumbers ==
  FileTypes => /\ \A files \in SUBSET AllFiles : Versions(files) \in SUBSET Nat
               /\ {disk[f] : f \in Files} \in SUBSET Nat
<1>1. FileTypes => \A f \in AllFiles : disk[f] \in Nat
  BY DEF FileTypes, AllFiles
<1>2. QED
  BY <1>1, FilesKnown DEF Versions, Present, FileTypes

LEMMA SearchFindsSchemas ==
  FileTypes /\ Finding =>
    /\ Search \subseteq SchemaFiles /\ Search # NotLooked
    /\ SchemaFiles \subseteq Files /\ SchemaFiles \subseteq AllFiles
<1>1. FileTypes /\ Finding => Search \subseteq SchemaFiles
  BY DEF FileTypes, Search, Present
<1>2. "not looked" \notin SchemaFiles
  BY DEF SchemaFiles
<1>3. QED
  BY <1>1, <1>2 DEF SchemaFiles, AllFiles, NotLooked

LEMMA LoadFilesKnown ==
  ASSUME FileTypes, Finding => located # NotLooked
  PROVE  LoadFiles \in SUBSET AllFiles /\ LoadFiles \subseteq Files /\ LoadFiles \subseteq LoadedFrom
<1>1. CASE Finding
  BY <1>1 DEF FileTypes, LoadFiles, LoadedFrom, SchemaFiles, AllFiles
<1>2. CASE ~Finding
  BY <1>2, FilesKnown DEF FileTypes, LoadFiles, LoadedFrom, AllFiles
<1>3. QED
  BY <1>1, <1>2

LEMMA FilesStamped == FileTypes => Stamped(disk, mtime, newest, newer)
  BY DEF FileTypes, Stamped

\* What a write does to the files, whichever it is.
LEMMA WriteIsOne ==
  ASSUME FileTypes, Write
  PROVE  \E f \in Files, v \in Nat, t \in Nat :
           /\ f \in AllFiles /\ Written(f, v, t) /\ v \in {Missing, clock + 1}
           /\ clock' = clock + 1
           /\ UNCHANGED <<slot, head, reads, caches, pc, locals, unread, answer>>
<1>1. /\ clock' = clock + 1 /\ UNCHANGED <<slot, head, reads, caches, pc, locals, unread, answer>>
      /\ \E f \in Files : Written(f, Missing, 0) \/ \E t \in Mtimes : Written(f, clock + 1, t)
  BY DEF Write
<1>2. \A f \in Files : f \in AllFiles
  BY FilesKnown DEF FileTypes
<1>3. clock + 1 \in Nat /\ Missing \in Nat
  BY DEF FileTypes, Missing
<1>4. PICK f \in Files : Written(f, Missing, 0) \/ \E t \in Mtimes : Written(f, clock + 1, t)
  BY <1>1
<1>5. CASE Written(f, Missing, 0)
  BY <1>1, <1>2, <1>3, <1>5
<1>6. CASE \E t \in Mtimes : Written(f, clock + 1, t)
  BY <1>1, <1>2, <1>3, <1>6, MtimesAssumption
<1> QED
  BY <1>4, <1>5, <1>6

\* A content stays keyed as its files are written, and is not disturbed by the rest.
LEMMA KeyedStays ==
  ASSUME FileTypes, NEW files \in SUBSET AllFiles, NEW key, NEW content,
         Keyed(files, key, content), Write \/ UNCHANGED <<disk, stamps>>
  PROVE  KeyedIn(files, disk', mtime', newest', newer', key, content)
<1>1. CASE Write
  <2>1. PICK f \in Files, v \in Nat, t \in Nat : f \in AllFiles /\ Written(f, v, t)
    BY <1>1, WriteIsOne
  <2>2. KeyedIn(files, [disk EXCEPT ![f] = v], [mtime EXCEPT ![f] = t],
                [newest EXCEPT ![f] = IF t > @ THEN t ELSE @],
                [newer EXCEPT ![f] = v = Missing \/ t > newest[f]], key, content)
    BY <2>1, FilesStamped, KeyWritten DEF Keyed
  <2> QED
    BY <2>1, <2>2 DEF Written
<1>2. CASE UNCHANGED <<disk, stamps>>
  BY <1>2 DEF Keyed, stamps
<1> QED
  BY <1>1, <1>2

\* What the files are keyed by now, and what matches it.
LEMMA FrameKey ==
  FileTypes => /\ mtime["frame"] = KeyOf({"frame"}, mtime) /\ mtime["frame"] \in Nat
               /\ disk["frame"] \in Nat /\ {"frame"} \in SUBSET AllFiles
  BY DEF FileTypes, KeyOf, KeyPart, AllFiles

LEMMA FrameMatches ==
  ASSUME FileTypes, NEW content, Keyed({"frame"}, mtime["frame"], content),
         disk["frame"] # Missing, newer["frame"]
  PROVE  content \subseteq {disk["frame"]}
<1>1. content \subseteq {disk[f] : f \in {"frame"}}
  BY FrameKey, FilesStamped, KeyMatches DEF Keyed
<1> QED
  BY <1>1

\* What a store leaves in the cache, and what its call goes on with.
LEMMA StoreEffect ==
  ASSUME NEW r \in Readers, LoadStore(r)
  PROVE  /\ pc[r] = "store" /\ Step(r)
         /\ UNCHANGED <<located, compiled, headCache, blameCache, stat, held, keyed, framed, sha, hit,
                        unread>>
         /\ \E content \in {{}, held[r]} : Loaded(r, content)
         /\ cache' \in {cache, NoEntry, [mtime |-> stat[r], content |-> {}],
                        [mtime |-> stat[r], content |-> held[r]]}
<1>1. CASE held[r] = {}
  BY <1>1 DEF LoadStore
<1>2. CASE held[r] # {} /\ held[r] \cap broken # {}
  <2>1. cache' = Unparsable(stat[r]) /\ Loaded(r, {})
    BY <1>2 DEF LoadStore, EntryKey
  <2> QED
    BY <2>1 DEF LoadStore, Unparsable
<1>3. CASE held[r] # {} /\ held[r] \cap broken = {}
  <2>1. cache' = [mtime |-> stat[r], content |-> held[r]] /\ Loaded(r, held[r])
    BY <1>3 DEF LoadStore, EntryKey
  <2> QED
    BY <2>1 DEF LoadStore
<1> QED
  BY <1>1, <1>2, <1>3

LEMMA TypesKept == FilesInv /\ [FileNext]_fileVars => FileTypes'
<1> SUFFICES ASSUME FilesInv, [FileNext]_fileVars PROVE FileTypes'
  OBVIOUS
<1> USE DEF FilesInv, FileTypes, Finding, SchemaFiles, Files, AllFiles, stamps, caches, locals, history, Goes, Answer, Loaded, Step
<1>1. CASE UNCHANGED fileVars
  BY <1>1 DEF fileVars
<1>2. ASSUME Write
      PROVE  FileTypes'
  <2>1. PICK f \in Files, v \in Nat, t \in Nat :
          /\ f \in AllFiles /\ Written(f, v, t) /\ v \in {Missing, clock + 1}
          /\ clock' = clock + 1
          /\ UNCHANGED <<slot, head, reads, caches, pc, locals, unread, answer>>
    BY <1>2, WriteIsOne
  <2>2. /\ disk' \in [AllFiles -> Nat] /\ mtime' \in [AllFiles -> Nat] /\ newest' \in [AllFiles -> Nat]
        /\ newer' \in [AllFiles -> BOOLEAN]
    BY <2>1 DEF Written
  <2>3. /\ disk'[f] = v /\ mtime'[f] = t /\ newer'[f] = (v = Missing \/ t > newest[f])
        /\ newest'[f] = IF t > newest[f] THEN t ELSE newest[f]
        /\ \A g \in AllFiles : g # f => /\ disk'[g] = disk[g] /\ mtime'[g] = mtime[g]
                                        /\ newest'[g] = newest[g] /\ newer'[g] = newer[g]
    BY <2>1 DEF Written
  <2>4. /\ \A g \in AllFiles : mtime'[g] <= newest'[g]
        /\ \A g \in AllFiles : newer'[g] /\ disk'[g] # Missing => mtime'[g] = newest'[g]
    <3>1. newest[f] \in Nat /\ t \in Nat
      BY <2>1
    <3>2. mtime'[f] <= newest'[f] /\ (newer'[f] /\ disk'[f] # Missing => mtime'[f] = newest'[f])
      <4>1. CASE t > newest[f]
        BY <2>3, <3>1, <4>1
      <4>2. CASE ~(t > newest[f])
        <5>1. t <= newest[f] /\ newest'[f] = newest[f] /\ newer'[f] = (v = Missing)
          BY <2>3, <3>1, <4>2
        <5> QED
          BY <2>3, <5>1
      <4> QED
        BY <4>1, <4>2
    <3>3. \A g \in AllFiles : mtime[g] <= newest[g] /\ (newer[g] /\ disk[g] # Missing => mtime[g] = newest[g])
      OBVIOUS
    <3> QED
      BY <2>3, <3>2, <3>3
  <2>5. during' \in [Readers -> SUBSET Nat] /\ retimed' = [r \in Readers |-> retimed'[r]]
    BY <2>1 DEF Written
  <2>6. head' \in [repo : BOOLEAN, dir : BOOLEAN, sha : 0 .. clock', mtime : 0 .. clock']
    BY <2>1
  <2> QED
    BY <2>1, <2>2, <2>4, <2>5, <2>6
<1>3. ASSUME Git
      PROVE  FileTypes'
  <2>1. PICK at \in {head.mtime, clock + 1}, dir \in IF head.repo THEN {head.dir} ELSE BOOLEAN :
          head' = [repo |-> TRUE, dir |-> dir, sha |-> clock + 1, mtime |-> at]
    BY <1>3 DEF Git
  <2>2. head' \in [repo : BOOLEAN, dir : BOOLEAN, sha : 0 .. clock', mtime : 0 .. clock']
    BY <1>3, <2>1 DEF Git
  <2> QED
    BY <1>3, <2>2 DEF Git
<1>4. ASSUME NEW r \in Readers, Begin(r)
      PROVE  FileTypes'
  <2>1. during' \in [Readers -> SUBSET Nat]
    BY <1>4, VersionsAreNumbers DEF Begin
  <2>2. commit' \in [Readers -> Commits]
    BY <1>4 DEF Begin, Commits
  <2>3. retimed' = [o \in Readers |-> retimed'[o]] /\ pc' = [o \in Readers |-> pc'[o]]
    BY <1>4 DEF Begin
  <2> QED
    BY <1>4, <2>1, <2>2, <2>3 DEF Begin
<1>5. ASSUME NEW r \in Readers, FindPath(r)
      PROVE  FileTypes'
  <2>1. located' = NotLooked \/ located' \subseteq (IF Finding THEN SchemaFiles ELSE {"repo"})
    BY <1>5 DEF FindPath, Search, Present
  <2> QED
    BY <1>5, <2>1 DEF FindPath
<1>6. ASSUME NEW r \in Readers, LoadStat(r)
      PROVE  FileTypes'
  <2>1. Mtime(LoadFiles) \in Nat
    BY DEF Mtime, MtimeIn
  <2> QED
    BY <1>6, <2>1 DEF LoadStat
<1>7. ASSUME NEW r \in Readers, LoadRead(r)
      PROVE  FileTypes'
  <2>1. LoadFiles \in SUBSET AllFiles
    BY <1>7 DEF LoadRead, CallsInTurn, LoadFiles
  <2>2. Versions(LoadFiles) \in SUBSET Nat
    BY <2>1, VersionsAreNumbers
  <2>3. held' \in [Readers -> SUBSET Nat]
    BY <1>7, <2>2 DEF LoadRead
  <2> QED
    BY <1>7, <2>3 DEF LoadRead
<1>8. ASSUME NEW r \in Readers, LoadStore(r)
      PROVE  FileTypes'
  <2>1. held[r] \in SUBSET Nat /\ stat[r] \in Nat
    OBVIOUS
  <2>2. cache' \in [mtime : Int, content : SUBSET Nat]
    BY <1>8, <2>1, StoreEffect DEF NoEntry
  <2>3. PICK content \in {{}, held[r]} : Loaded(r, content)
    BY <1>8, StoreEffect
  <2> QED
    <3>1. /\ UNCHANGED <<slot, disk, mtime, newest, newer, head, clock, during, retimed, commit>>
          /\ UNCHANGED <<located, compiled, headCache, stat, held, keyed, framed, sha, hit>>
      BY <1>8, StoreEffect
    <3>2. answer' = [o \in Readers |-> answer'[o]] /\ pc' = [o \in Readers |-> pc'[o]]
      BY <2>3
    <3>3. \A o \in Readers : slot # "blame" => answer'[o] \in SUBSET Nat
      BY <2>1, <2>3
    <3> QED
      BY <2>2, <3>1, <3>2, <3>3
<1>9. ASSUME NEW r \in Readers, Compile(r)
      PROVE  FileTypes'
  <2>1. compiled[commit[r]] \in [mtime : Int, frame : SUBSET Nat, content : SUBSET Nat]
    OBVIOUS
  <2> QED
    BY <1>9, <2>1 DEF Compile
<1>10. ASSUME NEW r \in Readers, RunSource(r)
       PROVE  FileTypes'
  <2>1. Versions({"frame"}) \in SUBSET Nat
    BY VersionsAreNumbers, FrameKey
  <2> QED
    BY <1>10, <2>1 DEF RunSource
<1>11. ASSUME NEW r \in Readers, KeepContracts(r)
       PROVE  FileTypes'
  <2>1. slot # "blame"
    BY <1>11 DEF KeepContracts, CallsInTurn, StagesOf
  <2>2. [mtime |-> keyed[r], frame |-> framed[r], content |-> answer[r]]
          \in [mtime : Int, frame : SUBSET Nat, content : SUBSET Nat]
    BY <2>1
  <2>3. compiled' \in [Commits -> [mtime : Int, frame : SUBSET Nat, content : SUBSET Nat]]
    BY <1>11, <2>2 DEF KeepContracts
  <2> QED
    BY <1>11, <2>3 DEF KeepContracts
<1>12. ASSUME NEW r \in Readers, BlameStat(r)
       PROVE  FileTypes'
  BY <1>12 DEF BlameStat
<1>13. ASSUME NEW r \in Readers, FindRepoRoot(r)
       PROVE  FileTypes'
  <2>1. ~Finding
    BY <1>13 DEF FindRepoRoot, CallsInTurn, StagesOf
  <2> QED
    BY <1>13, <2>1 DEF FindRepoRoot
<1>14. ASSUME NEW r \in Readers, HeadSha(r)
       PROVE  FileTypes'
  <2>1. head.mtime \in Nat /\ headCache.sha \in Int /\ NoHead \in Int
    BY DEF NoHead
  <2> QED
    BY <1>14, <2>1 DEF HeadSha
<1>15. ASSUME NEW r \in Readers, RevParse(r)
       PROVE  FileTypes'
  <2>1. head.sha \in Int /\ NoHead \in Int /\ keyed[r] \in Int
    BY DEF NoHead
  <2>2. sha' \in [Readers -> Int] /\ headCache' \in [mtime : Int, sha : Int]
    BY <1>15, <2>1 DEF RevParse
  <2>3. pc' = [o \in Readers |-> pc'[o]] /\ UNCHANGED answer
    BY <1>15 DEF RevParse
  <2> QED
    BY <1>15, <2>2, <2>3 DEF RevParse
<1>16. ASSUME NEW r \in Readers, GetBlame(r)
       PROVE  FileTypes'
  BY <1>16 DEF GetBlame, CallsInTurn, StagesOf
<1>17. ASSUME NEW r \in Readers, Return(r)
       PROVE  FileTypes'
  <2>1. commit' \in [Readers -> Commits] /\ sha' \in [Readers -> Int]
    BY <1>17 DEF Return, Commits, NoHead
  <2>2. /\ stat' \in [Readers -> Nat] /\ keyed' \in [Readers -> Nat] /\ hit' \in [Readers -> BOOLEAN]
        /\ held' \in [Readers -> SUBSET Nat] /\ framed' \in [Readers -> SUBSET Nat]
        /\ during' \in [Readers -> SUBSET Nat]
    BY <1>17 DEF Return
  <2>3. /\ pc' = [o \in Readers |-> pc'[o]] /\ retimed' = [o \in Readers |-> retimed'[o]]
        /\ answer' = [o \in Readers |-> answer'[o]]
        /\ \A o \in Readers : answer'[o] \in {{}, answer[o]}
    BY <1>17 DEF Return
  <2>4. /\ UNCHANGED <<slot, disk, mtime, newest, newer, head, clock>>
        /\ UNCHANGED <<located, cache, compiled, headCache>>
    BY <1>17 DEF Return
  <2> QED
    BY <2>1, <2>2, <2>3, <2>4
<1>18. QED
  BY <1>1, <1>2, <1>3, <1>4, <1>5, <1>6, <1>7, <1>8, <1>9, <1>10, <1>11, <1>12, <1>13, <1>14, <1>15,
     <1>16, <1>17 DEF FileNext

LEMMA TurnTaken ==
  ASSUME CallsInTurn, pc = [o \in Readers |-> pc[o]], NEW r \in Readers, pc[r] # "idle",
         NEW to \in StagesOf, pc' = [pc EXCEPT ![r] = to], slot' = slot,
         located' = located \/ located' # NotLooked,
         Finding /\ to \in {"stat", "load", "store"} => located' # NotLooked
  PROVE  CallsInTurn'
<1>1. StagesOf' = StagesOf /\ Finding' = Finding
  BY DEF StagesOf, Finding
<1>2. pc'[r] = to /\ \A o \in Readers : o # r => pc'[o] = pc[o]
  OBVIOUS
<1>3. \A o \in Readers : pc'[o] \in StagesOf'
  BY <1>1, <1>2 DEF CallsInTurn
<1>4. \A o, q \in Readers : slot' \in Node /\ pc'[o] # "idle" /\ pc'[q] # "idle" => o = q
  BY <1>2 DEF CallsInTurn
<1>5. \A o \in Readers : Finding' /\ pc'[o] \in {"stat", "load", "store"} => located' # NotLooked
  BY <1>1, <1>2 DEF CallsInTurn
<1> QED
  BY <1>3, <1>4, <1>5 DEF CallsInTurn

LEMMA TurnsKept == FilesInv /\ [FileNext]_fileVars => CallsInTurn'
<1> SUFFICES ASSUME FilesInv, [FileNext]_fileVars PROVE CallsInTurn'
  OBVIOUS
<1>a. /\ FileTypes /\ CallsInTurn /\ slot \in Slots /\ pc = [o \in Readers |-> pc[o]]
      /\ \A o \in Readers : pc[o] \in StagesOf
  BY DEF FilesInv, FileTypes, CallsInTurn
<1>b. \A o \in Readers : Finding /\ pc[o] \in {"stat", "load", "store"} => located # NotLooked
  BY DEF FilesInv, CallsInTurn
<1>c. \A r \in Readers : \A x : Goes(r, x) => pc' = [pc EXCEPT ![r] = x]
  BY DEF Goes
<1>d. \A r \in Readers : \A x : Answer(r, x) => pc' = [pc EXCEPT ![r] = "done"]
  BY DEF Answer
<1>e. \A r \in Readers : \A x : Loaded(r, x) =>
        pc' = [pc EXCEPT ![r] = IF slot = "compiler" THEN "keep" ELSE "done"]
  BY DEF Loaded
<1>f. /\ "done" \in StagesOf
      /\ slot # "blame" => {"find", "stat", "load", "store"} \subseteq StagesOf
      /\ slot = "blame" => {"find", "stat", "root", "head", "rev-parse", "blame"} \subseteq StagesOf
      /\ slot = "compiler" => {"compile", "typescript", "zod", "keep"} \subseteq StagesOf
      /\ {"load", "store"} \cap StagesOf # {} => slot # "blame"
      /\ {"compile", "typescript", "zod", "keep"} \cap StagesOf # {} => slot = "compiler"
      /\ {"root", "head", "rev-parse", "blame"} \cap StagesOf # {} => slot = "blame"
      /\ (IF slot = "compiler" THEN "keep" ELSE "done") \in StagesOf
  BY <1>a DEF StagesOf
<1>g. slot \in {"compiler"} => Finding
  BY DEF Finding
<1>h. slot = "blame" => ~Finding
  BY DEF Finding
<1>1. CASE UNCHANGED fileVars
  BY <1>1, <1>a DEF fileVars, caches, CallsInTurn, StagesOf, Finding
<1>2. ASSUME Write \/ Git
      PROVE  CallsInTurn'
  <2>1. UNCHANGED <<slot, pc, located>>
    BY <1>2 DEF Write, Git, caches
  <2> QED
    BY <2>1, <1>a DEF CallsInTurn, StagesOf, Finding
<1>4. ASSUME NEW r \in Readers, Begin(r)
      PROVE  CallsInTurn'
  <2>1. /\ UNCHANGED <<slot, located>> /\ pc[r] = "idle"
        /\ slot \in Node => \A o \in Readers : pc[o] = "idle"
        /\ pc' = [pc EXCEPT ![r] = IF slot = "compiler" THEN "compile" ELSE "find"]
    BY <1>4 DEF Begin, caches
  <2>2. \A o \in Readers : pc'[o] = IF o = r THEN IF slot = "compiler" THEN "compile" ELSE "find" ELSE pc[o]
    BY <1>a, <2>1
  <2>3. StagesOf' = StagesOf /\ Finding' = Finding
    BY <2>1 DEF StagesOf, Finding
  <2>4. \A o \in Readers : pc'[o] \in StagesOf'
    BY <1>a, <1>f, <2>2, <2>3
  <2>5. \A o, q \in Readers : slot' \in Node /\ pc'[o] # "idle" /\ pc'[q] # "idle" => o = q
    BY <2>1, <2>2
  <2>6. \A o \in Readers : Finding' /\ pc'[o] \in {"stat", "load", "store"} => located' # NotLooked
    BY <1>b, <2>1, <2>2, <2>3
  <2> QED
    BY <2>4, <2>5, <2>6 DEF CallsInTurn
<1>5. ASSUME NEW r \in Readers, FindPath(r)
      PROVE  CallsInTurn'
  <2>1. /\ slot' = slot /\ pc[r] = "find" /\ located' = IF Finding THEN Search ELSE located
        /\ Loaded(r, {}) \/ Goes(r, "stat")
    BY <1>5 DEF FindPath, Step
  <2>2. Finding => Search # NotLooked
    BY <1>a, SearchFindsSchemas
  <2>3. "stat" \in StagesOf
    BY <1>f
  <2>4. \E to \in StagesOf : pc' = [pc EXCEPT ![r] = to]
    BY <1>c, <1>e, <1>f, <2>1, <2>3
  <2> QED
    BY <1>a, <2>1, <2>2, <2>4, TurnTaken
<1>6. ASSUME NEW r \in Readers, LoadStat(r) \/ LoadRead(r)
      PROVE  CallsInTurn'
  <2>1. /\ UNCHANGED <<slot, located>> /\ pc[r] \in {"stat", "load"} /\ slot # "blame"
        /\ \E x : Loaded(r, x) \/ Goes(r, "load") \/ Goes(r, "store")
    BY <1>6, <1>a, <1>f DEF LoadStat, LoadRead, Step, caches
  <2>2. \E to \in StagesOf : pc' = [pc EXCEPT ![r] = to]
    BY <1>c, <1>e, <1>f, <2>1
  <2> QED
    BY <1>a, <1>b, <2>1, <2>2, TurnTaken
<1>7. ASSUME NEW r \in Readers, LoadStore(r)
      PROVE  CallsInTurn'
  <2>1. UNCHANGED <<slot, located>> /\ pc[r] = "store" /\ \E x : Loaded(r, x)
    BY <1>7, StoreEffect DEF Step
  <2>2. \E to \in StagesOf : pc' = [pc EXCEPT ![r] = to]
    BY <1>e, <1>f, <2>1
  <2> QED
    BY <1>a, <1>b, <2>1, <2>2, TurnTaken
<1>8. ASSUME NEW r \in Readers, Compile(r) \/ RunSource(r) \/ KeepContracts(r)
      PROVE  CallsInTurn'
  <2>1. /\ UNCHANGED <<slot, located>> /\ pc[r] \in {"compile", "typescript", "zod", "keep"}
        /\ \E x : Answer(r, x) \/ (x \in {"typescript", "zod", "find", "done"} /\ Goes(r, x))
    BY <1>8 DEF Compile, RunSource, KeepContracts, Step, caches
  <2>2. slot = "compiler"
    BY <1>a, <1>f, <2>1
  <2>3. \E to \in StagesOf \ {"stat", "load", "store"} : pc' = [pc EXCEPT ![r] = to]
    BY <1>c, <1>d, <1>f, <2>1, <2>2
  <2> QED
    BY <1>a, <2>1, <2>3, TurnTaken
<1>9. ASSUME NEW r \in Readers,
             BlameStat(r) \/ FindRepoRoot(r) \/ HeadSha(r) \/ RevParse(r) \/ GetBlame(r)
      PROVE  CallsInTurn'
  <2>1. /\ slot' = slot /\ pc[r] # "idle" /\ (pc[r] = "stat" => slot = "blame")
        /\ pc[r] \in {"stat", "root", "head", "rev-parse", "blame"}
        /\ \E x : Answer(r, x) \/ (x \in {"root", "head", "rev-parse", "blame"} /\ Goes(r, x))
    BY <1>9 DEF BlameStat, FindRepoRoot, HeadSha, RevParse, GetBlame, Step
  <2>2. slot = "blame"
    BY <1>a, <1>f, <2>1
  <2>3. \E to \in StagesOf : pc' = [pc EXCEPT ![r] = to]
    BY <1>c, <1>d, <1>f, <2>1, <2>2
  <2>4. located' = located \/ located' # NotLooked
    BY <1>9 DEF BlameStat, FindRepoRoot, HeadSha, RevParse, GetBlame, caches
  <2> QED
    BY <1>a, <1>h, <2>1, <2>2, <2>3, <2>4, TurnTaken
<1>10. ASSUME NEW r \in Readers, Return(r)
       PROVE  CallsInTurn'
  <2>1. UNCHANGED <<slot, located>> /\ pc[r] # "idle" /\ pc' = [pc EXCEPT ![r] = "idle"]
    BY <1>10 DEF Return, caches
  <2>2. "idle" \in StagesOf
    BY DEF StagesOf
  <2> QED
    BY <1>a, <2>1, <2>2, TurnTaken
<1>11. QED
  BY <1>1, <1>2, <1>4, <1>5, <1>6, <1>7, <1>8, <1>9, <1>10 DEF FileNext

\* Only a write and the ends of a call change what a call has seen.
LEMMA StepsElsewhere ==
  ASSUME NEW r \in Readers,
         \/ FindPath(r) \/ LoadStat(r) \/ LoadRead(r) \/ LoadStore(r)
         \/ Compile(r) \/ RunSource(r) \/ KeepContracts(r)
         \/ BlameStat(r) \/ FindRepoRoot(r) \/ HeadSha(r) \/ RevParse(r) \/ GetBlame(r)
  PROVE  Step(r) /\ pc[r] # "idle" /\ pc[r] # "done"
  BY DEF FindPath, LoadStat, LoadRead, LoadStore, Compile, RunSource, KeepContracts, BlameStat,
         FindRepoRoot, HeadSha, RevParse, GetBlame

LEMMA OthersStay ==
  ASSUME FileTypes, NEW r \in Readers,
         \/ FindPath(r) \/ LoadStat(r) \/ LoadRead(r) \/ LoadStore(r)
         \/ Compile(r) \/ RunSource(r) \/ KeepContracts(r)
         \/ BlameStat(r) \/ FindRepoRoot(r) \/ HeadSha(r) \/ RevParse(r) \/ GetBlame(r)
  PROVE  \A o \in Readers : o # r =>
           /\ pc'[o] = pc[o] /\ stat'[o] = stat[o] /\ held'[o] = held[o] /\ keyed'[o] = keyed[o]
           /\ framed'[o] = framed[o] /\ sha'[o] = sha[o] /\ hit'[o] = hit[o] /\ answer'[o] = answer[o]
<1>1. CASE FindPath(r)
  BY <1>1 DEF FindPath, FileTypes, caches, Goes, Answer, Loaded
<1>2. CASE LoadStat(r)
  BY <1>2 DEF LoadStat, FileTypes, caches, Goes, Answer, Loaded
<1>3. CASE LoadRead(r)
  BY <1>3 DEF LoadRead, FileTypes, caches, Goes, Answer, Loaded
<1>4. CASE LoadStore(r)
  BY <1>4 DEF LoadStore, FileTypes, caches, Goes, Answer, Loaded
<1>5. CASE Compile(r)
  BY <1>5 DEF Compile, FileTypes, caches, Goes, Answer, Loaded
<1>6. CASE RunSource(r)
  BY <1>6 DEF RunSource, FileTypes, caches, Goes, Answer, Loaded
<1>7. CASE KeepContracts(r)
  BY <1>7 DEF KeepContracts, FileTypes, caches, Goes, Answer, Loaded
<1>8. CASE BlameStat(r)
  BY <1>8 DEF BlameStat, FileTypes, caches, Goes, Answer, Loaded
<1>9. CASE FindRepoRoot(r)
  BY <1>9 DEF FindRepoRoot, FileTypes, caches, Goes, Answer, Loaded
<1>10. CASE HeadSha(r)
  BY <1>10 DEF HeadSha, FileTypes, caches, Goes, Answer, Loaded
<1>11. CASE RevParse(r)
  BY <1>11 DEF RevParse, FileTypes, caches, Goes, Answer, Loaded
<1>12. CASE GetBlame(r)
  BY <1>12 DEF GetBlame, FileTypes, caches, Goes, Answer, Loaded
<1>13. QED
  BY <1>1, <1>2, <1>3, <1>4, <1>5, <1>6, <1>7, <1>8, <1>9, <1>10, <1>11, <1>12

LEMMA SeenKept == FilesInv /\ [FileNext]_fileVars => SeenFromTheStart'
<1> SUFFICES ASSUME FilesInv, [FileNext]_fileVars PROVE SeenFromTheStart'
  OBVIOUS
<1> USE DEF FilesInv, FileTypes, SeenFromTheStart, Files
<1>1. CASE UNCHANGED fileVars
  BY <1>1 DEF fileVars, stamps, history
<1>2. ASSUME Write
      PROVE  SeenFromTheStart'
  <2>1. PICK f \in Files, v \in Nat, t \in Nat :
          f \in AllFiles /\ Written(f, v, t) /\ UNCHANGED <<slot, pc>>
    BY <1>2, WriteIsOne
  <2>2. /\ disk'[f] = v /\ newer'[f] = (v = Missing \/ t > newest[f])
        /\ \A g \in AllFiles : g # f => disk'[g] = disk[g] /\ newer'[g] = newer[g]
    BY <2>1 DEF Written
  <2>3. \A r \in Readers : pc[r] # "idle" =>
          /\ during[r] \subseteq during'[r] /\ retimed[r] \subseteq retimed'[r]
          /\ v \in during'[r] /\ (newer'[f] \/ f \in retimed'[r])
    BY <2>1, <2>2 DEF Written
  <2>4. \A g \in Files : g \in AllFiles
    BY FilesKnown
  <2> QED
    BY <2>1, <2>2, <2>3, <2>4
<1>3. ASSUME Git
      PROVE  SeenFromTheStart'
  BY <1>3 DEF Git, stamps, history
<1>4. ASSUME NEW r \in Readers, Begin(r)
      PROVE  SeenFromTheStart'
  BY <1>4 DEF Begin, stamps
<1>5. ASSUME NEW r \in Readers,
             \/ FindPath(r) \/ LoadStat(r) \/ LoadRead(r) \/ LoadStore(r)
             \/ Compile(r) \/ RunSource(r) \/ KeepContracts(r)
             \/ BlameStat(r) \/ FindRepoRoot(r) \/ HeadSha(r) \/ RevParse(r) \/ GetBlame(r)
      PROVE  SeenFromTheStart'
  <2>1. UNCHANGED <<slot, disk, newer, during, retimed>> /\ pc[r] # "idle"
    BY <1>5, StepsElsewhere DEF Step, stamps, history
  <2>2. \A o \in Readers : o # r => pc'[o] = pc[o]
    BY <1>5, OthersStay
  <2> QED
    BY <2>1, <2>2
<1>6. ASSUME NEW r \in Readers, Return(r)
      PROVE  SeenFromTheStart'
  BY <1>6 DEF Return, stamps
<1>7. QED
  BY <1>1, <1>2, <1>3, <1>4, <1>5, <1>6 DEF FileNext

\* Where neither the cache nor the files nor a load change.
LEMMA LoadsStay ==
  ASSUME LoadsAnswer, CallsInTurn, slot # "blame", UNCHANGED <<slot, disk, stamps, cache>>,
         located' = located \/ (Finding /\ located = NotLooked),
         \A o \in Readers : pc'[o] \in {"load", "store"} =>
           /\ pc'[o] = pc[o] /\ stat'[o] = stat[o] /\ held'[o] = held[o]
           /\ during'[o] = during[o] /\ retimed'[o] = retimed[o]
  PROVE  LoadsAnswer'
<1>1. Finding' = Finding /\ LoadedFrom' = LoadedFrom
  BY DEF Finding, LoadedFrom, SchemaFiles, Files
<1>2. CASE located' = located
  <2>1. LoadFiles' = LoadFiles
    BY <1>1, <1>2 DEF LoadFiles
  <2>2. \A files, key, content : KeyedIn(files, disk', mtime', newest', newer', key, content)
                                   = Keyed(files, key, content)
    BY DEF Keyed, stamps
  <2> QED
    BY <1>1, <1>2, <2>1, <2>2 DEF LoadsAnswer, Keyed, Told
<1>3. CASE Finding /\ located = NotLooked
  <2>1. cache'.mtime = -1 /\ \A o \in Readers : pc'[o] \notin {"load", "store"}
    BY <1>3 DEF LoadsAnswer, CallsInTurn
  <2> QED
    BY <2>1 DEF LoadsAnswer
<1> QED
  BY <1>2, <1>3

LEMMA AnswersStay ==
  ASSUME LoadedDuringCall, UNCHANGED slot,
         \A o \in Readers : pc'[o] \in {"keep", "done"} =>
           \/ /\ pc[o] \in {"keep", "done"} /\ answer'[o] = answer[o] /\ hit'[o] = hit[o]
              /\ during'[o] = during[o] /\ retimed'[o] = retimed[o]
           \/ answer'[o] = {} \/ hit'[o]
  PROVE  LoadedDuringCall'
<1>1. LoadedFrom' = LoadedFrom
  BY DEF Finding, LoadedFrom, SchemaFiles, Files
<1> QED
  BY <1>1 DEF LoadedDuringCall

LEMMA LoadsKept == FilesInv /\ [FileNext]_fileVars => LoadsAnswer' /\ LoadedDuringCall'
<1> SUFFICES ASSUME FilesInv, [FileNext]_fileVars PROVE LoadsAnswer' /\ LoadedDuringCall'
  OBVIOUS
<1>a. FileTypes /\ CallsInTurn /\ SeenFromTheStart /\ LoadsAnswer /\ LoadedDuringCall
  BY DEF FilesInv
<1>b. slot' = slot
  <2>1. CASE UNCHANGED fileVars
    BY <2>1 DEF fileVars
  <2>2. CASE FileNext
    BY <2>2, StepsElsewhere DEF FileNext, Write, Git, Begin, Return, Step
  <2>3. QED
    BY <2>1, <2>2
<1>c. CASE slot = "blame"
  BY <1>b, <1>c DEF LoadsAnswer, LoadedDuringCall
<1>d. ASSUME slot # "blame"
      PROVE  LoadsAnswer' /\ LoadedDuringCall'
  <2>a. /\ cache.mtime # -1 =>
             (Finding => located # NotLooked) /\ Keyed(LoadFiles, cache.mtime, cache.content)
        /\ \A r \in Readers :
             /\ pc[r] = "load" => Keyed(LoadFiles, stat[r], {})
             /\ pc[r] = "store" => Keyed(LoadFiles, stat[r], held[r]) /\ held[r] \subseteq during[r]
             /\ pc[r] = "load" /\ cache.mtime = stat[r] /\ Told(r) => cache.content \subseteq during[r]
        /\ \A r, o \in Readers :
             pc[r] = "load" /\ pc[o] = "store" /\ stat[r] = stat[o] /\ Told(r) => held[o] \subseteq during[r]
    BY <1>a, <1>d DEF LoadsAnswer
  <2>b. \A r \in Readers :
          pc[r] \in {"keep", "done"} /\ ~hit[r] /\ Told(r) => answer[r] \subseteq during[r]
    BY <1>a, <1>d DEF LoadedDuringCall, Told
  <2>c. \A r \in Readers : Finding /\ pc[r] \in {"stat", "load", "store"} => located # NotLooked
    BY <1>a DEF CallsInTurn
  <2>d. (Finding => located # NotLooked) =>
          LoadFiles \in SUBSET AllFiles /\ LoadFiles \subseteq Files /\ LoadFiles \subseteq LoadedFrom
    BY <1>a, LoadFilesKnown
  <2>e. \A r \in Readers : pc[r] # "idle" =>
          \A f \in Files : disk[f] \in during[r] /\ (newer[f] \/ f \in retimed[r])
    BY <1>a DEF SeenFromTheStart
  <2>f. /\ stat \in [Readers -> Nat] /\ held \in [Readers -> SUBSET Nat] /\ cache.mtime \in Int
        /\ cache = [mtime |-> cache.mtime, content |-> cache.content]
        /\ pc = [o \in Readers |-> pc[o]] /\ answer = [o \in Readers |-> answer[o]]
        /\ hit \in [Readers -> BOOLEAN]
    BY <1>a DEF FileTypes
  <2>g. Finding' = Finding /\ LoadedFrom' = LoadedFrom
    BY <1>b DEF Finding, LoadedFrom, SchemaFiles, Files
  <2>h. \A r \in Readers : pc[r] \notin {"root", "head", "rev-parse", "blame"}
    BY <1>a, <1>d DEF CallsInTurn, StagesOf
  <2>1. CASE UNCHANGED fileVars
    BY <1>a, <1>d, <2>1, LoadsStay, AnswersStay DEF fileVars, caches, locals, history
  <2>2. ASSUME Write
        PROVE  LoadsAnswer' /\ LoadedDuringCall'
    <3>1. PICK f \in Files, v \in Nat, t \in Nat :
            /\ Written(f, v, t)
            /\ UNCHANGED <<slot, head, reads, caches, pc, locals, unread, answer>>
      BY <1>a, <2>2, WriteIsOne
    <3>2. \A r \in Readers : during[r] \subseteq during'[r] /\ retimed[r] \subseteq retimed'[r]
      BY <3>1 DEF Written
    <3>3. UNCHANGED <<pc, stat, held, hit, answer, cache, located>>
      BY <3>1 DEF caches, locals
    <3>4. LoadFiles' = LoadFiles
      BY <2>g, <3>3 DEF LoadFiles
    <3>5. ASSUME Finding => located # NotLooked, NEW key, NEW content, Keyed(LoadFiles, key, content)
          PROVE  KeyedIn(LoadFiles, disk', mtime', newest', newer', key, content)
      BY <1>a, <2>2, <2>d, <3>5, KeyedStays
    <3>6. \A r \in Readers : Told(r)' => Told(r)
      BY <2>g, <3>2 DEF Told
    <3>7. LoadsAnswer'
      <4>1. cache'.mtime # -1 =>
              (Finding' => located' # NotLooked) /\ Keyed(LoadFiles, cache.mtime, cache.content)'
        BY <2>a, <2>g, <3>3, <3>4, <3>5 DEF Keyed
      <4>2. \A r \in Readers :
              /\ pc'[r] = "load" => Keyed(LoadFiles, stat[r], {})'
              /\ pc'[r] = "store" => Keyed(LoadFiles, stat[r], held[r])' /\ held'[r] \subseteq during'[r]
        BY <2>a, <2>c, <3>2, <3>3, <3>4, <3>5 DEF Keyed
      <4>3. /\ \A r \in Readers :
                 pc'[r] = "load" /\ cache'.mtime = stat'[r] /\ Told(r)' => cache'.content \subseteq during'[r]
            /\ \A r, o \in Readers :
                 pc'[r] = "load" /\ pc'[o] = "store" /\ stat'[r] = stat'[o] /\ Told(r)'
                   => held'[o] \subseteq during'[r]
        BY <2>a, <3>2, <3>3, <3>6
      <4> QED
        BY <4>1, <4>2, <4>3 DEF LoadsAnswer
    <3>8. LoadedDuringCall'
      BY <2>b, <3>2, <3>3, <3>6 DEF LoadedDuringCall, Told
    <3> QED
      BY <3>7, <3>8
  <2>3. ASSUME Git
        PROVE  LoadsAnswer' /\ LoadedDuringCall'
    BY <1>d, <2>3 DEF Git
  <2>4. ASSUME NEW r \in Readers, Begin(r)
        PROVE  LoadsAnswer' /\ LoadedDuringCall'
    <3>1. /\ UNCHANGED <<slot, disk, stamps, cache, located, stat, held, answer, hit>>
          /\ pc'[r] \in {"compile", "find"}
          /\ \A o \in Readers : o # r =>
               pc'[o] = pc[o] /\ during'[o] = during[o] /\ retimed'[o] = retimed[o]
      BY <2>4, <2>f DEF Begin, caches
    <3> QED
      BY <1>a, <1>d, <3>1, LoadsStay, AnswersStay
  <2>5. ASSUME NEW r \in Readers, FindPath(r)
        PROVE  LoadsAnswer' /\ LoadedDuringCall'
    <3>1. /\ UNCHANGED <<slot, disk, stamps, cache, stat, held, hit, during, retimed>>
          /\ located' = IF Finding THEN Search ELSE located
          /\ (pc'[r] = "stat" /\ answer'[r] = answer[r]) \/ (pc'[r] \in {"keep", "done"} /\ answer'[r] = {})
      BY <2>5, <2>f DEF FindPath, Step, Loaded, Goes, history
    <3>2. \A o \in Readers : o # r => pc'[o] = pc[o] /\ answer'[o] = answer[o]
      BY <1>a, <2>5, OthersStay
    <3>3. located' = located \/ (Finding /\ located = NotLooked)
      BY <3>1 DEF Search
    <3> QED
      BY <1>a, <1>d, <3>1, <3>2, <3>3, LoadsStay, AnswersStay
  <2>6. ASSUME NEW r \in Readers, LoadStat(r)
        PROVE  LoadsAnswer' /\ LoadedDuringCall'
    <3>1. /\ UNCHANGED <<slot, disk, mtime, newest, newer, stamps, cache, located, held, hit, during, retimed>>
          /\ stat'[r] = Mtime(LoadFiles) /\ pc[r] = "stat"
          /\ \/ pc'[r] = "load" /\ Present(LoadFiles) = LoadFiles /\ answer' = answer
             \/ pc'[r] \in {"keep", "done"} /\ answer'[r] = {}
      BY <2>6, <2>f DEF LoadStat, Step, Loaded, Goes, caches, history, stamps
    <3>2. \A o \in Readers : o # r => pc'[o] = pc[o] /\ answer'[o] = answer[o] /\ stat'[o] = stat[o]
      BY <1>a, <2>6, OthersStay
    <3>3. CASE pc'[r] \in {"keep", "done"} /\ answer'[r] = {}
      BY <1>a, <1>d, <3>1, <3>2, <3>3, LoadsStay, AnswersStay
    <3>4. CASE pc'[r] = "load" /\ Present(LoadFiles) = LoadFiles
      <4>1. LoadedDuringCall'
        BY <1>a, <1>d, <3>1, <3>2, <3>4, AnswersStay
      <4>2. LoadFiles' = LoadFiles
        BY <2>g, <3>1 DEF LoadFiles
      <4>3. LoadFiles \in SUBSET AllFiles /\ LoadFiles \subseteq Files /\ LoadFiles \subseteq LoadedFrom
        BY <2>c, <2>d, <3>1
      <4>4. stat'[r] = KeyOf(LoadFiles, mtime)
        BY <3>1 DEF Mtime, MtimeIn, KeyOf, KeyPart
      <4>6. Keyed(LoadFiles, stat'[r], {})
        BY <1>a, <4>3, <4>4, FilesStamped, KeyNow DEF Keyed
      <4>7. ASSUME NEW content, Keyed(LoadFiles, stat'[r], content), Told(r)
            PROVE  content \subseteq during[r]
        <5>1. \A f \in LoadFiles : disk[f] # Missing /\ newer[f]
          BY <2>e, <3>1, <3>4, <4>3, <4>7 DEF Present, Told
        <5>2. content \subseteq {disk[f] : f \in LoadFiles}
          BY <1>a, <4>3, <4>4, <4>7, <5>1, FilesStamped, KeyMatches DEF Keyed
        <5> QED
          BY <2>e, <3>1, <4>3, <5>2
      <4>8. Told(r)' = Told(r) /\ \A o \in Readers : Told(o)' = Told(o)
        BY <2>g, <3>1 DEF Told
      <4>9. stat'[r] # -1
        BY <1>a, <3>1 DEF Mtime, MtimeIn, FileTypes, AllFiles
      <4>10. cache'.mtime = stat'[r] /\ Told(r) => cache'.content \subseteq during'[r]
        BY <2>a, <3>1, <4>7, <4>9
      <4>11. \A o \in Readers : pc'[o] = "store" /\ stat'[r] = stat'[o] /\ Told(r)
                                  => held'[o] \subseteq during'[r]
        BY <2>a, <3>1, <3>2, <3>4, <4>7
      <4>12. LoadsAnswer'
        <5>1. cache'.mtime # -1 =>
                (Finding' => located' # NotLooked) /\ Keyed(LoadFiles, cache.mtime, cache.content)'
          BY <2>a, <2>g, <3>1, <4>2 DEF Keyed
        <5>2. \A o \in Readers :
                /\ pc'[o] = "load" => Keyed(LoadFiles, stat[o], {})'
                /\ pc'[o] = "store" => Keyed(LoadFiles, stat[o], held[o])' /\ held'[o] \subseteq during'[o]
          BY <2>a, <3>1, <3>2, <3>4, <4>2, <4>6 DEF Keyed
        <5>3. /\ \A o \in Readers :
                   pc'[o] = "load" /\ cache'.mtime = stat'[o] /\ Told(o)' => cache'.content \subseteq during'[o]
              /\ \A q, o \in Readers :
                   pc'[q] = "load" /\ pc'[o] = "store" /\ stat'[q] = stat'[o] /\ Told(q)'
                     => held'[o] \subseteq during'[q]
          BY <2>a, <3>1, <3>2, <3>4, <4>8, <4>10, <4>11
        <5> QED
          BY <5>1, <5>2, <5>3 DEF LoadsAnswer
      <4> QED
        BY <4>1, <4>12
    <3> QED
      BY <3>1, <3>3, <3>4
  <2>7. ASSUME NEW r \in Readers, LoadRead(r)
        PROVE  LoadsAnswer' /\ LoadedDuringCall'
    <3>1. /\ UNCHANGED <<slot, disk, stamps, mtime, newest, newer, cache, located, stat, hit, during, retimed>>
          /\ pc[r] = "load"
          /\ \/ /\ pc'[r] = "store" /\ held'[r] = Versions(LoadFiles) /\ answer' = answer
             \/ /\ pc'[r] \in {"keep", "done"} /\ answer'[r] = cache.content
                /\ cache.mtime = stat[r] /\ held' = held
      BY <2>7, <2>f DEF LoadRead, Step, Loaded, Goes, caches, history, stamps
    <3>2. \A o \in Readers : o # r => pc'[o] = pc[o] /\ answer'[o] = answer[o] /\ held'[o] = held[o]
      BY <1>a, <2>7, OthersStay
    <3>3. \A o \in Readers : Told(o)' = Told(o)
      BY <2>g, <3>1 DEF Told
    <3>4. CASE pc'[r] \in {"keep", "done"} /\ answer'[r] = cache.content /\ cache.mtime = stat[r] /\ held' = held
      <4>1. LoadsAnswer'
        BY <1>a, <1>d, <3>1, <3>2, <3>4, LoadsStay
      <4>2. LoadedDuringCall'
        BY <2>a, <2>b, <3>1, <3>2, <3>3, <3>4 DEF LoadedDuringCall, Told
      <4> QED
        BY <4>1, <4>2
    <3>5. CASE pc'[r] = "store" /\ held'[r] = Versions(LoadFiles) /\ answer' = answer
      <4>1. LoadedDuringCall'
        BY <1>a, <1>d, <3>1, <3>2, <3>5, AnswersStay
      <4>2. LoadFiles' = LoadFiles
        BY <2>g, <3>1 DEF LoadFiles
      <4>3. LoadFiles \in SUBSET AllFiles /\ LoadFiles \subseteq Files
        BY <2>c, <2>d, <3>1
      <4>4. Versions(LoadFiles) = {disk[f] : f \in {h \in LoadFiles : disk[h] # Missing}}
        BY DEF Versions, Present
      <4>5. Keyed(LoadFiles, stat[r], Versions(LoadFiles))
        <5>1. Keyed(LoadFiles, stat[r], {} \cup {disk[f] : f \in {h \in LoadFiles : disk[h] # Missing}})
          BY <2>a, <3>1, KeyRead DEF Keyed
        <5>2. {} \cup {disk[f] : f \in {h \in LoadFiles : disk[h] # Missing}} = Versions(LoadFiles)
          BY <4>4
        <5> QED
          BY <5>1, <5>2
      <4>6. \A o \in Readers : pc[o] # "idle" => Versions(LoadFiles) \subseteq during[o]
        BY <2>e, <4>3, <4>4
      <4>7. LoadsAnswer'
        <5>1. cache'.mtime # -1 =>
                (Finding' => located' # NotLooked) /\ Keyed(LoadFiles, cache.mtime, cache.content)'
          BY <2>a, <2>g, <3>1, <4>2 DEF Keyed
        <5>2. \A o \in Readers :
                /\ pc'[o] = "load" => Keyed(LoadFiles, stat[o], {})'
                /\ pc'[o] = "store" => Keyed(LoadFiles, stat[o], held[o])' /\ held'[o] \subseteq during'[o]
          BY <2>a, <3>1, <3>2, <3>5, <4>2, <4>5, <4>6 DEF Keyed
        <5>3. /\ \A o \in Readers :
                   pc'[o] = "load" /\ cache'.mtime = stat'[o] /\ Told(o)' => cache'.content \subseteq during'[o]
              /\ \A q, o \in Readers :
                   pc'[q] = "load" /\ pc'[o] = "store" /\ stat'[q] = stat'[o] /\ Told(q)'
                     => held'[o] \subseteq during'[q]
          BY <2>a, <3>1, <3>2, <3>3, <3>5, <4>6
        <5> QED
          BY <5>1, <5>2, <5>3 DEF LoadsAnswer
      <4> QED
        BY <4>1, <4>7
    <3> QED
      BY <3>1, <3>4, <3>5
  <2>8. ASSUME NEW r \in Readers, LoadStore(r)
        PROVE  LoadsAnswer' /\ LoadedDuringCall'
    <3>1. PICK content \in {{}, held[r]} : Loaded(r, content)
      BY <2>8, StoreEffect
    <3>2. /\ UNCHANGED <<slot, disk, stamps, mtime, newest, newer, located, stat, held, hit, during, retimed>>
          /\ pc[r] = "store" /\ pc'[r] \in {"keep", "done"} /\ answer'[r] = content
      BY <2>8, <2>f, <3>1, StoreEffect DEF Step, Loaded, history, stamps
    <3>3. \A o \in Readers : o # r => pc'[o] = pc[o] /\ answer'[o] = answer[o]
      BY <1>a, <2>8, OthersStay
    <3>4. \/ cache' = cache \/ cache' = NoEntry
          \/ cache' = [mtime |-> stat[r], content |-> {}]
          \/ cache' = [mtime |-> stat[r], content |-> held[r]]
      BY <2>8, StoreEffect
    <3>5. LoadFiles' = LoadFiles /\ \A o \in Readers : Told(o)' = Told(o)
      BY <2>g, <3>2 DEF LoadFiles, Told
    <3>6. Keyed(LoadFiles, stat[r], {})
      BY <2>a, <3>2, KeyOfNothing DEF Keyed
    <3>7. cache'.mtime # -1 =>
             /\ Finding => located # NotLooked
             /\ Keyed(LoadFiles, cache'.mtime, cache'.content)
      BY <2>a, <2>c, <3>2, <3>4, <3>6 DEF NoEntry
    <3>8. \A o \in Readers :
            pc[o] = "load" /\ cache'.mtime = stat[o] /\ Told(o) => cache'.content \subseteq during[o]
      <4> SUFFICES ASSUME NEW o \in Readers, pc[o] = "load", cache'.mtime = stat[o], Told(o)
                   PROVE  cache'.content \subseteq during[o]
        OBVIOUS
      <4>1. stat[o] # -1
        BY <2>f
      <4> QED
        BY <2>a, <3>2, <3>4, <4>1 DEF NoEntry
    <3>9. LoadsAnswer'
      <4>1. cache'.mtime # -1 =>
              (Finding' => located' # NotLooked) /\ Keyed(LoadFiles, cache.mtime, cache.content)'
        BY <2>g, <3>2, <3>5, <3>7 DEF Keyed
      <4>2. \A o \in Readers :
              /\ pc'[o] = "load" => Keyed(LoadFiles, stat[o], {})'
              /\ pc'[o] = "store" => Keyed(LoadFiles, stat[o], held[o])' /\ held'[o] \subseteq during'[o]
        BY <2>a, <3>2, <3>3, <3>5 DEF Keyed
      <4>3. /\ \A o \in Readers :
                 pc'[o] = "load" /\ cache'.mtime = stat'[o] /\ Told(o)' => cache'.content \subseteq during'[o]
            /\ \A q, o \in Readers :
                 pc'[q] = "load" /\ pc'[o] = "store" /\ stat'[q] = stat'[o] /\ Told(q)'
                   => held'[o] \subseteq during'[q]
        BY <2>a, <3>2, <3>3, <3>5, <3>8
      <4> QED
        BY <4>1, <4>2, <4>3 DEF LoadsAnswer
    <3>10. LoadedDuringCall'
      BY <2>a, <2>b, <3>1, <3>2, <3>3, <3>5 DEF LoadedDuringCall, Told
    <3> QED
      BY <3>9, <3>10
  <2>9. ASSUME NEW r \in Readers, Compile(r) \/ RunSource(r) \/ KeepContracts(r)
        PROVE  LoadsAnswer' /\ LoadedDuringCall'
    <3>1. /\ UNCHANGED <<slot, disk, stamps, cache, located, stat, held, during, retimed>>
          /\ pc'[r] \in {"typescript", "zod", "find", "done"}
      BY <2>9, <2>f DEF Compile, RunSource, KeepContracts, Step, Answer, Goes, caches, history
    <3>2. \A o \in Readers : o # r => pc'[o] = pc[o] /\ answer'[o] = answer[o] /\ hit'[o] = hit[o]
      BY <1>a, <2>9, OthersStay
    <3>3. pc'[r] = "done" => \/ pc[r] = "keep" /\ answer'[r] = answer[r] /\ hit'[r] = hit[r]
                             \/ answer'[r] = {} \/ hit'[r]
      BY <2>9, <2>f DEF Compile, RunSource, KeepContracts, Answer, Goes
    <3> QED
      BY <1>a, <1>d, <3>1, <3>2, <3>3, LoadsStay, AnswersStay
  <2>10. ASSUME NEW r \in Readers,
                BlameStat(r) \/ FindRepoRoot(r) \/ HeadSha(r) \/ RevParse(r) \/ GetBlame(r)
         PROVE  LoadsAnswer' /\ LoadedDuringCall'
    BY <1>d, <2>10, <2>h DEF BlameStat, FindRepoRoot, HeadSha, RevParse, GetBlame
  <2>11. ASSUME NEW r \in Readers, Return(r)
         PROVE  LoadsAnswer' /\ LoadedDuringCall'
    <3>1. /\ UNCHANGED <<slot, disk, stamps, cache, located>> /\ pc'[r] = "idle"
          /\ \A o \in Readers : o # r =>
               /\ pc'[o] = pc[o] /\ stat'[o] = stat[o] /\ held'[o] = held[o] /\ hit'[o] = hit[o]
               /\ during'[o] = during[o] /\ retimed'[o] = retimed[o] /\ answer'[o] = answer[o]
      BY <1>a, <2>11 DEF Return, caches, FileTypes
    <3> QED
      BY <1>a, <1>d, <3>1, LoadsStay, AnswersStay
  <2>12. QED
    BY <2>1, <2>2, <2>3, <2>4, <2>5, <2>6, <2>7, <2>8, <2>9, <2>10, <2>11 DEF FileNext
<1>e. QED
  BY <1>c, <1>d

LEMMA ContractsStay ==
  ASSUME ContractsAnswer, ContractsOfFrame, UNCHANGED <<slot, disk, stamps, compiled>>,
         \A o \in Readers :
           /\ keyed'[o] = keyed[o] /\ framed'[o] = framed[o] /\ hit'[o] = hit[o]
           /\ during'[o] = during[o] /\ retimed'[o] = retimed[o]
           /\ \/ pc'[o] = pc[o]
              \/ pc[o] \in Compiling /\ pc'[o] \in Compiling
  PROVE  ContractsAnswer' /\ ContractsOfFrame'
<1>1. \A o \in Readers : pc'[o] = pc[o] \/ (pc'[o] \in Compiling /\ pc[o] \in Compiling)
  OBVIOUS
<1>2. \A o \in Readers : /\ pc'[o] \in {"idle", "compile"} => pc[o] \in {"idle", "compile"}
                         /\ pc'[o] \in Compiling => pc[o] \in Compiling
                         /\ pc'[o] = "done" => pc[o] = "done"
  BY <1>1 DEF Compiling
<1>3. \A files, key, content : KeyedIn(files, disk', mtime', newest', newer', key, content)
                                 = Keyed(files, key, content)
  BY DEF Keyed, stamps
<1> QED
  BY <1>2, <1>3 DEF ContractsAnswer, ContractsOfFrame, Keyed

LEMMA ContractsKept == FilesInv /\ [FileNext]_fileVars => ContractsAnswer' /\ ContractsOfFrame'
<1> SUFFICES ASSUME FilesInv, [FileNext]_fileVars PROVE ContractsAnswer' /\ ContractsOfFrame'
  OBVIOUS
<1>a. FileTypes /\ CallsInTurn /\ SeenFromTheStart /\ ContractsAnswer /\ ContractsOfFrame
  BY DEF FilesInv
<1>b. slot' = slot
  <2>1. CASE UNCHANGED fileVars
    BY <2>1 DEF fileVars
  <2>2. CASE FileNext
    BY <2>2, StepsElsewhere DEF FileNext, Write, Git, Begin, Return, Step
  <2>3. QED
    BY <2>1, <2>2
<1>c. CASE slot # "compiler"
  BY <1>b, <1>c DEF ContractsAnswer, ContractsOfFrame
<1>d. ASSUME slot = "compiler"
      PROVE  ContractsAnswer' /\ ContractsOfFrame'
  <2>a. /\ \A c \in Commits :
             compiled[c].mtime # -1 => Keyed({"frame"}, compiled[c].mtime, compiled[c].frame)
        /\ \A r \in Readers :
             /\ pc[r] \in {"idle", "compile"} => framed[r] = {}
             /\ pc[r] \in Compiling => Keyed({"frame"}, keyed[r], framed[r]) /\ framed[r] \subseteq during[r]
             /\ pc[r] = "done" /\ "frame" \notin retimed[r] => framed[r] \subseteq during[r]
    BY <1>a, <1>d DEF ContractsAnswer, ContractsOfFrame
  <2>b. \A r, o \in Readers : pc[r] # "idle" /\ pc[o] # "idle" => r = o
    BY <1>a, <1>d DEF CallsInTurn, Slots, Node
  <2>c. \A r \in Readers : pc[r] # "idle" =>
          disk["frame"] \in during[r] /\ (newer["frame"] \/ "frame" \in retimed[r])
    BY <1>a, <1>d, FilesKnown DEF SeenFromTheStart, Slots
  <2>d. /\ pc = [o \in Readers |-> pc[o]] /\ answer = [o \in Readers |-> answer[o]]
        /\ \A r \in Readers : commit[r] \in Commits
        /\ compiled \in [Commits -> [mtime : Int, frame : SUBSET Nat, content : SUBSET Nat]]
        /\ keyed \in [Readers -> Nat] /\ framed \in [Readers -> SUBSET Nat] /\ hit \in [Readers -> BOOLEAN]
    BY <1>a DEF FileTypes
  <2>1. CASE UNCHANGED fileVars
    BY <1>a, <2>1, ContractsStay DEF fileVars, caches, locals, history
  <2>2. ASSUME Write
        PROVE  ContractsAnswer' /\ ContractsOfFrame'
    <3>1. PICK f \in Files, v \in Nat, t \in Nat :
            /\ Written(f, v, t)
            /\ UNCHANGED <<slot, head, reads, caches, pc, locals, unread, answer>>
      BY <1>a, <2>2, WriteIsOne
    <3>2. \A r \in Readers : during[r] \subseteq during'[r] /\ retimed[r] \subseteq retimed'[r]
      BY <3>1 DEF Written
    <3>3. UNCHANGED <<pc, keyed, framed, compiled>>
      BY <3>1 DEF caches, locals
    <3>4. ASSUME NEW key, NEW content, Keyed({"frame"}, key, content)
          PROVE  KeyedIn({"frame"}, disk', mtime', newest', newer', key, content)
      BY <1>a, <2>2, <3>4, FrameKey, KeyedStays
    <3>5. ContractsAnswer'
      BY <2>a, <3>2, <3>3, <3>4 DEF ContractsAnswer, Keyed
    <3>6. ContractsOfFrame'
      BY <2>a, <3>2, <3>3 DEF ContractsOfFrame
    <3> QED
      BY <3>5, <3>6
  <2>3. ASSUME Git
        PROVE  ContractsAnswer' /\ ContractsOfFrame'
    BY <1>d, <2>3 DEF Git
  <2>4. ASSUME NEW r \in Readers, Begin(r)
        PROVE  ContractsAnswer' /\ ContractsOfFrame'
    <3>1. /\ UNCHANGED <<slot, disk, mtime, newest, newer, compiled, keyed, framed>>
          /\ pc[r] = "idle" /\ pc'[r] = "compile"
          /\ \A o \in Readers : o # r =>
               pc'[o] = pc[o] /\ during'[o] = during[o] /\ retimed'[o] = retimed[o]
      BY <1>d, <2>4, <2>d DEF Begin, caches, stamps
    <3>2. ContractsAnswer'
      BY <2>a, <3>1 DEF ContractsAnswer, Keyed, Compiling
    <3>3. ContractsOfFrame'
      BY <2>a, <3>1 DEF ContractsOfFrame
    <3> QED
      BY <3>2, <3>3
  <2>5. ASSUME NEW r \in Readers, FindPath(r) \/ LoadStat(r) \/ LoadRead(r) \/ LoadStore(r)
        PROVE  ContractsAnswer' /\ ContractsOfFrame'
    <3>1. /\ UNCHANGED <<slot, disk, stamps, compiled, keyed, framed, hit, during, retimed>>
      BY <2>5, StepsElsewhere, StoreEffect DEF FindPath, LoadStat, LoadRead, Step, caches, history
    <3>2. pc[r] \in Compiling /\ pc'[r] \in Compiling
      BY <1>d, <2>5, <2>d, StoreEffect DEF FindPath, LoadStat, LoadRead, Loaded, Goes, Compiling
    <3>3. \A o \in Readers : o # r => pc'[o] = pc[o]
      BY <1>a, <2>5, OthersStay
    <3> QED
      BY <1>a, <3>1, <3>2, <3>3, ContractsStay
  <2>6. ASSUME NEW r \in Readers, Compile(r)
        PROVE  ContractsAnswer' /\ ContractsOfFrame'
    <3>1. /\ UNCHANGED <<slot, disk, mtime, newest, newer, compiled, during, retimed>>
          /\ pc[r] = "compile" /\ keyed'[r] = mtime["frame"]
      BY <2>6, <2>d DEF Compile, Step, caches, stamps, history
    <3>2. \A o \in Readers : o # r => pc'[o] = pc[o] /\ keyed'[o] = keyed[o] /\ framed'[o] = framed[o]
      BY <1>a, <2>6, OthersStay
    <3>3. \/ pc'[r] = "done" /\ framed'[r] = {}
          \/ /\ pc'[r] = "done" /\ disk["frame"] # Missing
             /\ compiled[commit[r]].mtime = mtime["frame"] /\ framed'[r] = compiled[commit[r]].frame
          \/ pc'[r] = "typescript" /\ framed'[r] = {}
      BY <2>6, <2>a, <2>d, <3>1 DEF Compile, Answer, Goes, CompileHit
    <3>4. ASSUME disk["frame"] # Missing, compiled[commit[r]].mtime = mtime["frame"],
                 "frame" \notin retimed[r]
          PROVE  compiled[commit[r]].frame \subseteq during[r]
      <4>1. mtime["frame"] \in Nat
        BY <1>a, FrameKey
      <4>2. Keyed({"frame"}, mtime["frame"], compiled[commit[r]].frame)
        BY <2>a, <2>d, <3>4, <4>1
      <4>3. newer["frame"] /\ disk["frame"] \in during[r]
        BY <2>c, <3>1, <3>4
      <4>4. compiled[commit[r]].frame \subseteq {disk["frame"]}
        BY <1>a, <3>4, <4>2, <4>3, FrameMatches
      <4> QED
        BY <4>3, <4>4
    <3>5. Keyed({"frame"}, mtime["frame"], {})
      BY <1>a, FrameKey, FilesStamped, KeyNow DEF Keyed
    <3>6. ContractsAnswer'
      BY <2>a, <3>1, <3>2, <3>3, <3>5 DEF ContractsAnswer, Keyed, Compiling
    <3>7. ContractsOfFrame'
      BY <2>a, <3>1, <3>2, <3>3, <3>4 DEF ContractsOfFrame
    <3> QED
      BY <3>6, <3>7
  <2>7. ASSUME NEW r \in Readers, RunSource(r)
        PROVE  ContractsAnswer' /\ ContractsOfFrame'
    <3>1. /\ UNCHANGED <<slot, disk, mtime, newest, newer, compiled, during, retimed, keyed>>
          /\ pc[r] \in Compiling /\ pc'[r] \in Compiling
          /\ framed'[r] = framed[r] \cup Versions({"frame"})
      BY <2>7, <2>d DEF RunSource, Step, Goes, caches, stamps, history, Compiling
    <3>2. \A o \in Readers : o # r => pc'[o] = pc[o] /\ framed'[o] = framed[o]
      BY <1>a, <2>7, OthersStay
    <3>3. Versions({"frame"}) = {disk[f] : f \in {h \in {"frame"} : disk[h] # Missing}}
      BY DEF Versions, Present
    <3>4. Keyed({"frame"}, keyed[r], framed[r] \cup Versions({"frame"}))
      <4>1. Keyed({"frame"}, keyed[r], framed[r])
        BY <2>a, <3>1
      <4> QED
        BY <3>3, <4>1, KeyRead DEF Keyed
    <3>5. Versions({"frame"}) \subseteq during[r]
      <4>1. pc[r] # "idle"
        BY <3>1 DEF Compiling
      <4> QED
        BY <2>c, <3>3, <4>1
    <3>6. ContractsAnswer'
      <4>1. pc'[r] \notin {"idle", "compile"}
        BY <3>1 DEF Compiling
      <4> QED
        BY <2>a, <3>1, <3>2, <3>4, <3>5, <4>1 DEF ContractsAnswer, Keyed
    <3>7. ContractsOfFrame'
      <4>1. pc'[r] # "done"
        BY <3>1 DEF Compiling
      <4> QED
        BY <2>a, <3>1, <3>2, <4>1 DEF ContractsOfFrame
    <3> QED
      BY <3>6, <3>7
  <2>8. ASSUME NEW r \in Readers, KeepContracts(r)
        PROVE  ContractsAnswer' /\ ContractsOfFrame'
    <3>1. /\ UNCHANGED <<slot, disk, mtime, newest, newer, during, retimed, keyed, framed>>
          /\ pc[r] = "keep" /\ pc'[r] = "done"
      BY <2>8, <2>d DEF KeepContracts, Step, Goes, stamps, history
    <3>2. \A o \in Readers : o # r => pc'[o] = pc[o]
      BY <1>a, <2>8, OthersStay
    <3>3. \A c \in Commits :
            \/ compiled'[c] = compiled[c]
            \/ compiled'[c].mtime = keyed[r] /\ compiled'[c].frame = framed[r]
      BY <2>8, <2>d DEF KeepContracts
    <3>4. Keyed({"frame"}, keyed[r], framed[r]) /\ framed[r] \subseteq during[r]
      BY <2>a, <3>1 DEF Compiling
    <3>5. ContractsAnswer'
      BY <2>a, <3>1, <3>2, <3>3, <3>4 DEF ContractsAnswer, Keyed, Compiling
    <3>6. ContractsOfFrame'
      BY <2>a, <3>1, <3>2, <3>4 DEF ContractsOfFrame
    <3> QED
      BY <3>5, <3>6
  <2>9. ASSUME NEW r \in Readers,
               BlameStat(r) \/ FindRepoRoot(r) \/ HeadSha(r) \/ RevParse(r) \/ GetBlame(r)
        PROVE  ContractsAnswer' /\ ContractsOfFrame'
    <3>1. pc[r] \notin {"root", "head", "rev-parse", "blame"}
      BY <1>a, <1>d DEF CallsInTurn, StagesOf
    <3> QED
      BY <1>d, <2>9, <3>1 DEF BlameStat, FindRepoRoot, HeadSha, RevParse, GetBlame
  <2>10. ASSUME NEW r \in Readers, Return(r)
         PROVE  ContractsAnswer' /\ ContractsOfFrame'
    <3>1. /\ UNCHANGED <<slot, disk, mtime, newest, newer, compiled>>
          /\ pc'[r] = "idle" /\ framed'[r] = {}
          /\ \A o \in Readers : o # r =>
               /\ pc'[o] = pc[o] /\ keyed'[o] = keyed[o] /\ framed'[o] = framed[o]
               /\ during'[o] = during[o] /\ retimed'[o] = retimed[o]
      BY <1>a, <2>10 DEF Return, caches, stamps, FileTypes
    <3>2. ContractsAnswer'
      BY <2>a, <3>1 DEF ContractsAnswer, Keyed, Compiling
    <3>3. ContractsOfFrame'
      BY <2>a, <3>1 DEF ContractsOfFrame
    <3> QED
      BY <3>2, <3>3
  <2>11. QED
    BY <2>1, <2>2, <2>3, <2>4, <2>5, <2>6, <2>7, <2>8, <2>9, <2>10 DEF FileNext
<1>e. QED
  BY <1>c, <1>d

\* Where a step neither blames nor looks at the repository.
LEMMA BlamesStay ==
  ASSUME BlamesAnswer, BlameOfHead, slot = "blame",
         UNCHANGED <<slot, disk, mtime, newest, newer, head, headCache, blameCache, unread, located>>,
         \A o \in Readers :
           \/ /\ pc'[o] = pc[o] /\ stat'[o] = stat[o] /\ keyed'[o] = keyed[o] /\ sha'[o] = sha[o]
              /\ during'[o] = during[o] /\ retimed'[o] = retimed[o] /\ answer'[o] = answer[o]
           \/ pc'[o] \in {"idle", "find", "stat"}
           \/ pc'[o] = "done" /\ answer'[o] = {}
  PROVE  BlamesAnswer' /\ BlameOfHead'
<1>1. \A o \in Readers : pc'[o] \in Blaming =>
        /\ pc'[o] = pc[o] /\ stat'[o] = stat[o] /\ keyed'[o] = keyed[o] /\ sha'[o] = sha[o]
        /\ during'[o] = during[o] /\ retimed'[o] = retimed[o]
  BY DEF Blaming
<1>2. HeadRead'
  <2>1. \A o \in Readers :
          /\ pc'[o] \in {"head", "rev-parse", "blame"} => pc'[o] = pc[o] /\ keyed'[o] = keyed[o] /\ sha'[o] = sha[o]
    BY <1>1 DEF Blaming
  <2> QED
    BY <2>1 DEF BlamesAnswer, HeadRead
<1>3. BlamesAnswer'
  BY <1>1, <1>2 DEF BlamesAnswer, Keyed
<1>4. BlameOfHead'
  BY DEF BlameOfHead
<1> QED
  BY <1>3, <1>4

LEMMA BlamesKept == FilesInv /\ [FileNext]_fileVars => BlamesAnswer' /\ BlameOfHead'
<1> SUFFICES ASSUME FilesInv, [FileNext]_fileVars PROVE BlamesAnswer' /\ BlameOfHead'
  OBVIOUS
<1>a. FileTypes /\ CallsInTurn /\ SeenFromTheStart /\ BlamesAnswer /\ BlameOfHead
  BY DEF FilesInv
<1>b. slot' = slot
  <2>1. CASE UNCHANGED fileVars
    BY <2>1 DEF fileVars
  <2>2. CASE FileNext
    BY <2>2, StepsElsewhere DEF FileNext, Write, Git, Begin, Return, Step
  <2>3. QED
    BY <2>1, <2>2
<1>c. CASE slot # "blame"
  BY <1>b, <1>c DEF BlamesAnswer, BlameOfHead
<1>d. ASSUME slot = "blame"
      PROVE  BlamesAnswer' /\ BlameOfHead'
  <2>a. /\ head.mtime <= head.sha /\ (~head.dir => head.repo)
        /\ headCache.mtime <= headCache.sha /\ headCache.sha <= head.sha
        /\ (located = {"repo"} => head.repo)
        /\ \A b \in blameCache :
             /\ b.sha \in Int /\ b.key[2] \in Int /\ b.sha >= b.key[2]
             /\ b.file \in Nat /\ Keyed({"frame"}, b.key[1], {b.file})
    BY <1>a, <1>d DEF BlamesAnswer, HeadRead
  <2>b. \A r \in Readers :
          /\ pc[r] \in {"head", "rev-parse", "blame"} => head.repo
          /\ pc[r] = "rev-parse" => keyed[r] <= head.mtime
          /\ pc[r] = "blame" => IF sha[r] = NoHead THEN ~head.dir \/ unread
                                ELSE keyed[r] <= sha[r] /\ sha[r] <= head.sha
          /\ pc[r] \in Blaming =>
               /\ Keyed({"frame"}, stat[r], {})
               /\ "frame" \notin retimed[r] =>
                    \A b \in blameCache : b.key[1] = stat[r] => b.file \in during[r]
    BY <1>a, <1>d DEF BlamesAnswer, HeadRead
  <2>c. \A r, o \in Readers : pc[r] # "idle" /\ pc[o] # "idle" => r = o
    BY <1>a, <1>d DEF CallsInTurn, Slots, Node
  <2>d. \A r \in Readers : pc[r] # "idle" =>
          disk["frame"] \in during[r] /\ (newer["frame"] \/ "frame" \in retimed[r])
    BY <1>a, <1>d, FilesKnown DEF SeenFromTheStart, Slots
  <2>e. /\ pc = [o \in Readers |-> pc[o]] /\ answer = [o \in Readers |-> answer[o]]
        /\ stat \in [Readers -> Nat] /\ keyed \in [Readers -> Nat] /\ sha \in [Readers -> Int]
        /\ head.repo \in BOOLEAN /\ head.dir \in BOOLEAN /\ head.sha \in Nat /\ head.mtime \in Nat
        /\ head.sha <= clock /\ head.mtime <= clock /\ clock \in Nat
        /\ headCache.mtime \in Int /\ headCache.sha \in Int
        /\ located = NotLooked \/ located \subseteq {"repo"}
    BY <1>a, <1>d DEF FileTypes, Finding
  <2>f. \A r \in Readers : pc[r] \in {"idle", "find", "stat", "root", "head", "rev-parse", "blame", "done"}
    BY <1>a, <1>d DEF CallsInTurn, StagesOf
  <2>g. ~Finding
    BY <1>d DEF Finding
  <2>h. \A r \in Readers : pc[r] = "done" =>
          \A b \in answer[r] :
            /\ "frame" \notin retimed[r] => b.file \in during[r]
            /\ IF sha[r] = NoHead THEN ~head.dir \/ unread ELSE b.sha >= keyed[r]
    BY <1>a, <1>d DEF BlameOfHead
  <2>1. CASE UNCHANGED fileVars
    BY <1>a, <1>d, <2>1, BlamesStay DEF fileVars, caches, locals, history, stamps
  <2>2. ASSUME Write
        PROVE  BlamesAnswer' /\ BlameOfHead'
    <3>1. PICK f \in Files, v \in Nat, t \in Nat :
            /\ Written(f, v, t)
            /\ UNCHANGED <<slot, head, reads, caches, pc, locals, unread, answer>>
      BY <1>a, <2>2, WriteIsOne
    <3>2. \A r \in Readers : during[r] \subseteq during'[r] /\ retimed[r] \subseteq retimed'[r]
      BY <3>1 DEF Written
    <3>3. UNCHANGED <<head, pc, stat, keyed, sha, answer, located, headCache, blameCache, unread>>
      BY <3>1 DEF caches, locals
    <3>4. ASSUME NEW key, NEW content, Keyed({"frame"}, key, content)
          PROVE  KeyedIn({"frame"}, disk', mtime', newest', newer', key, content)
      BY <1>a, <2>2, <3>4, FrameKey, KeyedStays
    <3>5. HeadRead'
      BY <2>a, <2>b, <3>3 DEF HeadRead
    <3>6. BlamesAnswer'
      BY <2>a, <2>b, <3>2, <3>3, <3>4, <3>5 DEF BlamesAnswer, Keyed
    <3>7. BlameOfHead'
      BY <2>h, <3>2, <3>3 DEF BlameOfHead
    <3> QED
      BY <3>6, <3>7
  <2>3. ASSUME Git
        PROVE  BlamesAnswer' /\ BlameOfHead'
    <3>1. PICK at \in {head.mtime, clock + 1}, dir \in IF head.repo THEN {head.dir} ELSE BOOLEAN :
            head' = [repo |-> TRUE, dir |-> dir, sha |-> clock + 1, mtime |-> at]
      BY <2>3 DEF Git
    <3>2. /\ head'.repo = TRUE /\ head'.dir = dir /\ head'.sha = clock + 1 /\ head'.mtime = at
          /\ head.repo => dir = head.dir
      BY <3>1
    <3>3. /\ UNCHANGED <<slot, disk, mtime, newest, newer, pc, stat, keyed, sha, answer, unread>>
          /\ UNCHANGED <<located, headCache, blameCache, during, retimed>>
      BY <2>3 DEF Git, caches, locals, history, stamps
    <3>4. head'.mtime <= head'.sha /\ head.sha <= head'.sha /\ head.mtime <= head'.mtime
      BY <2>a, <2>e, <3>2
    <3>5. HeadRead'
      <4>1. ~head'.dir => head'.repo
        BY <3>2
      <4>2. headCache'.mtime <= headCache'.sha /\ headCache'.sha <= head'.sha
        BY <2>a, <2>e, <3>2, <3>3, <3>4
      <4>3. ASSUME NEW r \in Readers
            PROVE  /\ pc'[r] \in {"head", "rev-parse", "blame"} => head'.repo
                   /\ pc'[r] = "rev-parse" => keyed'[r] <= head'.mtime
                   /\ pc'[r] = "blame" => IF sha'[r] = NoHead THEN ~head'.dir \/ unread'
                                          ELSE keyed'[r] <= sha'[r] /\ sha'[r] <= head'.sha
        <5>1. keyed[r] \in Int /\ sha[r] \in Int /\ head'.sha \in Int /\ head'.mtime \in Int
          BY <2>e, <3>2
        <5>2. pc[r] = "rev-parse" => keyed[r] <= head'.mtime
          BY <2>b, <2>e, <3>4, <5>1
        <5>3. pc[r] = "blame" /\ sha[r] # NoHead => keyed[r] <= sha[r] /\ sha[r] <= head'.sha
          BY <2>b, <2>e, <3>4, <5>1
        <5>4. pc[r] = "blame" /\ sha[r] = NoHead => ~head'.dir \/ unread
          BY <2>b, <3>2
        <5> QED
          BY <3>2, <3>3, <5>2, <5>3, <5>4
      <4> QED
        BY <3>4, <4>1, <4>2, <4>3 DEF HeadRead
    <3>6. BlamesAnswer'
      BY <2>a, <2>b, <3>2, <3>3, <3>5 DEF BlamesAnswer, Keyed
    <3>7. BlameOfHead'
      <4>1. ~head.dir => ~head'.dir
        BY <2>a, <3>2
      <4> QED
        BY <2>h, <3>3, <4>1 DEF BlameOfHead
    <3> QED
      BY <3>6, <3>7
  <2>4. ASSUME NEW r \in Readers, Begin(r)
        PROVE  BlamesAnswer' /\ BlameOfHead'
    <3>1. /\ UNCHANGED <<slot, disk, mtime, newest, newer, head, stat, keyed, sha, unread, answer>>
          /\ UNCHANGED <<located, headCache, blameCache>>
          /\ pc'[r] \in {"idle", "find", "stat"}
          /\ \A o \in Readers : o # r =>
               pc'[o] = pc[o] /\ during'[o] = during[o] /\ retimed'[o] = retimed[o]
      BY <1>d, <2>4, <2>e DEF Begin, caches, stamps
    <3> QED
      BY <1>a, <1>d, <3>1, BlamesStay
  <2>5. ASSUME NEW r \in Readers, FindPath(r)
        PROVE  BlamesAnswer' /\ BlameOfHead'
    <3>1. /\ UNCHANGED <<slot, disk, mtime, newest, newer, head, unread, during, retimed>>
          /\ UNCHANGED <<located, headCache, blameCache>>
          /\ pc'[r] \in {"idle", "find", "stat"}
      BY <2>5, <2>e, <2>g DEF FindPath, Step, Goes, stamps, history
    <3>2. \A o \in Readers : o # r =>
            pc'[o] = pc[o] /\ stat'[o] = stat[o] /\ keyed'[o] = keyed[o] /\ sha'[o] = sha[o] /\ answer'[o] = answer[o]
      BY <1>a, <2>5, OthersStay
    <3> QED
      BY <1>a, <1>d, <3>1, <3>2, BlamesStay
  <2>6. ASSUME NEW r \in Readers,
               \/ LoadStat(r) \/ LoadRead(r) \/ LoadStore(r)
               \/ Compile(r) \/ RunSource(r) \/ KeepContracts(r)
        PROVE  BlamesAnswer' /\ BlameOfHead'
    <3>1. pc[r] \notin {"load", "store", "compile", "typescript", "zod", "keep"}
      BY <2>f
    <3>2. ~LoadStat(r) /\ ~LoadRead(r) /\ ~LoadStore(r)
      BY <1>d, <3>1 DEF LoadStat, LoadRead, LoadStore
    <3> QED
      BY <2>6, <3>1, <3>2 DEF Compile, RunSource, KeepContracts
  <2>7. ASSUME NEW r \in Readers,
               BlameStat(r) \/ FindRepoRoot(r) \/ HeadSha(r) \/ RevParse(r) \/ GetBlame(r)
        PROVE  BlamesAnswer' /\ BlameOfHead'
    <3>1. /\ UNCHANGED <<slot, disk, mtime, newest, newer, head, during, retimed>>
          /\ pc[r] \in {"stat", "root", "head", "rev-parse", "blame"}
      BY <2>7 DEF BlameStat, FindRepoRoot, HeadSha, RevParse, GetBlame, Step, stamps, history
    <3>2. \A o \in Readers : o # r => pc[o] = "idle" /\ pc'[o] = "idle"
      BY <1>a, <2>7, <2>c, <3>1, OthersStay
    <3>3. CASE BlameStat(r)
      <4>1. /\ UNCHANGED <<located, headCache, blameCache, keyed, sha, unread>>
            /\ \/ pc'[r] = "done" /\ answer'[r] = {}
               \/ pc'[r] = "root" /\ stat'[r] = mtime["frame"] /\ disk["frame"] # Missing
        BY <2>e, <3>3 DEF BlameStat, Answer, Goes, caches
      <4>2. CASE pc'[r] = "done" /\ answer'[r] = {}
        BY <1>a, <1>d, <3>1, <3>2, <4>1, <4>2, BlamesStay
      <4>3. CASE pc'[r] = "root" /\ stat'[r] = mtime["frame"] /\ disk["frame"] # Missing
        <5>1. Keyed({"frame"}, stat'[r], {})
          BY <1>a, <4>3, FrameKey, FilesStamped, KeyNow DEF Keyed
        <5>2. ASSUME NEW b \in blameCache, "frame" \notin retimed[r], b.key[1] = stat'[r]
              PROVE  b.file \in during[r]
          <6>1. newer["frame"] /\ disk["frame"] \in during[r]
            BY <2>d, <3>1, <5>2
          <6>2. {b.file} \subseteq {disk["frame"]}
            BY <1>a, <2>a, <4>3, <5>2, <6>1, FrameMatches
          <6> QED
            BY <6>1, <6>2
        <5>3. HeadRead'
          <6>1. \A o \in Readers : pc'[o] \notin {"head", "rev-parse", "blame"}
            BY <3>2, <4>3
          <6> QED
            BY <2>a, <3>1, <4>1, <6>1 DEF HeadRead
        <5>4. BlamesAnswer'
          <6>1. \A o \in Readers : pc'[o] \in Blaming => o = r
            BY <3>2 DEF Blaming
          <6> QED
            BY <2>a, <3>1, <4>1, <5>1, <5>2, <5>3, <6>1 DEF BlamesAnswer, Keyed
        <5>5. BlameOfHead'
          BY <3>2, <4>3 DEF BlameOfHead
        <5> QED
          BY <5>4, <5>5
      <4> QED
        BY <4>1, <4>2, <4>3
    <3>4. CASE FindRepoRoot(r) \/ HeadSha(r)
      <4>1. /\ UNCHANGED <<headCache, blameCache, stat, unread>> /\ pc[r] \in Blaming
            /\ located' = {"repo"} => head.repo
            /\ \/ pc'[r] = "done" /\ answer'[r] = {}
               \/ pc'[r] = "head" /\ located' = {"repo"}
               \/ /\ pc'[r] = "rev-parse" /\ keyed'[r] = head.mtime /\ pc[r] = "head"
               \/ /\ pc'[r] = "blame" /\ keyed'[r] = head.mtime /\ pc[r] = "head"
                  /\ headCache.mtime = head.mtime /\ sha'[r] = headCache.sha
               \/ pc'[r] = "blame" /\ ~head.dir /\ sha'[r] = NoHead /\ pc[r] = "head"
        <5>1. CASE FindRepoRoot(r)
          BY <2>a, <2>e, <5>1 DEF FindRepoRoot, Answer, Goes, Blaming, NotLooked
        <5>2. CASE HeadSha(r)
          BY <2>a, <2>e, <5>2 DEF HeadSha, Goes, Blaming, caches
        <5> QED
          BY <3>4, <5>1, <5>2
      <4>2. HeadRead'
        <5>1. pc'[r] \in {"head", "rev-parse", "blame"} => head.repo
          BY <2>b, <4>1
        <5>2. pc'[r] = "rev-parse" => keyed'[r] <= head.mtime
          BY <2>e, <4>1
        <5>3. pc'[r] = "blame" => IF sha'[r] = NoHead THEN ~head.dir \/ unread
                                  ELSE keyed'[r] <= sha'[r] /\ sha'[r] <= head.sha
          BY <2>a, <2>e, <4>1 DEF NoHead
        <5>4. \A o \in Readers : pc'[o] \in {"head", "rev-parse", "blame"} => o = r
          BY <3>2
        <5> QED
          BY <2>a, <3>1, <4>1, <5>1, <5>2, <5>3, <5>4 DEF HeadRead
      <4>3. BlamesAnswer'
        <5>1. \A o \in Readers : pc'[o] \in Blaming => o = r
          BY <3>2 DEF Blaming
        <5> QED
          BY <2>a, <2>b, <3>1, <4>1, <4>2, <5>1 DEF BlamesAnswer, Keyed
      <4>4. BlameOfHead'
        BY <3>2, <4>1 DEF BlameOfHead
      <4> QED
        BY <4>3, <4>4
    <3>5. CASE RevParse(r)
      <4>1. /\ UNCHANGED <<located, blameCache, stat, keyed>> /\ pc[r] = "rev-parse" /\ pc'[r] = "blame"
            /\ \/ /\ sha'[r] = head.sha /\ headCache'.mtime = keyed[r] /\ headCache'.sha = head.sha
                  /\ unread' = unread
               \/ sha'[r] = NoHead /\ unread' = TRUE /\ headCache' = headCache
        BY <2>e, <3>5 DEF RevParse, Goes
      <4>2. keyed[r] <= head.mtime /\ head.mtime <= head.sha /\ head.repo
        BY <2>a, <2>b, <4>1
      <4>3. HeadRead'
        <5>1. headCache'.mtime <= headCache'.sha /\ headCache'.sha <= head.sha
          BY <2>a, <2>e, <4>1, <4>2
        <5>2. IF sha'[r] = NoHead THEN ~head.dir \/ unread'
              ELSE keyed'[r] <= sha'[r] /\ sha'[r] <= head.sha
          BY <2>e, <4>1, <4>2 DEF NoHead
        <5>3. \A o \in Readers : pc'[o] \in {"head", "rev-parse", "blame"} => o = r
          BY <3>2
        <5> QED
          BY <2>a, <3>1, <4>1, <4>2, <5>1, <5>2, <5>3 DEF HeadRead
      <4>4. BlamesAnswer'
        <5>1. \A o \in Readers : pc'[o] \in Blaming => o = r
          BY <3>2 DEF Blaming
        <5>2. pc[r] \in Blaming
          BY <4>1 DEF Blaming
        <5> QED
          BY <2>a, <2>b, <3>1, <4>1, <4>3, <5>1, <5>2 DEF BlamesAnswer, Keyed
      <4>5. BlameOfHead'
        BY <3>2, <4>1 DEF BlameOfHead
      <4> QED
        BY <4>4, <4>5
    <3>6. CASE GetBlame(r)
      <4> DEFINE blame == [key |-> <<stat[r], sha[r]>>, file |-> disk["frame"], sha |-> head.sha]
      <4>1. /\ UNCHANGED <<located, headCache, stat, keyed, sha, unread>>
            /\ pc[r] = "blame" /\ pc'[r] = "done"
            /\ blameCache' = blameCache \/ blameCache' = blameCache \cup {blame}
            /\ \A b \in answer'[r] : b = blame \/ (b \in blameCache /\ b.key = <<stat[r], sha[r]>>)
        BY <2>e, <3>6 DEF GetBlame, Answer
      <4>2. /\ blame.key[1] = stat[r] /\ blame.key[2] = sha[r]
            /\ blame.file = disk["frame"] /\ blame.sha = head.sha
        OBVIOUS
      <4> HIDE DEF blame
      <4>3. sha[r] <= head.sha /\ disk["frame"] \in Nat /\ sha[r] \in Int /\ keyed[r] \in Int
        BY <1>a, <2>b, <2>e, <4>1, FrameKey DEF NoHead
      <4>4. Keyed({"frame"}, stat[r], {blame.file})
        <5>1. pc[r] \in Blaming
          BY <4>1 DEF Blaming
        <5>2. Keyed({"frame"}, stat[r], {} \cup {disk[f] : f \in {h \in {"frame"} : disk[h] # Missing}})
          BY <2>b, <5>1, KeyRead DEF Keyed
        <5>3. PICK base \in [AllFiles -> Nat] :
                /\ stat[r] = KeyOf({"frame"}, base)
                /\ \A f \in {"frame"} : base[f] <= newest[f]
          BY <5>2 DEF Keyed, KeyedIn
        <5>4. {blame.file} \subseteq {disk[f] : f \in {"frame"}}
          BY <4>2
        <5> QED
          BY <5>3, <5>4 DEF Keyed, KeyedIn
      <4>5. \A o \in Readers : pc'[o] = "idle" \/ o = r
        BY <3>2
      <4>6. HeadRead'
        BY <2>a, <3>1, <4>1, <4>5 DEF HeadRead
      <4>7. BlamesAnswer'
        <5>1. \A o \in Readers : pc'[o] \notin Blaming
          BY <4>1, <4>5 DEF Blaming
        <5>2. /\ blame.sha \in Int /\ blame.key[2] \in Int /\ blame.sha >= blame.key[2]
              /\ blame.file \in Nat /\ Keyed({"frame"}, blame.key[1], {blame.file})
          BY <2>e, <4>2, <4>3, <4>4
        <5>3. \A b \in blameCache' :
                /\ b.sha \in Int /\ b.key[2] \in Int /\ b.sha >= b.key[2]
                /\ b.file \in Nat /\ Keyed({"frame"}, b.key[1], {b.file})
          BY <2>a, <4>1, <5>2
        <5> QED
          BY <2>a, <3>1, <4>1, <4>6, <5>1, <5>3 DEF BlamesAnswer, Keyed
      <4>8. BlameOfHead'
        <5>1. ASSUME NEW b \in answer'[r]
              PROVE  /\ "frame" \notin retimed[r] => b.file \in during[r]
                     /\ IF sha[r] = NoHead THEN ~head.dir \/ unread ELSE b.sha >= keyed[r]
          <6>1. CASE b = blame
            BY <2>b, <2>d, <2>e, <4>1, <4>2, <4>3, <6>1
          <6>2. CASE b \in blameCache /\ b.key = <<stat[r], sha[r]>>
            <7>1. b.key[1] = stat[r] /\ b.key[2] = sha[r] /\ pc[r] \in Blaming
              BY <4>1, <6>2 DEF Blaming
            <7>2. "frame" \notin retimed[r] => b.file \in during[r]
              BY <2>b, <6>2, <7>1
            <7>3. sha[r] # NoHead => b.sha >= keyed[r]
              <8>1. b.sha >= sha[r] /\ b.sha \in Int
                BY <2>a, <6>2, <7>1
              <8>2. sha[r] # NoHead => keyed[r] <= sha[r]
                BY <2>b, <4>1
              <8> QED
                BY <4>3, <8>1, <8>2
            <7> QED
              BY <2>b, <4>1, <7>2, <7>3
          <6> QED
            BY <4>1, <5>1, <6>1, <6>2
        <5> QED
          BY <3>1, <4>1, <4>5, <5>1 DEF BlameOfHead
      <4> QED
        BY <4>7, <4>8
    <3> QED
      BY <2>7, <3>3, <3>4, <3>5, <3>6
  <2>8. ASSUME NEW r \in Readers, Return(r)
        PROVE  BlamesAnswer' /\ BlameOfHead'
    <3>1. /\ UNCHANGED <<slot, disk, mtime, newest, newer, head, unread>>
          /\ UNCHANGED <<located, headCache, blameCache>>
          /\ pc'[r] \in {"idle", "find", "stat"}
          /\ \A o \in Readers : o # r =>
               /\ pc'[o] = pc[o] /\ stat'[o] = stat[o] /\ keyed'[o] = keyed[o] /\ sha'[o] = sha[o]
               /\ during'[o] = during[o] /\ retimed'[o] = retimed[o] /\ answer'[o] = answer[o]
      BY <1>a, <2>8 DEF Return, caches, stamps, FileTypes
    <3> QED
      BY <1>a, <1>d, <3>1, BlamesStay
  <2>9. QED
    BY <2>1, <2>2, <2>3, <2>4, <2>5, <2>6, <2>7, <2>8 DEF FileNext
<1>e. QED
  BY <1>c, <1>d

LEMMA FilesStart == FileInit => FilesInv
<1> SUFFICES ASSUME FileInit PROVE FilesInv
  OBVIOUS
<1>1. FileTypes
  <2>1. head \in [repo : IF slot = "blame" THEN BOOLEAN ELSE {FALSE}, dir : {TRUE}, sha : {0}, mtime : {0}]
    BY DEF FileInit
  <2>2. head.repo \in BOOLEAN
    BY <2>1
  <2>3. head \in [repo : BOOLEAN, dir : BOOLEAN, sha : 0 .. clock, mtime : 0 .. clock]
    <3>1. clock = 3 /\ 0 \in 0 .. 3
      BY DEF FileInit
    <3>2. PICK repo \in BOOLEAN : head = [repo |-> repo, dir |-> TRUE, sha |-> 0, mtime |-> 0]
      <4>1. CASE slot = "blame"
        BY <2>1, <4>1
      <4>2. CASE slot # "blame"
        BY <2>1, <4>2
      <4> QED
        BY <4>1, <4>2
    <3> QED
      BY <3>1, <3>2
  <2>4. /\ disk \in [AllFiles -> Nat] /\ mtime \in [AllFiles -> Nat] /\ newest = mtime
        /\ newer \in [AllFiles -> BOOLEAN]
    BY DEF FileInit, AllFiles
  <2>5. slot \in Slots /\ clock \in Nat \ {0} /\ located = NotLooked
    BY DEF FileInit
  <2>6. /\ cache \in [mtime : Int, content : SUBSET Nat]
        /\ compiled \in [Commits -> [mtime : Int, frame : SUBSET Nat, content : SUBSET Nat]]
        /\ headCache \in [mtime : Int, sha : Int]
    BY DEF FileInit, NoEntry, NoContracts
  <2>7. /\ pc = [r \in Readers |-> pc[r]] /\ stat \in [Readers -> Nat]
        /\ held \in [Readers -> SUBSET Nat] /\ during \in [Readers -> SUBSET Nat]
        /\ commit \in [Readers -> Commits] /\ keyed \in [Readers -> Nat]
        /\ framed \in [Readers -> SUBSET Nat] /\ sha \in [Readers -> Int]
        /\ hit \in [Readers -> BOOLEAN] /\ retimed = [r \in Readers |-> retimed[r]]
        /\ answer = [r \in Readers |-> answer[r]] /\ \A r \in Readers : answer[r] \in SUBSET Nat
    BY DEF FileInit, Commits, NoHead
  <2>8. QED
    BY <2>3, <2>4, <2>5, <2>6, <2>7 DEF FileTypes
<1>2. CallsInTurn
  BY DEF FileInit, CallsInTurn, StagesOf
<1>3. SeenFromTheStart
  BY DEF FileInit, SeenFromTheStart
<1>4. LoadsAnswer /\ LoadedDuringCall
  BY DEF FileInit, LoadsAnswer, LoadedDuringCall, NoEntry
<1>5. ContractsAnswer /\ ContractsOfFrame
  BY DEF FileInit, ContractsAnswer, ContractsOfFrame, NoContracts, Compiling
<1>6. BlamesAnswer /\ BlameOfHead
  <2>1. head.mtime = 0 /\ head.sha = 0 /\ head.dir = TRUE /\ headCache.mtime = -1 /\ headCache.sha = -1
    BY DEF FileInit
  <2>2. located # {"repo"} /\ blameCache = {} /\ \A r \in Readers : pc[r] = "idle"
    BY DEF FileInit, NotLooked
  <2> QED
    BY <2>1, <2>2 DEF BlamesAnswer, HeadRead, BlameOfHead, Blaming
<1>7. QED
  BY <1>1, <1>2, <1>3, <1>4, <1>5, <1>6 DEF FilesInv

\* Whatever is written, with whatever mtime, committed and removed while callers
\* stand between two system calls: a load answers with what its files held
\* during the call, contracts are of the frame's file as it was, a blame of the
\* file as it was and of a commit no older than the last write of .git/HEAD.
\* The exceptions are files whose mtime is not newer than all that they had
\* before, an older schema while the frame's file is the same, and a HEAD that
\* cannot be read (source-context.ts, intent/compiler.ts and the intent sources).
THEOREM CachesAnswerForTheirCall == FileInit /\ [][FileNext]_fileVars => []CachesExplained
<1>1. FilesInv /\ [FileNext]_fileVars => FilesInv'
  BY TypesKept, TurnsKept, SeenKept, LoadsKept, BlamesKept, ContractsKept DEF FilesInv
<1>2. FilesInv => CachesExplained
  BY DEF FilesInv, CachesExplained
<1>3. QED
  BY <1>1, <1>2, FilesStart, PTL

-----------------------------------------------------------------------------
(* The token budget.  An event's parts have any weights, and the estimate is *)
(* not looked into: whatever it counts, the order of the drops is kept.      *)

Event == {e \in [Parts -> Nat] : WellFormed(e)}

\* x is e after j of the first k drops: none fewer makes it fit, and it fits or
\* all k are spent.
StopsAt(e, budget, k, j, x) ==
  /\ x = AfterDrops(e, j)
  /\ \A m \in 0 .. j - 1 : ~Fits(AfterDrops(e, m), budget)
  /\ Fits(x, budget) \/ j = k

Stops(e, budget, k, x) == \E j \in 0 .. k : StopsAt(e, budget, k, j, x)

\* The parts that the first drops remove, one after the other.
LEMMA DropsOneByOne ==
  /\ DOMAIN DropOrder = 1 .. 10 /\ Len(DropOrder) = 10
  /\ \A k \in 1 .. 10 : /\ DropOrder[k] \in Parts \ {"asyncStack", "container"}
                        /\ DropOrder[k] = "firstLocals" <=> k = 8
                        /\ DropOrder[k] = "otherLocals" <=> k = 7
                        /\ DropOrder[k] = "closureChains" <=> k = 6
BY DEF DropOrder, Parts

\* The k-th drop takes its part away from what the ones before it leave.
LEMMA NextDrop ==
  ASSUME NEW e \in [Parts -> Nat], NEW k \in (1 .. 10) \ {8}
  PROVE  AfterDrops(e, k) = Without(AfterDrops(e, k - 1), {DropOrder[k]})
<1> DEFINE Gone(n) == {DropOrder[i] : i \in 1 .. n}
           Empty(n) == /\ e["firstLocals"] > 0 /\ "firstLocals" \in Gone(n)
                       /\ e["asyncStack"] = 0
           Also(n) == IF Empty(n) THEN {"container"} ELSE {}
<1>1. 1 .. k = (1 .. k - 1) \cup {k}
  OBVIOUS
<1>2. Gone(k) = Gone(k - 1) \cup {DropOrder[k]}
  BY <1>1
<1>3. DropOrder[k] # "firstLocals"
  BY DropsOneByOne
<1>4. Also(k) = Also(k - 1)
  BY <1>2, <1>3
<1>5. /\ AfterDrops(e, k) = Without(e, Gone(k) \cup Also(k))
      /\ AfterDrops(e, k - 1) = Without(e, Gone(k - 1) \cup Also(k - 1))
  BY DEF AfterDrops
<1> HIDE DEF Gone, Also
<1>6. QED
  BY <1>2, <1>4, <1>5 DEF Without

\* No drop: the event.
LEMMA NoDrop ==
  ASSUME NEW e \in [Parts -> Nat]
  PROVE  AfterDrops(e, 0) = e
BY DEF AfterDrops, Without

LEMMA DropsKeepEvents ==
  ASSUME NEW e \in [Parts -> Nat], NEW k \in Nat
  PROVE  AfterDrops(e, k) \in [Parts -> Nat]
BY DEF AfterDrops, Without

\* To drop a part that is not there changes nothing.
LEMMA DropStepEffect ==
  ASSUME NEW e \in [Parts -> Nat], NEW part \in Parts, NEW budget
  PROVE  DropStep(e, part, budget) = IF Fits(e, budget) THEN e ELSE Without(e, {part})
<1>1. e[part] \in Nat
  OBVIOUS
<1>2. CASE e[part] > 0
  BY <1>2 DEF DropStep
<1>3. CASE e[part] = 0
  <2>1. Without(e, {part}) = e
    BY <1>3 DEF Without
  <2> QED
    BY <1>3, <2>1 DEF DropStep
<1> QED
  BY <1>1, <1>2, <1>3

\* A numbered step spends one more drop, if one is needed.
LEMMA StopsNext ==
  ASSUME NEW e \in [Parts -> Nat], NEW budget, NEW k \in (1 .. 10) \ {8}, NEW x,
         Stops(e, budget, k - 1, x)
  PROVE  Stops(e, budget, k, DropStep(x, DropOrder[k], budget))
<1>1. PICK j \in 0 .. k - 1 : StopsAt(e, budget, k - 1, j, x)
  BY DEF Stops
<1>2. x \in [Parts -> Nat] /\ DropOrder[k] \in Parts
  <2>1. x = AfterDrops(e, j) /\ j \in Nat
    BY <1>1 DEF StopsAt
  <2>2. DropOrder[k] \in Parts
    BY DropsOneByOne
  <2> QED
    BY <2>1, <2>2, DropsKeepEvents
<1>3. CASE Fits(x, budget)
  <2>1. DropStep(x, DropOrder[k], budget) = x
    BY <1>2, <1>3, DropStepEffect
  <2> QED
    BY <1>1, <1>3, <2>1 DEF Stops, StopsAt
<1>4. CASE ~Fits(x, budget)
  <2>1. j = k - 1 /\ x = AfterDrops(e, k - 1)
    BY <1>1, <1>4 DEF StopsAt
  <2>2. DropStep(x, DropOrder[k], budget) = AfterDrops(e, k)
    BY <1>2, <1>4, <2>1, DropStepEffect, NextDrop
  <2>3. \A m \in 0 .. k - 1 : ~Fits(AfterDrops(e, m), budget)
    BY <1>1, <1>4, <2>1 DEF StopsAt
  <2> QED
    BY <2>2, <2>3 DEF Stops, StopsAt
<1> QED
  BY <1>3, <1>4

\* The locals are two drops, 7 and 8; with the first frame's the container goes
\* if nothing is left in it.
LEMMA StopsAtLocals ==
  ASSUME NEW e \in Event, NEW budget, NEW x, Stops(e, budget, 6, x)
  PROVE  Stops(e, budget, 8, DropLocals(x, budget))
<1>0. e \in [Parts -> Nat] /\ WellFormed(e)
  BY DEF Event
<1>1. PICK j \in 0 .. 6 : StopsAt(e, budget, 6, j, x)
  BY DEF Stops
<1> DEFINE Gone(n) == {DropOrder[i] : i \in 1 .. n}
<1>2. /\ Gone(8) = Gone(7) \cup {"firstLocals"} /\ Gone(7) = Gone(6) \cup {"otherLocals"}
      /\ "closureChains" \in Gone(6)
      /\ {"firstLocals", "asyncStack", "container"} \cap Gone(7) = {}
  <2>1. 1 .. 8 = (1 .. 7) \cup {8} /\ 1 .. 7 = (1 .. 6) \cup {7} /\ 6 \in 1 .. 6
    OBVIOUS
  <2>2. DropOrder[8] = "firstLocals" /\ DropOrder[7] = "otherLocals"
        /\ DropOrder[6] = "closureChains"
    BY DropsOneByOne
  <2>3. {"firstLocals", "asyncStack", "container"} \cap Gone(7) = {}
    BY DropsOneByOne
  <2> QED
    BY <2>1, <2>2, <2>3
<1>3. /\ AfterDrops(e, 6) = Without(e, Gone(6))
      /\ AfterDrops(e, 7) = Without(e, Gone(7))
      /\ AfterDrops(e, 8) = Without(e, Gone(8) \cup
           IF e["firstLocals"] > 0 /\ e["asyncStack"] = 0 THEN {"container"} ELSE {})
  BY <1>2 DEF AfterDrops
<1> HIDE DEF Gone
<1>4. {"firstLocals", "otherLocals", "asyncStack", "container", "closureChains"} \subseteq Parts
  BY DEF Parts
<1>5. CASE Fits(x, budget)
  BY <1>1, <1>5 DEF DropLocals, Stops, StopsAt
<1>6. CASE ~Fits(x, budget)
  <2>1. j = 6 /\ x = AfterDrops(e, 6) /\ \A m \in 0 .. 6 : ~Fits(AfterDrops(e, m), budget)
    BY <1>1, <1>6 DEF StopsAt
  <2>2. x["firstLocals"] = e["firstLocals"] /\ x \in [Parts -> Nat]
    BY <1>0, <1>2, <1>3, <1>4, <2>1 DEF Without
  <2>3. CASE e["firstLocals"] = 0
    <3>1. e["otherLocals"] = 0
      BY <1>0, <1>4, <2>3 DEF WellFormed
    <3>2. AfterDrops(e, 7) = AfterDrops(e, 6) /\ AfterDrops(e, 8) = AfterDrops(e, 6)
      BY <1>0, <1>2, <1>3, <2>3, <3>1 DEF Without
    <3>3. \A m \in 0 .. 7 : ~Fits(AfterDrops(e, m), budget)
      BY <2>1, <3>2
    <3> QED
      BY <2>1, <2>2, <2>3, <3>2, <3>3 DEF DropLocals, Stops, StopsAt
  <2>4. CASE e["firstLocals"] # 0
    <3> DEFINE y == DropStep(x, "otherLocals", budget)
               left == DropStep(y, "firstLocals", budget)
    <3>1. y = AfterDrops(e, 7)
      <4>1. y = Without(x, {"otherLocals"})
        BY <1>4, <1>6, <2>2, DropStepEffect
      <4> QED
        BY <1>2, <1>3, <2>1, <4>1 DEF Without
    <3>2. y \in [Parts -> Nat] /\ y["firstLocals"] = e["firstLocals"]
          /\ y["closureChains"] = 0 /\ y["asyncStack"] = e["asyncStack"]
      BY <1>0, <1>2, <1>3, <1>4, <3>1 DEF Without
    <3>3. DropLocals(x, budget) =
            IF \A f \in {"firstLocals", "closureChains", "asyncStack"} : left[f] = 0
            THEN Without(left, {"container"}) ELSE left
      BY <1>6, <2>2, <2>4 DEF DropLocals
    <3> HIDE DEF y
    <3>4. CASE Fits(y, budget)
      <4>1. left = y
        BY <1>4, <3>2, <3>4, DropStepEffect
      <4>2. DropLocals(x, budget) = AfterDrops(e, 7)
        BY <2>4, <3>1, <3>2, <3>3, <4>1
      <4> QED
        BY <2>1, <3>1, <3>4, <4>2 DEF Stops, StopsAt
    <3>5. CASE ~Fits(y, budget)
      <4>1. left = Without(y, {"firstLocals"})
        BY <1>4, <3>2, <3>5, DropStepEffect
      <4>2. left["firstLocals"] = 0 /\ left["closureChains"] = 0
            /\ left["asyncStack"] = e["asyncStack"]
        BY <1>4, <3>2, <4>1 DEF Without
      <4>3. left = Without(e, Gone(8))
        BY <1>2, <1>3, <3>1, <4>1 DEF Without
      <4> HIDE DEF left
      <4>4. DropLocals(x, budget) =
              IF e["asyncStack"] = 0 THEN Without(left, {"container"}) ELSE left
        BY <3>3, <4>2
      <4>5. DropLocals(x, budget) = AfterDrops(e, 8)
        <5>1. e["firstLocals"] > 0
          BY <1>0, <1>4, <2>4
        <5>2. CASE e["asyncStack"] = 0
          <6>1. AfterDrops(e, 8) = Without(e, Gone(8) \cup {"container"})
            BY <1>3, <5>1, <5>2
          <6> QED
            BY <4>3, <4>4, <5>2, <6>1 DEF Without
        <5>3. CASE e["asyncStack"] # 0
          <6>1. AfterDrops(e, 8) = Without(e, Gone(8))
            BY <1>3, <5>3 DEF Without
          <6> QED
            BY <4>3, <4>4, <5>3, <6>1
        <5> QED
          BY <5>2, <5>3
      <4>6. \A m \in 0 .. 7 : ~Fits(AfterDrops(e, m), budget)
        BY <2>1, <3>1, <3>5
      <4> QED
        BY <4>5, <4>6 DEF Stops, StopsAt
    <3> QED
      BY <3>4, <3>5
  <2> QED
    BY <2>3, <2>4
<1> QED
  BY <1>5, <1>6

\* applyTokenBudget leaves the event after the fewest drops of its list that make
\* it fit, or after all of them when none does, for any weights, budget and
\* estimate: nothing is dropped that could have stayed, and nothing out of order
\* (v2-budget.ts:68-181).
THEOREM FewestDrops ==
  ASSUME NEW e \in Event, NEW budget
  PROVE  LeastDrops(e, budget, ApplyTokenBudget(e, budget))
<1> DEFINE drop1 == DropStep(e, "causalGraph", budget)
           drop2 == DropStep(drop1, "expected", budget)
           drop3 == DropStep(drop2, "after", budget)
           drop4 == DropStep(drop3, "precursors", budget)
           drop5 == DropStep(drop4, "breadcrumbs", budget)
           drop6 == DropStep(drop5, "closureChains", budget)
           drop7 == DropLocals(drop6, budget)
           drop8 == DropStep(drop7, "runtimeSnap", budget)
           result == DropStep(drop8, "hypotheses", budget)
<1>0. e \in [Parts -> Nat]
  BY DEF Event
<1>1. ApplyTokenBudget(e, budget) = result
  BY DEF ApplyTokenBudget
<1>2. /\ DropOrder[1] = "causalGraph" /\ DropOrder[2] = "expected" /\ DropOrder[3] = "after"
      /\ DropOrder[4] = "precursors" /\ DropOrder[5] = "breadcrumbs"
      /\ DropOrder[6] = "closureChains"
      /\ DropOrder[9] = "runtimeSnap" /\ DropOrder[10] = "hypotheses"
  BY DEF DropOrder
<1>3. Stops(e, budget, 0, e)
  BY <1>0, NoDrop DEF Stops, StopsAt
<1>4. \A k \in (1 .. 10) \ {8} : \A x :
        Stops(e, budget, k - 1, x) => Stops(e, budget, k, DropStep(x, DropOrder[k], budget))
  BY <1>0, StopsNext
<1>5. \A x : /\ Stops(e, budget, 0, x) => Stops(e, budget, 1, DropStep(x, DropOrder[1], budget))
             /\ Stops(e, budget, 1, x) => Stops(e, budget, 2, DropStep(x, DropOrder[2], budget))
             /\ Stops(e, budget, 2, x) => Stops(e, budget, 3, DropStep(x, DropOrder[3], budget))
             /\ Stops(e, budget, 3, x) => Stops(e, budget, 4, DropStep(x, DropOrder[4], budget))
             /\ Stops(e, budget, 4, x) => Stops(e, budget, 5, DropStep(x, DropOrder[5], budget))
             /\ Stops(e, budget, 5, x) => Stops(e, budget, 6, DropStep(x, DropOrder[6], budget))
             /\ Stops(e, budget, 8, x) => Stops(e, budget, 9, DropStep(x, DropOrder[9], budget))
             /\ Stops(e, budget, 9, x) => Stops(e, budget, 10, DropStep(x, DropOrder[10], budget))
  BY <1>4
<1> HIDE DEF drop1, drop2, drop3, drop4, drop5, drop6, drop7, drop8, result
<1>6. Stops(e, budget, 6, drop6)
  BY <1>2, <1>3, <1>5 DEF drop1, drop2, drop3, drop4, drop5, drop6
<1>7. Stops(e, budget, 10, result)
  <2>1. Stops(e, budget, 8, drop7)
    BY <1>6, StopsAtLocals DEF drop7
  <2> QED
    BY <1>2, <1>5, <2>1 DEF drop8, result
<1>8. LeastDrops(e, budget, result)
  <2>1. PICK j \in 0 .. 10 : StopsAt(e, budget, 10, j, result)
    BY <1>7 DEF Stops
  <2> DEFINE fits == {k \in 0 .. 10 : Fits(AfterDrops(e, k), budget)}
             k == IF fits = {} THEN 10 ELSE CHOOSE n \in fits : \A m \in fits : n <= m
  <2>2. LeastDrops(e, budget, result) <=> result = AfterDrops(e, k)
    BY DropsOneByOne DEF LeastDrops
  <2>3. CASE Fits(result, budget)
    <3>1. j \in fits /\ \A m \in fits : j <= m
      BY <2>1, <2>3 DEF StopsAt
    <3>2. \A n \in fits : (\A m \in fits : n <= m) => n = j
      BY <3>1
    <3>3. k = j
      BY <3>1, <3>2
    <3> QED
      BY <2>1, <2>2, <3>3 DEF StopsAt
  <2>4. CASE ~Fits(result, budget)
    <3>1. j = 10 /\ \A m \in 0 .. 10 : ~Fits(AfterDrops(e, m), budget)
      BY <2>1, <2>4 DEF StopsAt
    <3>2. fits = {}
      BY <3>1
    <3> QED
      BY <2>1, <2>2, <3>1, <3>2 DEF StopsAt
  <2> QED
    BY <2>3, <2>4
<1> QED
  BY <1>1, <1>8

-----------------------------------------------------------------------------
(* What the SDKs keep of a request, for any body, headers and paths.         *)

Paths == Seq(STRING)
Texts == {"short", "long", "huge", "wide", "astral"}
BodyLeaf == [path : Paths, text : Texts, marks : {0}]
ScrubbedLeaf == [path : Paths, text : Texts \cup {"cut", "redacted"}, marks : {0}]

\* What a leaf becomes, given the places of its first sensitive name.
ImageAt(at, leaf, shown) ==
  IF at = {} THEN shown ELSE Leaf(SubSeq(leaf.path, 1, CHOOSE k \in at : TRUE), "redacted")

Image(sdk, leaf) == ImageAt(HiddenAt(sdk, leaf.path), leaf, Truncated(sdk, leaf))

LEMMA BodyOfImages ==
  ASSUME NEW sdk, NEW body
  PROVE  RedactBody(sdk, body) = {Image(sdk, l) : l \in {m \in body : ~Dropped(sdk, m.path)}}
BY DEF RedactBody, Image, ImageAt

\* A leaf without a sensitive name above it keeps its path.
LEMMA ImageOfShown ==
  ASSUME NEW sdk, NEW l \in ScrubbedLeaf, HiddenAt(sdk, l.path) = {}
  PROVE  /\ Image(sdk, l).path = l.path
         /\ \/ Image(sdk, l) = l
            \/ Image(sdk, l) = Leaf(l.path, "cut") /\ Image(sdk, l) \in ScrubbedLeaf
            \/ Image(sdk, l).text = l.text /\ Image(sdk, l).marks = 1
<1>1. Image(sdk, l) = Truncated(sdk, l)
  BY DEF Image, ImageAt
<1>2. Leaf(l.path, "cut") \in ScrubbedLeaf /\ Leaf(l.path, "cut").path = l.path
  BY DEF Leaf, ScrubbedLeaf
<1>3. /\ [l EXCEPT !.marks = @ + 1].path = l.path /\ [l EXCEPT !.marks = @ + 1].text = l.text
      /\ [l EXCEPT !.marks = @ + 1].marks = 1
  BY DEF ScrubbedLeaf
<1> QED
  BY <1>1, <1>2, <1>3 DEF Truncated, CutText

\* The first sensitive name is at one place.
LEMMA FirstHidden ==
  ASSUME NEW sdk, NEW p \in Paths, NEW k \in HiddenAt(sdk, p)
  PROVE  /\ k \in 1 .. Len(p) /\ IsRedactedField(sdk, p[k])
         /\ HiddenAt(sdk, p) = {k}
<1>1. k \in 1 .. Len(p) /\ IsRedactedField(sdk, p[k])
      /\ \A j \in 1 .. k - 1 : ~IsRedactedField(sdk, p[j])
  BY DEF HiddenAt, Paths
<1>2. ASSUME NEW n \in HiddenAt(sdk, p)
      PROVE  n = k
  <2>1. n \in 1 .. Len(p) /\ IsRedactedField(sdk, p[n])
        /\ \A j \in 1 .. n - 1 : ~IsRedactedField(sdk, p[j])
    BY DEF HiddenAt, Paths
  <2>2. Len(p) \in Nat
    BY DEF Paths
  <2> HIDE DEF Paths
  <2>3. ~(n < k) /\ ~(k < n)
    BY <1>1, <2>1, <2>2
  <2> QED
    BY <1>1, <2>1, <2>2, <2>3
<1> QED
  BY <1>1, <1>2

\* What stands for the hidden part has its first sensitive name where it had it.
LEMMA HiddenInPrefix ==
  ASSUME NEW sdk, NEW p \in Paths, NEW k \in HiddenAt(sdk, p)
  PROVE  /\ SubSeq(p, 1, k) \in Paths /\ Len(SubSeq(p, 1, k)) = k
         /\ \A j \in 1 .. k : SubSeq(p, 1, k)[j] = p[j]
         /\ SubSeq(SubSeq(p, 1, k), 1, k) = SubSeq(p, 1, k)
         /\ k \in HiddenAt(sdk, SubSeq(p, 1, k))
<1> DEFINE q == SubSeq(p, 1, k)
<1>1. k \in 1 .. Len(p)
  BY FirstHidden
<1>2. q \in Paths /\ Len(q) = k /\ \A j \in 1 .. k : q[j] = p[j]
  BY <1>1 DEF Paths
<1>3. SubSeq(q, 1, k) = q
  BY <1>1, <1>2 DEF Paths
<1> HIDE DEF q
<1>4. k \in HiddenAt(sdk, q)
  BY <1>1, <1>2 DEF HiddenAt
<1> QED
  BY <1>2, <1>3, <1>4 DEF q

LEMMA ImageOfHidden ==
  ASSUME NEW sdk, NEW l \in ScrubbedLeaf, NEW k \in HiddenAt(sdk, l.path)
  PROVE  /\ Image(sdk, l) = Leaf(SubSeq(l.path, 1, k), "redacted")
         /\ Image(sdk, l) \in ScrubbedLeaf
<1>1. l.path \in Paths
  BY DEF ScrubbedLeaf
<1>2. HiddenAt(sdk, l.path) = {k}
  BY <1>1, FirstHidden
<1>3. Image(sdk, l) = Leaf(SubSeq(l.path, 1, k), "redacted")
  BY <1>2 DEF Image, ImageAt
<1>4. SubSeq(l.path, 1, k) \in Paths
  BY <1>1, HiddenInPrefix
<1> QED
  BY <1>3, <1>4 DEF Leaf, ScrubbedLeaf

\* Once redacted, a leaf is not redacted further.
LEMMA ImageStays ==
  ASSUME NEW sdk, NEW l \in ScrubbedLeaf, ~Dropped(sdk, l.path), Image(sdk, l).marks = 0
  PROVE  /\ ~Dropped(sdk, Image(sdk, l).path)
         /\ Image(sdk, Image(sdk, l)) = Image(sdk, l)
<1> DEFINE m == Image(sdk, l)
<1>0. l.path \in Paths
  BY DEF ScrubbedLeaf
<1>1. CASE HiddenAt(sdk, l.path) = {}
  <2>1. m.path = l.path /\ (m = l \/ m = Leaf(l.path, "cut"))
    BY <1>1, ImageOfShown
  <2>2. CASE m = l
    BY <2>2
  <2>3. CASE m = Leaf(l.path, "cut")
    <3>1. Image(sdk, m) = Truncated(sdk, m)
      BY <1>1, <2>1 DEF Image, ImageAt
    <3>2. m.text = "cut"
      BY <2>3 DEF Leaf
    <3>3. ~CutShallow(sdk, m) /\ ~CutDeep(sdk, m)
      BY <3>2 DEF CutShallow, CutDeep, Over500, Over1024
    <3> QED
      BY <2>1, <3>1, <3>3 DEF Truncated
  <2> QED
    BY <2>1, <2>2, <2>3
<1>2. ASSUME NEW k \in HiddenAt(sdk, l.path)
      PROVE  ~Dropped(sdk, m.path) /\ Image(sdk, m) = m
  <2> DEFINE q == SubSeq(l.path, 1, k)
  <2>1. m = Leaf(q, "redacted") /\ m \in ScrubbedLeaf
    BY ImageOfHidden
  <2>2. q \in Paths /\ Len(q) = k /\ (\A j \in 1 .. k : q[j] = l.path[j])
        /\ SubSeq(q, 1, k) = q /\ k \in HiddenAt(sdk, q)
    BY <1>0, HiddenInPrefix
  <2>3. k \in 1 .. Len(l.path)
    BY <1>0, FirstHidden
  <2> HIDE DEF q, m
  <2>4. m.path = q
    BY <2>1 DEF Leaf
  <2>5. Image(sdk, m) = Leaf(SubSeq(q, 1, k), "redacted")
    <3>1. k \in HiddenAt(sdk, m.path)
      BY <2>2, <2>4
    <3>2. Image(sdk, m) = Leaf(SubSeq(m.path, 1, k), "redacted")
      BY <2>1, <3>1, ImageOfHidden
    <3> QED
      BY <2>4, <3>2
  <2>6. l.path # <<>> /\ q # <<>> /\ q[1] = l.path[1]
    <3>1. k \in Nat /\ k >= 1 /\ 1 \in 1 .. k
      BY <2>3
    <3>2. Len(l.path) # 0 /\ Len(q) # 0
      BY <2>2, <2>3, <3>1
    <3>3. Len(<< >>) = 0
      OBVIOUS
    <3> QED
      BY <2>2, <3>1, <3>2, <3>3
  <2> QED
    BY <2>1, <2>2, <2>4, <2>5, <2>6 DEF Dropped
<1> QED
  BY <1>1, <1>2

\* A body redacted twice is as redacted once, if no text was marked as cut in vain.
LEMMA RedactedTwiceAsOnce ==
  ASSUME NEW sdk, NEW body \in SUBSET BodyLeaf,
         \A m \in RedactBody(sdk, body) : m.marks = 0
  PROVE  RedactBody(sdk, RedactBody(sdk, body)) = RedactBody(sdk, body)
<1> DEFINE kept == {m \in body : ~Dropped(sdk, m.path)}
           once == {Image(sdk, l) : l \in kept}
<1>1. \A l \in kept : l \in ScrubbedLeaf /\ ~Dropped(sdk, l.path)
  BY DEF BodyLeaf, ScrubbedLeaf
<1>3. RedactBody(sdk, body) = once
  BY BodyOfImages
<1>2. \A m \in once : ~Dropped(sdk, m.path) /\ Image(sdk, m) = m
  BY <1>1, <1>3, ImageStays
<1>4. RedactBody(sdk, once) = {Image(sdk, m) : m \in {n \in once : ~Dropped(sdk, n.path)}}
  BY BodyOfImages
<1> HIDE DEF once
<1>5. {n \in once : ~Dropped(sdk, n.path)} = once /\ {Image(sdk, m) : m \in once} = once
  BY <1>2
<1> QED
  BY <1>3, <1>4, <1>5

\* Two SDKs that look as deep and know the same names redact alike, unless the text is
\* one that they measure differently; and they hide the same in any case.
LEMMA SameBody ==
  ASSUME NEW a, NEW b, NEW body, a \in Shallow <=> b \in Shallow,
         \A key : IsRedactedField(a, key) <=> IsRedactedField(b, key),
         \A l \in body : Truncated(a, l) = Truncated(b, l)
  PROVE  RedactBody(a, body) = RedactBody(b, body)
<1>1. \A l : HiddenAt(a, l.path) = HiddenAt(b, l.path)
  BY DEF HiddenAt
<1>2. \A l : Dropped(a, l.path) <=> Dropped(b, l.path)
  BY DEF Dropped
<1>3. \A l \in body : Image(a, l) = Image(b, l)
  BY <1>1 DEF Image
<1> HIDE DEF Image
<1>4. {m \in body : ~Dropped(a, m.path)} = {m \in body : ~Dropped(b, m.path)}
  BY <1>2
<1> QED
  BY <1>3, <1>4, BodyOfImages

LEMMA SameCuts ==
  ASSUME NEW a \in ScrubSdks, NEW b \in ScrubSdks, a \in Shallow <=> b \in Shallow,
         NEW l \in BodyLeaf,
         (Unit(a) = Unit(b) /\ "rust" \notin {a, b}) \/ l.text \notin {"wide", "astral"}
  PROVE  Truncated(a, l) = Truncated(b, l)
<1>1. CASE Unit(a) = Unit(b) /\ "rust" \notin {a, b}
  BY <1>1 DEF Truncated, CutText, CutShallow, CutDeep
<1>2. CASE l.text \notin {"wide", "astral"}
  <2>1. ASSUME NEW sdk
        PROVE  /\ CutShallow(sdk, l) <=> IF l.path = <<>> THEN l.text = "huge"
                                         ELSE /\ Len(l.path) = 1 /\ l.path[1] \notin ListItems
                                              /\ l.text \in {"long", "huge"}
               /\ CutDeep(sdk, l) <=> l.text = "huge"
               /\ sdk \notin Shallow /\ CutDeep(sdk, l) => CutText(sdk, l) = Leaf(l.path, "cut")
               /\ sdk \in Shallow => CutText(sdk, l) = Leaf(l.path, "cut")
    <3>1. l.text \in Over1024(Unit(sdk)) <=> l.text = "huge"
      BY <1>2 DEF Over1024
    <3>2. l.text \in Over500(Unit(sdk)) <=> l.text \in {"long", "huge"}
      BY <1>2, <3>1 DEF Over500
    <3> QED
      BY <3>1, <3>2 DEF CutShallow, CutDeep, CutText, Shallow
  <2> QED
    BY <2>1 DEF Truncated
<1> QED
  BY <1>1, <1>2

LEMMA SameHidden ==
  ASSUME NEW a, NEW b, NEW body \in SUBSET BodyLeaf, a \in Shallow <=> b \in Shallow,
         \A key : IsRedactedField(a, key) <=> IsRedactedField(b, key)
  PROVE  Hidden(RedactBody(a, body)) = Hidden(RedactBody(b, body))
<1>1. \A l : HiddenAt(a, l.path) = HiddenAt(b, l.path)
  BY DEF HiddenAt
<1>2. \A l : Dropped(a, l.path) <=> Dropped(b, l.path)
  BY DEF Dropped
<1>3. ASSUME NEW l \in body, NEW sdk, Image(sdk, l).text = "redacted"
      PROVE  HiddenAt(sdk, l.path) # {}
  <2>1. l \in ScrubbedLeaf /\ l.text # "redacted"
    BY DEF BodyLeaf, ScrubbedLeaf, Texts
  <2>2. Leaf(l.path, "cut").text = "cut"
    BY DEF Leaf
  <2> QED
    BY <1>3, <2>1, <2>2, ImageOfShown
<1>4. ASSUME NEW l \in body, HiddenAt(a, l.path) # {}
      PROVE  Image(a, l) = Image(b, l)
  <2>1. HiddenAt(a, l.path) = HiddenAt(b, l.path)
    BY <1>1
  <2> QED
    BY <1>4, <2>1 DEF Image, ImageAt
<1>5. \A l \in body : /\ Image(a, l).text = "redacted" => Image(a, l) = Image(b, l)
                      /\ Image(b, l).text = "redacted" => Image(a, l) = Image(b, l)
  BY <1>1, <1>3, <1>4
<1>6. {m \in body : ~Dropped(a, m.path)} = {m \in body : ~Dropped(b, m.path)}
  BY <1>2
<1> HIDE DEF Image
<1> QED
  BY <1>5, <1>6, BodyOfImages DEF Hidden

\* Which lists know a name that all know or none does.
LEMMA NamesKnownAlike ==
  ASSUME NEW key, KnownAlike(key), NEW sdk \in ScrubSdks
  PROVE  IsRedactedField(sdk, key) <=> key \in CommonKeys
BY DEF KnownAlike, CommonKeys, IsRedactedField

\* A short text right below the root, under such a name, looks the same everywhere.
LEMMA FlatLeaf ==
  ASSUME NEW l \in BodyLeaf, Len(l.path) = 1, l.text = "short", KnownAlike(l.path[1]),
         l.path[1] \notin ListItems, NEW sdk \in ScrubSdks
  PROVE  /\ ~Dropped(sdk, l.path)
         /\ Image(sdk, l) = IF l.path[1] \in CommonKeys THEN Leaf(<<l.path[1]>>, "redacted") ELSE l
<1>1. l.path \in Paths /\ l \in ScrubbedLeaf
  BY DEF BodyLeaf, ScrubbedLeaf
<1>2. ~Dropped(sdk, l.path)
  BY DEF Dropped, ListItems
<1>3. IsRedactedField(sdk, l.path[1]) <=> l.path[1] \in CommonKeys
  BY NamesKnownAlike
<1>4. CASE l.path[1] \in CommonKeys
  <2>1. 1 \in HiddenAt(sdk, l.path)
    BY <1>3, <1>4 DEF HiddenAt
  <2>2. Image(sdk, l) = Leaf(SubSeq(l.path, 1, 1), "redacted")
    BY <1>1, <2>1, ImageOfHidden
  <2>3. SubSeq(l.path, 1, 1) = <<l.path[1]>>
    <3> DEFINE q == SubSeq(l.path, 1, 1)
    <3>1. q \in Seq(STRING) /\ Len(q) = 1 /\ q[1] = l.path[1]
      <4>1. q \in Paths /\ Len(q) = 1 /\ \A j \in 1 .. 1 : q[j] = l.path[j]
        BY <1>1, <2>1, HiddenInPrefix
      <4> QED
        BY <4>1 DEF Paths
    <3> HIDE DEF q
    <3>2. q = <<q[1]>>
      BY <3>1
    <3> QED
      BY <3>1, <3>2 DEF q
  <2> QED
    BY <1>2, <1>4, <2>2, <2>3
<1>5. CASE l.path[1] \notin CommonKeys
  <2>1. HiddenAt(sdk, l.path) = {}
    BY <1>3, <1>5 DEF HiddenAt
  <2>2. ~CutShallow(sdk, l) /\ ~CutDeep(sdk, l)
    BY DEF CutShallow, CutDeep, Over500, Over1024
  <2> QED
    BY <1>2, <1>5, <2>1, <2>2 DEF Image, ImageAt, Truncated
<1> QED
  BY <1>4, <1>5

\* A leaf that Rust shows is not below a name all know.
LEMMA ShownByRust ==
  ASSUME NEW body \in SUBSET BodyLeaf, NEW l \in body, l \in RedactBody("rust", body)
  PROVE  HiddenAt("rust", l.path) = {}
<1>1. PICK m \in body : l = Image("rust", m)
  BY BodyOfImages
<1>2. l.text \notin {"cut", "redacted"} /\ m \in ScrubbedLeaf
  BY DEF BodyLeaf, ScrubbedLeaf, Texts
<1>3. HiddenAt("rust", m.path) = {}
  <2>1. ASSUME NEW k \in HiddenAt("rust", m.path)
        PROVE  FALSE
    <3>1. l = Leaf(SubSeq(m.path, 1, k), "redacted")
      BY <1>1, <1>2, ImageOfHidden
    <3> QED
      BY <1>2, <3>1 DEF Leaf
  <2> QED
    BY <2>1
<1> QED
  BY <1>1, <1>2, <1>3, ImageOfShown

\* What a shallow SDK hides is below a name of its own.
LEMMA HiddenByShallow ==
  ASSUME NEW body \in SUBSET BodyLeaf, NEW sdk \in Shallow, NEW s \in RedactBody(sdk, body),
         s.text = "redacted"
  PROVE  Len(s.path) = 1 /\ IsRedactedField(sdk, s.path[1])
<1>1. PICK m \in body : s = Image(sdk, m)
  BY BodyOfImages
<1>2. m \in ScrubbedLeaf /\ m.path \in Paths /\ m.text # "redacted"
  BY DEF BodyLeaf, ScrubbedLeaf, Texts
<1>3. HiddenAt(sdk, m.path) # {}
  BY <1>1, <1>2, ImageOfShown DEF Leaf
<1>4. PICK k : k \in HiddenAt(sdk, m.path)
  BY <1>3
<1>5. k = 1
  BY <1>4 DEF HiddenAt
<1>6. s = Leaf(SubSeq(m.path, 1, 1), "redacted") /\ IsRedactedField(sdk, m.path[1])
  BY <1>1, <1>2, <1>4, <1>5, ImageOfHidden, FirstHidden
<1>7. Len(SubSeq(m.path, 1, 1)) = 1 /\ SubSeq(m.path, 1, 1)[1] = m.path[1]
  BY <1>2, <1>4, <1>5, HiddenInPrefix
<1> QED
  BY <1>6, <1>7 DEF Leaf

\* The seven SDKs scrub any request as alike as their lists and their units of length
\* allow, and a second redaction changes nothing but what Rust marked in vain
\* (setRequestContext, redactBody and scrubUrl of each).
THEOREM RequestsScrubbedAlike ==
  ASSUME NEW headers, NEW body \in SUBSET BodyLeaf
  PROVE  RequestsAlike(body, ScrubRequest(headers, body))
<1> DEFINE r == ScrubRequest(headers, body)
<1>1. /\ \A sdk \in ScrubSdks : r.body[sdk] = RedactBody(sdk, body)
      /\ \A sdk \in ScrubSdks : r.headers[sdk] = RedactHeaders(sdk, headers)
      /\ DOMAIN r.url = ScrubSdks \ {"csharp"}
      /\ \A sdk \in ScrubSdks \ {"csharp"} : r.url[sdk] = ScrubUrl(sdk, UrlParams)
  BY DEF ScrubRequest
<1>2. Shallow \subseteq ScrubSdks /\ {"go", "python", "rust"} \subseteq ScrubSdks
      /\ "csharp" \notin Shallow
  BY DEF Shallow, ScrubSdks
<1> HIDE DEF r
<1>3. /\ r.headers["go"] = r.headers["python"]
      /\ Hidden(r.body["go"]) = Hidden(r.body["python"])
      /\ Ascii(body) => r.body["go"] = r.body["python"]
  <2>1. /\ "go" \in Shallow /\ "python" \in Shallow
        /\ \A key : IsRedactedField("go", key) <=> IsRedactedField("python", key)
    BY DEF Shallow, IsRedactedField
  <2>2. Hidden(RedactBody("go", body)) = Hidden(RedactBody("python", body))
    BY <2>1, SameHidden
  <2>3. ASSUME Ascii(body)
        PROVE  RedactBody("go", body) = RedactBody("python", body)
    <3>1. \A l \in body : Truncated("go", l) = Truncated("python", l)
      BY <1>2, <2>1, <2>3, SameCuts DEF Ascii
    <3> QED
      BY <2>1, <3>1, SameBody
  <2>4. RedactHeaders("go", headers) = RedactHeaders("python", headers)
    BY DEF RedactHeaders, AddressHeader, Shallow
  <2> QED
    BY <1>1, <1>2, <2>2, <2>3, <2>4
<1>4. ASSUME NEW a \in ScrubSdks \ Shallow, NEW b \in ScrubSdks \ Shallow
      PROVE  /\ r.headers[a] = r.headers[b]
             /\ Hidden(r.body[a]) = Hidden(r.body[b])
             /\ "rust" \notin {a, b} \/ Ascii(body) => r.body[a] = r.body[b]
  <2>1. \A key : IsRedactedField(a, key) <=> IsRedactedField(b, key)
    BY DEF IsRedactedField, Shallow
  <2>2. Hidden(RedactBody(a, body)) = Hidden(RedactBody(b, body))
    BY <2>1, SameHidden
  <2>3. ASSUME "rust" \notin {a, b} \/ Ascii(body)
        PROVE  RedactBody(a, body) = RedactBody(b, body)
    <3>1. "rust" \notin {a, b} => Unit(a) = Unit(b)
      BY DEF Unit, Shallow
    <3>2. \A l \in body : Truncated(a, l) = Truncated(b, l)
      BY <2>3, <3>1, SameCuts DEF Ascii
    <3> QED
      BY <2>1, <3>2, SameBody
  <2>4. RedactHeaders(a, headers) = RedactHeaders(b, headers)
    BY DEF RedactHeaders, AddressHeader
  <2> QED
    BY <1>1, <2>2, <2>3, <2>4
<1>5. ASSUME \A l \in body : /\ Len(l.path) = 1 /\ l.text = "short" /\ KnownAlike(l.path[1])
                             /\ l.path[1] \notin ListItems,
             NEW a \in ScrubSdks, NEW b \in ScrubSdks
      PROVE  r.body[a] = r.body[b]
  <2>1. \A l \in body : /\ ~Dropped(a, l.path) /\ ~Dropped(b, l.path)
                        /\ Image(a, l) = Image(b, l)
    BY <1>5, FlatLeaf
  <2>2. {m \in body : ~Dropped(a, m.path)} = body /\ {m \in body : ~Dropped(b, m.path)} = body
    BY <2>1
  <2>3. {Image(a, l) : l \in body} = {Image(b, l) : l \in body}
    BY <2>1
  <2> QED
    BY <1>1, <2>2, <2>3, BodyOfImages
<1>6. ASSUME NEW l \in body \cap r.body["rust"], NEW sdk \in Shallow, NEW s \in r.body[sdk],
             s.text = "redacted", IsPrefix(s.path, l.path), KnownAlike(s.path[1])
      PROVE  FALSE
  <2>1. Len(s.path) = 1 /\ IsRedactedField(sdk, s.path[1])
    BY <1>1, <1>2, <1>6, HiddenByShallow
  <2>2. IsRedactedField("rust", s.path[1])
    BY <1>2, <1>6, <2>1, NamesKnownAlike
  <2>3. l.path \in Paths
    BY DEF BodyLeaf
  <2>4. 1 <= Len(l.path) /\ l.path[1] = s.path[1]
    <3>1. Len(s.path) <= Len(l.path) /\ SubSeq(s.path, 1, 1) = SubSeq(l.path, 1, 1)
      BY <1>6, <2>1 DEF IsPrefix
    <3>2. SubSeq(l.path, 1, 1)[1] = l.path[1]
      BY <2>1, <2>3, <3>1 DEF Paths
    <3>3. SubSeq(s.path, 1, 1)[1] = s.path[1]
      OBVIOUS
    <3> QED
      BY <2>1, <3>1, <3>2, <3>3
  <2>5. 1 \in HiddenAt("rust", l.path)
    BY <2>2, <2>3, <2>4 DEF HiddenAt, Paths
  <2>6. HiddenAt("rust", l.path) = {}
    BY <1>1, <1>2, ShownByRust
  <2> QED
    BY <2>5, <2>6
<1>7. \A sdk \in ScrubSdks :
        (\A l \in r.body[sdk] : l.marks = 0) => RedactBody(sdk, r.body[sdk]) = r.body[sdk]
  BY <1>1, RedactedTwiceAsOnce
<1>8. ASSUME NEW a \in DOMAIN r.url, NEW b \in DOMAIN r.url, NEW n \in UrlParams,
             a \in Shallow, r.url[a][n] = "redacted"
      PROVE  r.url[b][n] = "redacted"
  <2>1. ScrubsParam(a, n)
    BY <1>1, <1>8 DEF ScrubUrl
  <2>2. n = "token"
    BY <1>8, <2>1 DEF ScrubsParam, Shallow
  <2>3. ScrubsParam(b, n)
    BY <2>2 DEF ScrubsParam
  <2> QED
    BY <1>1, <2>3 DEF ScrubUrl
<1>9. RequestsAlike(body, r)
  BY <1>3, <1>4, <1>5, <1>6, <1>7, <1>8 DEF RequestsAlike
<1> QED
  BY <1>9 DEF r

=============================================================================
