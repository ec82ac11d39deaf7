---------------------------- MODULE CaptureClient ----------------------------
(***************************************************************************)
(* The Node client, src/src/client.ts: init, the capture functions, the    *)
(* chain of hooks an event passes before it is handed to a transport, the  *)
(* deploy marker, and flush.  init may be called again while events are    *)
(* under way; every call creates a transport, and the module-level         *)
(* globalTransport, globalConfig and resolvedRedactConfig then refer to    *)
(* the latest.  The transports are instances of NodeTransport.             *)
(*                                                                         *)
(* An action is the code between two awaits.  The awaits are those of the  *)
(* fingerprint (WebCrypto), the substrate flush, each onBeforeSend hook,   *)
(* the payload v2 builder and the lazily imported redactor.                *)
(***************************************************************************)
EXTENDS Naturals, Sequences, FiniteSets, Functions, SequencesExt

CONSTANTS
  Captures,        \* the events the application captures
  Exceptions,      \* those captured by captureException
  DeployOf,        \* the deploy marker of the first and of the second init
  Configs,         \* the configurations init may be given
  NoRelease,       \* a configuration without a release
  Hooked,          \* the integrations that define onBeforeSend
  SetupThrows,     \* the integrations whose setup throws
  PayloadV2,       \* CAPTURE_PAYLOAD_VERSION=2
  FingerprintOf, Unserialisable, MAX_RETRY_BUFFER, Flushers, Background

Events == Captures \cup Range(DeployOf)

\* The bound on calls of init.
MaxInits == 2

\* What JSON.stringify finds in an event's context: no cycle, one that redaction
\* cuts, or one that lies deeper than the redactor looks (maxDepth).
Contexts == {"tree", "cycle", "deepCycle"}

ASSUME CaptureClientAssumption ==
  /\ IsFiniteSet(Captures)
  /\ Exceptions \subseteq Captures
  /\ DeployOf \in [1..MaxInits -> Range(DeployOf)] /\ IsInjective(DeployOf)
  /\ Range(DeployOf) \cap Captures = {}
  /\ \A cfg \in Configs : cfg.redact \in BOOLEAN /\ cfg.local \in BOOLEAN
  /\ PayloadV2 \in BOOLEAN
  /\ DOMAIN FingerprintOf = Events
  /\ Unserialisable \subseteq Events
  /\ MAX_RETRY_BUFFER \in Nat \ {0}
  /\ Background \notin Flushers

VARIABLES
  context,         \* each event's context, as the hooks leave it
  configs,         \* the configuration of each init so far
  registered,      \* registeredIntegrations
  lastRelease,     \* lastReportedRelease
  substrate,       \* substrateFlush is set
  redactorLoaded,  \* cachedRedactPayload is set
  stage,           \* where each captured event stands
  hooksLeft,       \* the integrations an event has still to meet, current first
  via,             \* history: the init whose transport got the event, 0 if none
  redacted,        \* whether the event was handed over redacted
  deploying,       \* deploy markers whose fingerprint is being computed
  prints,          \* how often a local transport printed each event
  thrown           \* history: events it printed and threw on, inside the v2 branch

VARIABLES
  buffer1, pending1, batches1, flusher1, awaited1, acked1, dropped1, owed1, troubled1,
  buffer2, pending2, batches2, flusher2, awaited2, acked2, dropped2, owed2, troubled2

initVars == <<context, configs, registered, lastRelease, substrate>>
clientVars == <<initVars, redactorLoaded, stage, hooksLeft, via, redacted, deploying,
                prints, thrown>>
transport1 == <<buffer1, pending1, batches1, flusher1, awaited1, acked1, dropped1,
                owed1, troubled1>>
transport2 == <<buffer2, pending2, batches2, flusher2, awaited2, acked2, dropped2,
                owed2, troubled2>>
vars == <<clientVars, transport1, transport2>>

T1 == INSTANCE NodeTransport
  WITH retryBuffer <- buffer1, pendingSends <- pending1, batches <- batches1,
       flusher <- flusher1, awaited <- awaited1, acked <- acked1,
       dropped <- dropped1, owed <- owed1, troubled <- troubled1

T2 == INSTANCE NodeTransport
  WITH retryBuffer <- buffer2, pendingSends <- pending2, batches <- batches2,
       flusher <- flusher2, awaited <- awaited2, acked <- acked2,
       dropped <- dropped2, owed <- owed2, troubled <- troubled2

\* The number of calls of init so far, which names globalTransport.
Current == Len(configs)

\* globalConfig.
Config == configs[Current]

InPipeline == {"fingerprint", "substrate", "hooks", "v2", "redactV2", "redactUnsigned",
               "redact"}
Ended == {"handed", "filtered", "lost"}

TypeOK ==
  /\ context \in [Captures -> Contexts]
  /\ configs \in Seq(Configs) /\ Len(configs) <= MaxInits
  /\ substrate \in BOOLEAN /\ redactorLoaded \in BOOLEAN
  /\ stage \in [Captures -> {"new"} \cup InPipeline \cup Ended]
  /\ via \in [Events -> 0..MaxInits]
  /\ redacted \in [Captures -> BOOLEAN]
  /\ deploying \subseteq Range(DeployOf)
  /\ prints \in [Events -> 0..2]
  /\ thrown \subseteq Captures
  /\ \A e \in Captures : stage[e] = "hooks" =>
       hooksLeft[e] # <<>> /\ Head(hooksLeft[e]) \in Hooked
  /\ T1!TypeOK /\ T2!TypeOK

Init ==
  /\ context \in [Captures -> Contexts]
  /\ configs = <<>>
  /\ registered = <<>>
  /\ lastRelease = NoRelease
  /\ substrate = FALSE
  /\ redactorLoaded = FALSE
  /\ stage = [e \in Captures |-> "new"]
  /\ hooksLeft = [e \in Captures |-> <<>>]
  /\ via = [e \in Events |-> 0]
  /\ redacted = [e \in Captures |-> FALSE]
  /\ deploying = {}
  /\ prints = [e \in Events |-> 0]
  /\ thrown = {}
  /\ T1!Init
  /\ T2!Init

-----------------------------------------------------------------------------
(* init *)

\* Integrations are deduplicated by name, the first one counting, and one whose
\* setup throws is left out.
Registered(list) ==
  LET once == FoldLeft(LAMBDA acc, i : IF Contains(acc, i) THEN acc ELSE Append(acc, i),
                       <<>>, list)
  IN  SelectSeq(once, LAMBDA i : i \notin SetupThrows)

\* init, with the reportDeploy it calls: the marker is due when the release is
\* new, and lastReportedRelease moves before the marker is sent.
InitClient(cfg) ==
  /\ Current < MaxInits
  /\ configs' = Append(configs, cfg)
  /\ registered' = Registered(cfg.integrations)
  /\ IF cfg.release # NoRelease /\ cfg.release # lastRelease
     THEN /\ lastRelease' = cfg.release
          /\ deploying' = deploying \cup {DeployOf[Current + 1]}
     ELSE UNCHANGED <<lastRelease, deploying>>
  /\ UNCHANGED <<context, substrate, redactorLoaded, stage, hooksLeft, via, redacted,
                 prints, thrown, transport1, transport2>>

\* initSubstrate's import resolved and its flush is installed.
SubstrateReady ==
  /\ \E k \in 1..Current : configs[k].substrate
  /\ ~substrate
  /\ substrate' = TRUE
  /\ UNCHANGED <<context, configs, registered, lastRelease, redactorLoaded, stage,
                 hooksLeft, via, redacted, deploying, prints, thrown, transport1,
                 transport2>>

-----------------------------------------------------------------------------
(* Handing an event to the transport of the k-th init *)

HandTo(e, k) ==
  /\ via' = [via EXCEPT ![e] = k]
  /\ UNCHANGED thrown
  /\ IF configs[k].local
     THEN prints' = [prints EXCEPT ![e] = @ + 1] /\ UNCHANGED <<transport1, transport2>>
     ELSE /\ UNCHANGED prints
          /\ CASE k = 1 -> T1!Send(e) /\ UNCHANGED transport2
               [] k = 2 -> T2!Send(e) /\ UNCHANGED transport1

\* globalTransport.send(e) at the end of sendWithHooks, or of a signed v2 payload.
\* A local transport that throws after it has printed ends the chain as well.
Hand(e, isRedacted) ==
  /\ stage' = [stage EXCEPT ![e] = "handed"]
  /\ redacted' = [redacted EXCEPT ![e] = isRedacted]
  /\ HandTo(e, Current)

\* The local transport throws on a cyclic context, when the title is out.
ThrowsLocally(e) ==
  /\ Config.local
  /\ context[e] # "tree"
  /\ Config.redact => context[e] = "deepCycle"

\* globalTransport.send of the v1 event in the place of a v2 payload: a throw is
\* caught, and the v1 path hands the event over again, at once or behind the
\* redactor.
HandUnsigned(e) ==
  IF ~ThrowsLocally(e)
  THEN Hand(e, Config.redact)
  ELSE /\ stage' = [stage EXCEPT ![e] = IF Config.redact THEN "redact" ELSE "handed"]
       /\ redacted' = [redacted EXCEPT ![e] = Config.redact]
       /\ via' = [via EXCEPT ![e] = Current]
       /\ prints' = [prints EXCEPT ![e] = @ + IF Config.redact THEN 1 ELSE 2]
       /\ thrown' = thrown \cup {e}
       /\ UNCHANGED <<transport1, transport2>>

\* The event waits at stage s, or ends there without reaching a transport.
MoveTo(e, s) ==
  /\ stage' = [stage EXCEPT ![e] = s]
  /\ UNCHANGED <<via, redacted, prints, thrown, transport1, transport2>>

\* The v1 end of sendWithHooks.
SendV1(e) ==
  IF Config.redact THEN MoveTo(e, "redact") ELSE Hand(e, FALSE)

\* What sendWithHooks does, without an await, after the last hook it runs: the
\* user's beforeSend may pass the event on, return nothing, or throw, and a
\* throw rejects a promise nobody handles.
AfterHooks(e) ==
  \/ Config.beforeSend /\ MoveTo(e, "filtered")
  \/ Config.beforeSend /\ MoveTo(e, "lost")
  \/ IF PayloadV2 THEN MoveTo(e, "v2") ELSE SendV1(e)

\* Mutation: an integration is called whether or not it has a hook.
RunHooksUnchecked(e, list) ==
  IF list # <<>>
  THEN /\ hooksLeft' = [hooksLeft EXCEPT ![e] = list]
       /\ MoveTo(e, "hooks")
  ELSE /\ hooksLeft' = [hooksLeft EXCEPT ![e] = <<>>]
       /\ AfterHooks(e)

\* The loop over integrations stops at the first one without a hook.
RunHooks(e, list) ==
  IF list # <<>> /\ Head(list) \in Hooked
  THEN /\ hooksLeft' = [hooksLeft EXCEPT ![e] = list]
       /\ MoveTo(e, "hooks")
  ELSE /\ hooksLeft' = [hooksLeft EXCEPT ![e] = <<>>]
       /\ AfterHooks(e)

StartHooks(e) == RunHooks(e, registered)

-----------------------------------------------------------------------------
(* The capture chain *)

\* captureException, captureMessage, captureLog: nothing happens before init.
Capture(e) ==
  /\ Current > 0
  /\ stage[e] = "new"
  /\ MoveTo(e, "fingerprint")
  /\ UNCHANGED <<initVars, redactorLoaded, hooksLeft, deploying>>

\* Mutation: events wait until some integration has registered.
FingerprintedGated(e) ==
  /\ stage[e] = "fingerprint"
  /\ registered # <<>>
  /\ StartHooks(e)
  /\ UNCHANGED <<initVars, redactorLoaded, deploying>>

\* The fingerprint is known.  Only an exception waits for the substrate.
Fingerprinted(e) ==
  /\ stage[e] = "fingerprint"
  /\ IF e \in Exceptions /\ substrate
     THEN MoveTo(e, "substrate") /\ UNCHANGED hooksLeft
     ELSE StartHooks(e)
  /\ UNCHANGED <<initVars, redactorLoaded, deploying>>

\* substrateFlush settled; a failure is ignored.
SubstrateFlushed(e) ==
  /\ stage[e] = "substrate"
  /\ StartHooks(e)
  /\ UNCHANGED <<initVars, redactorLoaded, deploying>>

\* A hook resolved to an event, or threw: the loop goes on either way.
HookPasses(e) ==
  /\ stage[e] = "hooks"
  /\ RunHooks(e, Tail(hooksLeft[e]))
  /\ UNCHANGED <<initVars, redactorLoaded, deploying>>

\* A hook resolved to null.
HookDrops(e) ==
  /\ stage[e] = "hooks"
  /\ hooksLeft' = [hooksLeft EXCEPT ![e] = <<>>]
  /\ MoveTo(e, "filtered")
  /\ UNCHANGED <<initVars, redactorLoaded, deploying>>

\* Mutation: after the v2 payload is sent, control falls through to v1.
V2BuiltFallsThrough(e) ==
  /\ stage[e] = "v2"
  /\ stage' = [stage EXCEPT ![e] = "redact"]
  /\ HandTo(e, Current)
  /\ UNCHANGED <<initVars, redactorLoaded, hooksLeft, redacted, deploying>>

\* prepareV2Payload resolved to a signed payload, which has no context.
V2Built(e) ==
  /\ stage[e] = "v2"
  /\ IF Config.redact THEN MoveTo(e, "redactV2") ELSE Hand(e, FALSE)
  /\ UNCHANGED <<initVars, redactorLoaded, hooksLeft, deploying>>

\* The root or the signature failed: prepareV2Payload resolved to the v1 event.
V2Unsigned(e) ==
  /\ stage[e] = "v2"
  /\ IF Config.redact THEN MoveTo(e, "redactUnsigned") ELSE HandUnsigned(e)
  /\ UNCHANGED <<initVars, redactorLoaded, hooksLeft, deploying>>

\* prepareV2Payload threw: fall back to v1.
V2Failed(e) ==
  /\ stage[e] = "v2"
  /\ SendV1(e)
  /\ UNCHANGED <<initVars, redactorLoaded, hooksLeft, deploying>>

\* Mutation: the redaction settings are those read before the await.
RedactAsDecided(e) ==
  /\ stage[e] \in {"redact", "redactV2", "redactUnsigned"}
  /\ redactorLoaded' = TRUE
  /\ Hand(e, TRUE)
  /\ UNCHANGED <<initVars, hooksLeft, deploying>>

\* The redactor is there.  It reads resolvedRedactConfig as it is now, and does
\* nothing if that has been disabled meanwhile.
Redact(e) ==
  /\ redactorLoaded' = TRUE
  /\ \/ stage[e] \in {"redact", "redactV2"} /\ Hand(e, Config.redact)
     \/ stage[e] = "redactUnsigned" /\ HandUnsigned(e)
  /\ UNCHANGED <<initVars, hooksLeft, deploying>>

\* The import of the redactor failed: v2 falls back to v1, v1 rejects.
RedactorMissing(e) ==
  /\ ~redactorLoaded
  /\ \/ stage[e] \in {"redactV2", "redactUnsigned"} /\ SendV1(e)
     \/ stage[e] = "redact" /\ MoveTo(e, "lost")
  /\ UNCHANGED <<initVars, redactorLoaded, hooksLeft, deploying>>

\* Mutation: the marker goes to whichever transport is current.
SendDeployGlobal(k) ==
  /\ k \in 1..Current
  /\ DeployOf[k] \in deploying
  /\ deploying' = deploying \ {DeployOf[k]}
  /\ HandTo(DeployOf[k], Current)
  /\ UNCHANGED <<initVars, redactorLoaded, stage, hooksLeft, redacted>>

\* reportDeploy's fingerprint is known: the marker goes to the transport that
\* was current when init called it, past hooks and redaction.
SendDeploy(k) ==
  /\ k \in 1..Current
  /\ DeployOf[k] \in deploying
  /\ deploying' = deploying \ {DeployOf[k]}
  /\ HandTo(DeployOf[k], k)
  /\ UNCHANGED <<initVars, redactorLoaded, stage, hooksLeft, redacted>>

-----------------------------------------------------------------------------
(* flush, and the transports at work *)

\* flush() reaches the current transport only; a local one has nothing to do.
Flush(f) ==
  /\ Current > 0
  /\ ~Config.local
  /\ CASE Current = 1 -> T1!FlushCall(f) /\ UNCHANGED transport2
       [] Current = 2 -> T2!FlushCall(f) /\ UNCHANGED transport1
  /\ UNCHANGED <<initVars, redactorLoaded, stage, hooksLeft, via, redacted, deploying,
                 prints, thrown>>

TransportSettle ==
  /\ \/ T1!Settle /\ UNCHANGED transport2
     \/ T2!Settle /\ UNCHANGED transport1
  /\ UNCHANGED clientVars

Pipeline(e) ==
  \/ Fingerprinted(e)
  \/ SubstrateFlushed(e)
  \/ HookPasses(e)
  \/ HookDrops(e)
  \/ V2Built(e)
  \/ V2Unsigned(e)
  \/ V2Failed(e)
  \/ Redact(e)
  \/ RedactorMissing(e)

Next ==
  \/ \E cfg \in Configs : InitClient(cfg)
  \/ SubstrateReady
  \/ \E e \in Captures : Capture(e)
  \/ \E e \in Captures : Pipeline(e)
  \/ \E k \in DOMAIN DeployOf : SendDeploy(k)
  \/ \E f \in Flushers : Flush(f)
  \/ TransportSettle

Spec == Init /\ [][Next]_vars

\* Promises settle: "hooks must respect their own deadline" (types.ts:103).
Fairness == \A e \in Captures : WF_vars(Pipeline(e))

FairSpec == Spec /\ Fairness

-----------------------------------------------------------------------------
(* Properties *)

\* How often an event went out: printed, or taken by a transport.
Outings(e) ==
  prints[e] + (IF e \in T1!Held \cup acked1 \cup dropped1 THEN 1 ELSE 0)
            + (IF e \in T2!Held \cup acked2 \cup dropped2 THEN 1 ELSE 0)

\* An event leaves the chain once, for one transport, and one that a hook or
\* beforeSend filtered never shows up anywhere -- except that a local transport
\* which printed the v1 event in the v2 branch and threw on its cyclic context
\* (transport.ts:187) leaves it to the v1 path, and the event goes out a second
\* time, possibly through the transport of a later init.  The v2 fallback and the
\* redaction stages are where one could slip in (client.ts:79-119).
HandedOnce ==
  /\ \A e \in Captures :
       Outings(e) = (IF stage[e] = "handed" THEN 1 ELSE 0) + (IF e \in thrown THEN 1 ELSE 0)
  /\ \A e \in thrown :
       /\ stage[e] \in {"redact", "handed"}
       /\ context[e] # "tree" /\ \E k \in 1..Current : configs[k].local
  /\ \A d \in Range(DeployOf) : Outings(d) <= 1

\* An event is redacted exactly when the configuration behind the transport it
\* goes to asks for it, each time it goes out, though init may swap both while the
\* event waits for a hook, the v2 builder or the redactor (client.ts:92-96,
\* 115-119).
RedactionMatchesTransport ==
  \A e \in Captures : via[e] # 0 => redacted[e] = configs[via[e]].redact

\* A deploy marker goes to the transport of the init that reported it, even if
\* init ran again before its fingerprint was known (client.ts:273, 287), and two
\* inits with one release, which lastReportedRelease is for, leave one marker at
\* most (client.ts:205-208).
DeployKeepsTransport ==
  LET reported(k) == DeployOf[k] \in deploying \/ via[DeployOf[k]] # 0
  IN  /\ \A k \in DOMAIN DeployOf : via[DeployOf[k]] \in {0, k}
      /\ Current = 2 /\ configs[1].release = configs[2].release
           => ~(reported(1) /\ reported(2))

\* Every captured event reaches a transport or is disposed of.
CaptureEnds ==
  \A e \in Captures : stage[e] \in InPipeline ~> stage[e] \in Ended

=============================================================================
