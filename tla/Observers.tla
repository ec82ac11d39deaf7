------------------------------- MODULE Observers -------------------------------
(* What an SDK adds to an event from observing its process: forensic         *)
(* captures, the session file, scopes, breadcrumbs, session recordings,      *)
(* session ids, precursors and the fleet filter.  The parts share no state,  *)
(* so a behaviour explores one of them while the others rest.                *)
EXTENDS ForensicHook, PyForensicHook, RaiseCache, RequestScopes, Breadcrumbs,
        SessionRecorder, FullTrace, Precursors, FleetBloom, SdkClients,
        PeerAgent, Awake

VARIABLE part

hooks == <<hookVars, sessionVars, pyVars, cacheVars>>
apps == <<clientVars, agentVars, awakeVars>>
rings == <<crumbVars, recorderVars, samplerVars>>
vars == <<part, hooks, rings, scopeVars, traceVars, fleetVars, apps>>

Parts == {"node", "file", "python", "raises", "scopes", "crumbs", "recorder", "trace",
          "sampler", "fleet", "client", "agent", "page"}

TypeOK ==
  /\ part \in Parts
  /\ HookTypeOK /\ SessionTypeOK /\ PyTypeOK /\ CacheTypeOK /\ ScopesTypeOK /\ CrumbsTypeOK
  /\ RecorderTypeOK /\ TraceTypeOK /\ SamplerTypeOK /\ FleetTypeOK
  /\ ClientTypeOK /\ AgentTypeOK /\ AwakeTypeOK

\* What only one part looks at is chosen for that part alone.
AtRest ==
  /\ IF part = "file" THEN TRUE ELSE onLinux = TRUE
  /\ IF part = "scopes" THEN TRUE
     ELSE /\ bare = {} /\ scopeKind = CHOOSE k \in Kinds : TRUE
          /\ workerOf = [r \in Handled |-> CHOOSE w \in Workers : TRUE]
  /\ IF part = "trace" THEN TRUE ELSE cookies = TRUE /\ storages = TRUE
  /\ IF part = "client" THEN TRUE ELSE sdk = "rust" /\ program = CHOOSE a \in Programs : TRUE
  /\ IF part = "agent" THEN TRUE
     ELSE enabled = FALSE /\ minRank = 1 /\ asking = CHOOSE e \in AskedEvents : TRUE
  /\ IF part = "page" THEN TRUE ELSE section = "loads"

Init ==
  /\ part \in Parts /\ AtRest
  /\ HookInit /\ SessionInit /\ PyInit /\ CacheInit /\ ScopesInit /\ CrumbsInit
  /\ RecorderInit /\ TraceInit /\ SamplerInit /\ FleetInit /\ ClientInit /\ AgentInit /\ AwakeInit

Next ==
  /\ UNCHANGED part
  /\ \/ part = "node" /\ HookNext
        /\ UNCHANGED <<sessionVars, pyVars, cacheVars, rings, scopeVars, traceVars, fleetVars, apps>>
     \/ part = "file" /\ SessionNext
        /\ UNCHANGED <<hookVars, pyVars, cacheVars, rings, scopeVars, traceVars, fleetVars, apps>>
     \/ part = "python" /\ PyNext
        /\ UNCHANGED <<hookVars, sessionVars, cacheVars, rings, scopeVars, traceVars, fleetVars, apps>>
     \/ part = "raises" /\ CacheNext
        /\ UNCHANGED <<hookVars, sessionVars, pyVars, rings, scopeVars, traceVars, fleetVars, apps>>
     \/ part = "scopes" /\ ScopesNext
        /\ UNCHANGED <<hooks, rings, traceVars, fleetVars, apps>>
     \/ part = "crumbs" /\ CrumbsNext
        /\ UNCHANGED <<hooks, recorderVars, samplerVars, scopeVars, traceVars, fleetVars, apps>>
     \/ part = "recorder" /\ RecorderNext
        /\ UNCHANGED <<hooks, crumbVars, samplerVars, scopeVars, traceVars, fleetVars, apps>>
     \/ part = "trace" /\ TraceNext
        /\ UNCHANGED <<hooks, rings, scopeVars, fleetVars, apps>>
     \/ part = "sampler" /\ SamplerNext
        /\ UNCHANGED <<hooks, crumbVars, recorderVars, scopeVars, traceVars, fleetVars, apps>>
     \/ part = "fleet" /\ FleetNext
        /\ UNCHANGED <<hooks, rings, scopeVars, traceVars, clientVars, agentVars, awakeVars>>
     \/ part = "client" /\ ClientNext
        /\ UNCHANGED <<hooks, rings, scopeVars, traceVars, fleetVars, agentVars, awakeVars>>
     \/ part = "agent" /\ AgentNext
        /\ UNCHANGED <<hooks, rings, scopeVars, traceVars, fleetVars, clientVars, awakeVars>>
     \/ part = "page" /\ AwakeNext
        /\ UNCHANGED <<hooks, rings, scopeVars, traceVars, fleetVars, clientVars, agentVars>>

Spec == Init /\ [][Next]_vars

-----------------------------------------------------------------------------
(* Properties: each states one promise of every part it concerns *)

\* What happens once is told once: a throw is captured once by either SDK, an
\* interaction recorded once, a fingerprint contributed once.
CapturedOnce ==
  /\ OneCapturePerThrow /\ OneCapturePerException /\ OneRecordPerInteraction /\ OneContribution
  /\ OneEventPerCapture /\ DeployAnnounced /\ EveryCallAnswered
  /\ DetectorsTellOnce

\* What is registered is what is installed, and it goes when it is taken away:
\* hooks, probes, the session file, samplers and timers.
RegistrationHolds ==
  /\ ModeTellsTheTruth /\ NoProbeLeft /\ OrphanExplained
  /\ SamplerOwnsItsProbes /\ NoTimerAfterClose

\* An event carries what belongs to it and all of it: its request's scope and
\* its exception's frames.
OwnDataOnly ==
  /\ NothingForeign /\ OwnDataPresent /\ GivenBackAtEnd /\ FramesAreItsOwn
  /\ OfOneInit /\ EventLeaves

\* A shared value read twice is the same: the tabs' session id, and the fleet
\* filter the client and the server mean by one etag.
ReadersAgree == TabsAgree /\ BloomCurrent /\ NotModifiedMeansLoaded

\* What is read from a ring is the newest that went in, in order.
RingsInOrder == NewestCrumbs /\ SessionInOrder /\ SignalsOfTheWindow

=============================================================================
