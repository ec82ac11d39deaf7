------------------------------ MODULE Precursors ------------------------------
(***************************************************************************)
(* The precursor sampler of the Node SDK, src/src/precursors.ts: a state   *)
(* per initPrecursors, whose imports may settle after stopPrecursors, and  *)
(* the ring of samples snapshotPrecursors compresses.  Of a sample only    *)
(* the two counters are kept that something outside the sampler advances.  *)
(***************************************************************************)
EXTENDS Naturals, Sequences, SequencesExt, FiniteSets

CONSTANTS
  SamplerStates,  \* what the calls of initPrecursors create
  WINDOW,         \* WINDOW_SECONDS: the capacity of the ring
  MaxSamples,     \* bound: samples of one state
  MaxSignals,     \* bound: what one counter reaches
  Stopped

ASSUME PrecursorsAssumption ==
  /\ Stopped \notin SamplerStates
  /\ WINDOW \in Nat \ {0} /\ MaxSamples \in Nat /\ MaxSignals \in Nat

VARIABLES
  sampler,    \* state: the current one, or Stopped
  created,    \* the states created so far
  imports,    \* imports under way: state and module
  intervals,  \* states with a live setInterval
  jitters,    \* states with a pending jitter timeout
  monitors,   \* states with an enabled histogram
  handlers,   \* listeners: state and channel
  cleanups,   \* what stopPrecursors will undo, per state
  counters,   \* of the current state
  ring, head, \* of the current state
  sampled,    \* history: how many samples the current state has taken
  signalled   \* history: channel and the number of samples taken when it signalled

samplerVars == <<sampler, created, imports, intervals, jitters, monitors, handlers,
                 cleanups, counters, ring, head, sampled, signalled>>

Channels == {"rejectionHandled", "undici"}
Modules == {"perf_hooks", "diagnostics_channel"}

SamplerTypeOK ==
  /\ sampler \in SamplerStates \cup {Stopped} /\ created \subseteq SamplerStates
  /\ imports \subseteq SamplerStates \X Modules
  /\ UNION {intervals, jitters, monitors} \subseteq SamplerStates
  /\ handlers \subseteq SamplerStates \X Channels
  /\ cleanups \in [SamplerStates -> SUBSET (Channels \cup {"monitor"})]
  /\ counters \in [Channels -> 0..MaxSignals]
  /\ ring \in Seq([Channels -> 0..MaxSignals]) /\ Len(ring) <= WINDOW
  /\ head \in 0..(WINDOW - 1) /\ sampled \in 0..MaxSamples
  /\ signalled \subseteq Channels \X (0..MaxSamples)

SamplerInit ==
  /\ sampler = Stopped /\ created = {} /\ imports = {}
  /\ intervals = {} /\ jitters = {} /\ monitors = {} /\ handlers = {}
  /\ cleanups = [s \in SamplerStates |-> {}]
  /\ counters = [c \in Channels |-> 0]
  /\ ring = <<>> /\ head = 0 /\ sampled = 0 /\ signalled = {}

InitPrecursors(s) ==
  /\ sampler = Stopped /\ s \notin created
  /\ sampler' = s
  /\ created' = created \cup {s}
  /\ imports' = imports \cup ({s} \X Modules)
  /\ jitters' = jitters \cup {s}
  /\ handlers' = handlers \cup {<<s, "rejectionHandled">>}
  /\ cleanups' = [cleanups EXCEPT ![s] = {"rejectionHandled"}]
  /\ intervals' = intervals \cup {s}
  /\ counters' = [c \in Channels |-> 0]
  /\ ring' = <<>> /\ head' = 0 /\ sampled' = 0 /\ signalled' = {}
  /\ UNCHANGED monitors

StopPrecursors ==
  /\ sampler # Stopped
  /\ intervals' = intervals \ {sampler}
  /\ jitters' = jitters \ {sampler}
  /\ monitors' = IF "monitor" \in cleanups[sampler] THEN monitors \ {sampler} ELSE monitors
  /\ handlers' = handlers \ ({sampler} \X cleanups[sampler])
  /\ sampler' = Stopped
  /\ UNCHANGED <<created, imports, cleanups, counters, ring, head, sampled, signalled>>

ImportSettles(s, m) ==
  /\ <<s, m>> \in imports
  /\ imports' = imports \ {<<s, m>>}
  /\ UNCHANGED <<sampler, created, intervals, counters, ring, head, sampled, signalled>>

\* Mutation: the state is not compared after the import.
AnyState(s) == TRUE

StillCurrent(s) == sampler = s

PerfAttached(s) ==
  /\ ImportSettles(s, "perf_hooks")
  /\ StillCurrent(s)
  /\ monitors' = monitors \cup {s}
  /\ jitters' = jitters \ {s}
  /\ cleanups' = [cleanups EXCEPT ![s] = @ \cup {"monitor"}]
  /\ UNCHANGED handlers

UndiciAttached(s) ==
  /\ ImportSettles(s, "diagnostics_channel")
  /\ StillCurrent(s)
  /\ handlers' = handlers \cup {<<s, "undici">>}
  /\ cleanups' = [cleanups EXCEPT ![s] = @ \cup {"undici"}]
  /\ UNCHANGED <<jitters, monitors>>

\* The module is missing, or the state was replaced meanwhile.
NotAttached(s, m) ==
  /\ ImportSettles(s, m)
  /\ UNCHANGED <<jitters, monitors, handlers, cleanups>>

\* The runtime publishes; recordRetry and recordNearMiss count in the same way
\* without a listener.
Signal(c) ==
  /\ sampler # Stopped /\ counters[c] < MaxSignals
  /\ counters' = [counters EXCEPT ![c] = @ + 1]
  /\ signalled' = signalled \cup {<<c, sampled>>}
  /\ UNCHANGED <<sampler, created, imports, intervals, jitters, monitors, handlers,
                 cleanups, ring, head, sampled>>

\* Mutation: the oldest entry is the one before the head.
OverwriteBehind(entry) ==
  IF Len(ring) < WINDOW THEN Append(ring, entry)
  ELSE [ring EXCEPT ![((head + WINDOW - 1) % WINDOW) + 1] = entry]

PushSample(entry) ==
  IF Len(ring) < WINDOW THEN Append(ring, entry) ELSE [ring EXCEPT ![head + 1] = entry]

Sample ==
  /\ sampler \in intervals /\ sampled < MaxSamples
  /\ ring' = PushSample(counters)
  /\ head' = (head + 1) % WINDOW
  /\ sampled' = sampled + 1
  /\ UNCHANGED <<sampler, created, imports, intervals, jitters, monitors, handlers,
                 cleanups, counters, signalled>>

ReadRingOrdered ==
  IF Len(ring) < WINDOW THEN ring
  ELSE SubSeq(ring, head + 1, WINDOW) \o SubSeq(ring, 1, head)

\* The counters snapshotPrecursors reports.
SnapshotPrecursors ==
  LET samples == ReadRingOrdered
  IN  IF sampler = Stopped \/ Len(samples) < 2 THEN {}
      ELSE {c \in Channels : Last(samples)[c] - samples[1][c] > 0}

SamplerNext ==
  \/ \E s \in SamplerStates : InitPrecursors(s) \/ PerfAttached(s) \/ UndiciAttached(s)
  \/ \E s \in SamplerStates, m \in Modules : NotAttached(s, m)
  \/ StopPrecursors
  \/ \E c \in Channels : Signal(c)
  \/ Sample

-----------------------------------------------------------------------------
(* Properties *)

\* Whatever an import leaves behind belongs to the current state and will be
\* undone by stopPrecursors; the histogram and the jitter probe never run
\* together (precursors.ts:93-95, 215, 291).
SamplerOwnsItsProbes ==
  /\ (UNION {intervals, jitters, monitors}) \cup {h[1] : h \in handlers} \subseteq {sampler}
  /\ jitters \cap monitors = {}
  /\ \A s \in monitors : "monitor" \in cleanups[s]
  /\ \A h \in handlers : h[2] \in cleanups[h[1]]

\* A snapshot reports a counter if and only if it moved between the oldest and
\* the newest sample the window holds (precursors.ts:173-188).
SignalsOfTheWindow ==
  SnapshotPrecursors =
    {c \in Channels : sampler # Stopped
                      /\ \E s \in signalled : s[1] = c /\ s[2] < sampled
                                              /\ s[2] > sampled - Len(ring)}

=============================================================================
