---------------------------- MODULE ObserversProofs ----------------------------
(***************************************************************************)
(* Proofs about Observers: TypeOK, RegistrationHolds, ReadersAgree,        *)
(* OwnDataOnly, CapturedOnce and RingsInOrder, for any callers, threads,   *)
(* tabs, samplers, fetches, requests, inits, interactions and hosts.  The  *)
(* parts share no state, so each has an invariant of its own, which its    *)
(* steps keep and the steps of the others leave alone; where a promise is  *)
(* about all that happened, a second one says what the part has told.      *)
(***************************************************************************)
EXTENDS Observers, SequenceLemmas, FiniteSetTheorems, TLAPS

-----------------------------------------------------------------------------
(* The invariants of the parts *)

\* While registrations do not overlap, the mode, the session and what listens
\* change together, also under unregistrations that overlap.
HookInv ==
  /\ mode \in BOOLEAN /\ overlapped \in BOOLEAN
  /\ {session, hook} \subseteq Callers \cup {NoOne}
  /\ calls \in [Callers -> {"new", "installing", "failed", "done"}]
  /\ ~overlapped =>
       /\ \A c, d \in Installing : c = d
       /\ mode <=> session # NoOne
       /\ session # NoOne => hook # NoOne /\ listening = {session} /\ Installing = {}
       /\ session = NoOne => listening = {}
       /\ Installing # {} => hook # NoOne

\* An active handle has the exit listener, and a file that no later install failed
\* to replace has an active handle.
SessionInv ==
  /\ current = TRUE => listener
  /\ ~abandoned /\ file # None => current = TRUE
  /\ OrphanExplained

\* A thread has our trace function because its hook is registered or because it was
\* started while one was; the one that registers goes back to what it had.
TracingExplained ==
  /\ tracing \subseteq inherited \cup (IF pyMode = "settrace" THEN {pyHook} ELSE {})
  /\ previous => pyMode = "settrace" /\ pyHook \in inherited

\* While threads do not race, only the mode's own probe is in place, and a
\* registration that passed the check finds no mode under the lock.
PyInv ==
  /\ pyMode \in {"pep669", "settrace", Nobody}
  /\ {spreading, previous, raced, elsewhere} \subseteq BOOLEAN
  /\ ~raced =>
       /\ \A t, u \in registering : t = u
       /\ registering # {} => pyMode = Nobody
       /\ callbacks = IF pyMode = "pep669" THEN {toolId} ELSE {}
       /\ spreading <=> pyMode = "settrace"
       /\ elsewhere \/ TracingExplained

\* A probe belongs to the current state, whose cleanups undo it.
SamplerInv ==
  /\ sampler \in SamplerStates \cup {Stopped}
  /\ UNION {intervals, jitters, monitors} \subseteq SamplerStates
  /\ handlers \subseteq SamplerStates \X Channels
  /\ cleanups \in [SamplerStates -> SUBSET (Channels \cup {"monitor"})]
  /\ SamplerOwnsItsProbes

\* While fetches do not overlap, the one under way asked about the filter in use,
\* and what it is answered is no older.
FleetInv ==
  /\ {serverVersion, bloom, etag, newest} \subseteq Versions
  /\ fetching \in [Fetches -> [stage : {"new", "sent", "304", "503", "200", "done"},
                               ifNoneMatch : Versions, answer : Versions]]
  /\ {refreshTimer, closed, fetchesOverlapped, closedEarly} \subseteq BOOLEAN
  /\ etag = bloom /\ newest <= serverVersion
  /\ \A f \in Fetches : fetching[f].answer <= serverVersion
  /\ ~fetchesOverlapped =>
       /\ bloom = newest
       /\ \A f, g \in UnderWay : f = g
       /\ \A f \in UnderWay : fetching[f].ifNoneMatch = etag
       /\ \A f \in Fetches : fetching[f].stage = "304" => fetching[f].answer = fetching[f].ifNoneMatch
       /\ \A f \in Fetches : fetching[f].stage = "200" => newest <= fetching[f].answer
  /\ closed /\ ~closedEarly => fetching[FirstFetch].stage = "done" /\ ~refreshTimer

\* A tab that has read has an id.
TraceTypes ==
  /\ {cookies, storages, reanchored} \subseteq BOOLEAN
  /\ cookie \in SessionIds \cup {NoId}
  /\ {storage, global, activeSessionId} \subseteq [Tabs -> SessionIds \cup {NoId}]
  /\ tabStage \in [Tabs -> {"blank", "read", "ready"}]
  /\ sent \in [Tabs -> SUBSET SessionIds]
  /\ \A t \in Tabs : tabStage[t] # "blank" => activeSessionId[t] # NoId

\* One tab is between its read and its write, and a blank tab has no id.
OneReader ==
  /\ \A t, u \in Tabs : tabStage[t] = "read" /\ tabStage[u] = "read" => t = u
  /\ \A t \in Tabs : tabStage[t] = "blank" => global[t] = NoId /\ activeSessionId[t] = NoId

\* With cookies the first tab to write sets the cookie for all.
OneCookie ==
  /\ \A t \in Tabs : tabStage[t] = "ready" => cookie # NoId
  /\ \A t \in Tabs : global[t] \in {NoId, cookie} /\ sent[t] \subseteq {cookie}
  /\ cookie # NoId => \A t \in Tabs : activeSessionId[t] \in {NoId, cookie}

\* Without them each tab keeps what it stored.
OwnStorage ==
  /\ cookie = NoId
  /\ \A t \in Tabs :
       /\ tabStage[t] = "ready" => storage[t] # NoId
       /\ storage[t] # NoId => activeSessionId[t] \in {NoId, storage[t]}
       /\ sent[t] \subseteq {storage[t]}

TraceInv ==
  /\ TraceTypes
  /\ ~reanchored => OneReader
  /\ ~reanchored /\ cookies => OneCookie
  /\ ~reanchored /\ storages /\ ~cookies => OwnStorage

-----------------------------------------------------------------------------
(* The forensic hook *)

LEMMA HookStarts == HookInit => HookInv
  BY ForensicHookAssumption DEF HookInit, HookInv, Installing

\* One registration is under way: its start, and its end.
LEMMA RegisterKept ==
  ASSUME HookInv, NEW c \in Callers,
         RegisterRefused(c) \/ Register(c) \/ Installed(c) \/ InstallFails(c)
  PROVE  HookInv'
<1>1. CASE RegisterRefused(c)
  <2>1. Installing' = Installing
    BY <1>1 DEF RegisterRefused, Installing, HookInv
  <2> QED
    BY <1>1, <2>1 DEF RegisterRefused, HookInv
<1>2. CASE Register(c)
  <2>1. Installing' = Installing \cup {c}
    BY <1>2 DEF Register, Installing, HookInv
  <2>2. c # NoOne
    BY ForensicHookAssumption
  <2> QED
    BY <1>2, <2>1, <2>2 DEF Register, HookInv
<1>3. CASE Installed(c)
  <2>1. Installing' = Installing \ {c} /\ c \in Installing
    BY <1>3 DEF Installed, Installing, HookInv
  <2>2. c # NoOne
    BY ForensicHookAssumption
  <2> QED
    BY <1>3, <2>1, <2>2 DEF Installed, HookInv
<1>4. CASE InstallFails(c)
  <2>1. Installing' = Installing \ {c}
    BY <1>4 DEF InstallFails, Installing, HookInv
  <2> QED
    BY <1>4, <2>1 DEF InstallFails, HookInv
<1> QED
  BY <1>1, <1>2, <1>3, <1>4

\* Unregistrations may overlap each other and a registration.
LEMMA UnregisterKept ==
  ASSUME HookInv, NEW u \in Undoers,
         UnregisterAtOnce(u) \/ Unregister(u) \/ Uninstalled(u)
  PROVE  HookInv'
<1>1. Installing' = Installing
  BY DEF UnregisterAtOnce, Unregister, Uninstalled, Installing
<1>2. CASE UnregisterAtOnce(u)
  BY <1>1, <1>2 DEF UnregisterAtOnce, HookInv
<1>3. CASE Unregister(u)
  BY <1>1, <1>3 DEF Unregister, HookInv
<1>4. CASE Uninstalled(u)
  <2>1. CASE session = NoOne
    BY <1>1, <1>4, <2>1 DEF Uninstalled, HookInv
  <2>2. CASE session # NoOne
    <3>1. /\ listening' = listening \ {undoing[u], session}
          /\ session' = NoOne /\ hook' = NoOne /\ mode' = FALSE
          /\ calls' = calls /\ overlapped' = overlapped
      BY <1>4, <2>2 DEF Uninstalled, Disconnected
    <3> QED
      BY <1>1, <2>2, <3>1 DEF HookInv
  <2> QED
    BY <2>1, <2>2
<1> QED
  BY <1>2, <1>3, <1>4

LEMMA HookKept == HookInv /\ HookNext => HookInv'
<1> SUFFICES ASSUME HookInv, HookNext
             PROVE  HookInv'
  OBVIOUS
<1>1. CASE \E c \in Callers :
             RegisterRefused(c) \/ Register(c) \/ Installed(c) \/ InstallFails(c)
  BY <1>1, RegisterKept
<1>2. CASE \E u \in Undoers : UnregisterAtOnce(u) \/ Unregister(u) \/ Uninstalled(u)
  BY <1>2, UnregisterKept
<1>3. CASE \/ \E t \in Throws : Throw(t)
           \/ \E c \in Callers, t \in Throws : Captured(c, t)
           \/ \E e \in Events : OnBeforeSend(e)
  <2>1. UNCHANGED <<mode, session, hook, calls, listening, overlapped>>
    BY <1>3 DEF Throw, Captured, OnBeforeSend
  <2> QED
    BY <2>1 DEF HookInv, Installing
<1> QED
  BY <1>1, <1>2, <1>3 DEF HookNext

-----------------------------------------------------------------------------
(* The session file *)

LEMMA SessionStarts == SessionInit => SessionInv
  BY ForensicHookAssumption DEF SessionInit, SessionInv, OrphanExplained

LEMMA SessionKept == SessionInv /\ SessionNext => SessionInv'
<1> SUFFICES ASSUME SessionInv, SessionNext
             PROVE  SessionInv'
  OBVIOUS
<1> USE ForensicHookAssumption DEF SessionInv, OrphanExplained
<1>1. ASSUME NEW s \in Sessions, NEW ok \in BOOLEAN, InstallSessionFile(s, ok)
      PROVE  SessionInv'
  BY <1>1 DEF InstallSessionFile, Written
<1>2. ASSUME NEW r \in Requests, NEW ok \in BOOLEAN, UpdateRequestContext(r, ok)
      PROVE  SessionInv'
  BY <1>2 DEF UpdateRequestContext, Written
<1>3. CASE UninstallSessionFile
  BY <1>3 DEF UninstallSessionFile, RemovedIfActive
<1>4. CASE Exit
  BY <1>4 DEF Exit, RemovedIfActive
<1> QED
  BY <1>1, <1>2, <1>3, <1>4 DEF SessionNext

-----------------------------------------------------------------------------
(* The Python hook *)

LEMMA PyStarts == PyInit => PyInv
  BY PyForensicHookAssumption DEF PyInit, PyInv, TracingExplained

\* A thread starts with the trace function only while a hook is registered.
LEMMA PyThreadKept == ASSUME PyInv, NEW t \in Threads, StartThread(t) PROVE PyInv'
<1>1. /\ UNCHANGED <<pyMode, pyHook, toolId, callbacks, spreading, previous, registering, raced,
                     elsewhere>>
      /\ tracing' = IF spreading THEN tracing \cup {t} ELSE tracing
      /\ inherited' = IF spreading THEN inherited \cup {t} ELSE inherited
  BY DEF StartThread
<1>2. TracingExplained => TracingExplained'
  BY <1>1 DEF TracingExplained
<1> QED
  BY <1>1, <1>2 DEF PyInv

\* A registration, its two ways to put a probe in place, and its undoing.
LEMMA PyRegistrationKept ==
  ASSUME PyInv, NEW t \in Threads,
         CheckMode(t) \/ InstallPep669(t) \/ InstallSettrace(t) \/ UnregisterPy(t)
  PROVE  PyInv'
<1> USE PyForensicHookAssumption
<1>1. CASE CheckMode(t)
  <2>1. UNCHANGED <<pyMode, pyHook, toolId, callbacks, threadVars, previous, elsewhere>>
        /\ pyMode = Nobody /\ registering' = registering \cup {t}
        /\ raced' = (raced \/ registering # {})
    BY <1>1 DEF CheckMode
  <2>2. TracingExplained' <=> TracingExplained
    BY <2>1 DEF TracingExplained, threadVars
  <2> QED
    BY <2>1, <2>2 DEF PyInv, threadVars
<1>2. CASE InstallPep669(t)
  <2>1. PICK id : /\ id # Nobody /\ toolId' = id /\ callbacks' = callbacks \cup {id}
                  /\ t \in registering /\ registering' = registering \ {t}
                  /\ pyMode' = "pep669"
                  /\ UNCHANGED <<threadVars, previous, raced, elsewhere>>
    BY <1>2 DEF InstallPep669, Claims
  <2>2. ~raced => pyMode = Nobody
    BY <2>1 DEF PyInv
  <2>3. ~raced /\ TracingExplained => TracingExplained'
    BY <2>1, <2>2 DEF TracingExplained, threadVars
  <2> QED
    BY <2>1, <2>2, <2>3 DEF PyInv, threadVars
<1>3. CASE InstallSettrace(t)
  <2>1. /\ t \in registering /\ registering' = registering \ {t} /\ pyHook' = t
        /\ previous' = (t \in tracing) /\ tracing' = tracing \cup {t} /\ spreading' = TRUE
        /\ pyMode' = "settrace"
        /\ UNCHANGED <<running, inherited, toolId, callbacks, raced, elsewhere>>
    BY <1>3 DEF InstallSettrace, Claims
  <2>2. ~raced => pyMode = Nobody
    BY <2>1 DEF PyInv
  <2>3. ~raced /\ TracingExplained => TracingExplained'
    BY <2>1, <2>2 DEF TracingExplained
  <2> QED
    BY <2>1, <2>2, <2>3 DEF PyInv
<1>4. CASE UnregisterPy(t)
  <2>1. CASE pyMode = "pep669"
    <3>1. /\ callbacks' = callbacks \ {toolId} /\ pyMode' = Nobody
          /\ UNCHANGED <<threadVars, previous, elsewhere, registering, raced>>
      BY <1>4, <2>1 DEF UnregisterPy, Freed
    <3>2. TracingExplained => TracingExplained'
      BY <2>1, <3>1 DEF TracingExplained, threadVars
    <3> QED
      BY <2>1, <3>1, <3>2 DEF PyInv, threadVars
  <2>2. CASE pyMode = "settrace"
    <3>1. /\ tracing' = IF previous THEN tracing \cup {t} ELSE tracing \ {t}
          /\ previous' = FALSE /\ spreading' = FALSE
          /\ elsewhere' = (elsewhere \/ pyHook # t)
          /\ UNCHANGED <<running, inherited, toolId, callbacks, registering, raced>>
          /\ pyMode' = Nobody
      BY <1>4, <2>2 DEF UnregisterPy
    <3>2. TracingExplained /\ pyHook = t => TracingExplained'
      BY <2>2, <3>1 DEF TracingExplained
    <3> QED
      BY <2>2, <3>1, <3>2 DEF PyInv
  <2>3. CASE pyMode = Nobody
    <3>1. UNCHANGED <<toolId, callbacks, threadVars, previous, elsewhere, registering, raced>>
          /\ pyMode' = Nobody
      BY <1>4, <2>3 DEF UnregisterPy
    <3>2. TracingExplained => TracingExplained'
      BY <2>3, <3>1 DEF TracingExplained, threadVars
    <3> QED
      BY <2>3, <3>1, <3>2 DEF PyInv, threadVars
  <2> QED
    BY <2>1, <2>2, <2>3 DEF PyInv
<1> QED
  BY <1>1, <1>2, <1>3, <1>4

LEMMA PyKept == PyInv /\ PyNext => PyInv'
<1> SUFFICES ASSUME PyInv, PyNext
             PROVE  PyInv'
  OBVIOUS
<1>1. ASSUME NEW t \in Threads,
             CheckMode(t) \/ InstallPep669(t) \/ InstallSettrace(t) \/ UnregisterPy(t)
      PROVE  PyInv'
  BY <1>1, PyRegistrationKept
<1>2. ASSUME NEW t \in Threads, StartThread(t) PROVE PyInv'
  BY <1>2, PyThreadKept
<1>3. CASE \E e \in Exceptions :
             RaiseException(e) \/ Collected(e) \/ Dispatch(e) \/ CallHook(e)
  <2>1. UNCHANGED <<pyMode, pyHook, toolId, callbacks, threadVars, previous, registering,
                    raced, elsewhere>>
    BY <1>3 DEF RaiseException, Collected, Dispatch, CallHook
  <2> QED
    BY <2>1 DEF PyInv, TracingExplained, threadVars
<1> QED
  BY <1>1, <1>2, <1>3 DEF PyNext

-----------------------------------------------------------------------------
(* The precursor sampler *)

LEMMA SamplerStarts == SamplerInit => SamplerInv
  BY DEF SamplerInit, SamplerInv, SamplerOwnsItsProbes

\* SamplerInv in terms of the probes themselves.
SamplerProbes ==
  /\ sampler \in SamplerStates \cup {Stopped}
  /\ intervals \subseteq SamplerStates \cap {sampler}
  /\ jitters \subseteq SamplerStates \cap {sampler}
  /\ monitors \subseteq SamplerStates \cap {sampler}
  /\ handlers \subseteq (SamplerStates \cap {sampler}) \X Channels
  /\ cleanups \in [SamplerStates -> SUBSET (Channels \cup {"monitor"})]
  /\ \A s \in jitters : s \notin monitors
  /\ \A s \in monitors : "monitor" \in cleanups[s]
  /\ \A h \in handlers : h[2] \in cleanups[h[1]]

LEMMA SamplerInProbes == SamplerInv <=> SamplerProbes
<1>1. SamplerInv => SamplerProbes
  <2> SUFFICES ASSUME SamplerInv
               PROVE  SamplerProbes
    OBVIOUS
  <2>1. /\ intervals \subseteq SamplerStates \cap {sampler}
        /\ jitters \subseteq SamplerStates \cap {sampler}
        /\ monitors \subseteq SamplerStates \cap {sampler}
    BY DEF SamplerInv, SamplerOwnsItsProbes
  <2>2. \A h \in handlers : h \in SamplerStates \X Channels /\ h[1] = sampler
    <3>1. {h[1] : h \in handlers} \subseteq {sampler}
      BY DEF SamplerInv, SamplerOwnsItsProbes
    <3> QED
      BY <3>1 DEF SamplerInv
  <2>3. handlers \subseteq (SamplerStates \cap {sampler}) \X Channels
    BY <2>2
  <2> QED
    BY <2>1, <2>3 DEF SamplerInv, SamplerOwnsItsProbes, SamplerProbes
<1>2. SamplerProbes => SamplerInv
  <2> SUFFICES ASSUME SamplerProbes
               PROVE  SamplerInv
    OBVIOUS
  <2>1. \A h \in handlers : h[1] = sampler /\ h \in SamplerStates \X Channels
    BY DEF SamplerProbes
  <2>2. UNION {intervals, jitters, monitors} \subseteq SamplerStates \cap {sampler}
    BY DEF SamplerProbes
  <2>3. {h[1] : h \in handlers} \subseteq {sampler}
    BY <2>1
  <2>4. handlers \subseteq SamplerStates \X Channels
    BY <2>1
  <2>5. SamplerOwnsItsProbes
    BY <2>2, <2>3 DEF SamplerOwnsItsProbes, SamplerProbes
  <2> QED
    BY <2>2, <2>4, <2>5 DEF SamplerInv, SamplerProbes
<1> QED
  BY <1>1, <1>2

\* A state is created only when none is left, and an import adds to the current one.
LEMMA SamplerChanged ==
  ASSUME SamplerProbes, NEW s \in SamplerStates,
         InitPrecursors(s) \/ PerfAttached(s) \/ UndiciAttached(s) \/ StopPrecursors
  PROVE  SamplerProbes'
<1> USE PrecursorsAssumption DEF SamplerProbes, Channels
<1>1. CASE InitPrecursors(s)
  <2>1. intervals = {} /\ jitters = {} /\ monitors = {} /\ handlers = {}
    BY <1>1 DEF InitPrecursors
  <2> QED
    BY <1>1, <2>1 DEF InitPrecursors
<1>2. CASE PerfAttached(s)
  BY <1>2 DEF PerfAttached, ImportSettles, StillCurrent
<1>3. CASE UndiciAttached(s)
  BY <1>3 DEF UndiciAttached, ImportSettles, StillCurrent
<1>4. CASE StopPrecursors
  <2>1. intervals' = {} /\ jitters' = {} /\ monitors' = {}
    BY <1>4 DEF StopPrecursors
  <2>2. handlers' = {}
    BY <1>4 DEF StopPrecursors
  <2> QED
    BY <1>4, <2>1, <2>2 DEF StopPrecursors
<1> QED
  BY <1>1, <1>2, <1>3, <1>4

LEMMA SamplerKept == SamplerInv /\ SamplerNext => SamplerInv'
<1> SUFFICES ASSUME SamplerProbes, SamplerNext
             PROVE  SamplerProbes'
  BY SamplerInProbes, PTL
<1>1. CASE \E s \in SamplerStates : InitPrecursors(s) \/ PerfAttached(s) \/ UndiciAttached(s)
  BY <1>1, SamplerChanged
<1>2. CASE StopPrecursors
  <2>1. sampler \in SamplerStates
    BY <1>2 DEF StopPrecursors, SamplerProbes
  <2> QED
    BY <1>2, <2>1, SamplerChanged
<1>3. CASE \/ \E s \in SamplerStates, m \in Modules : NotAttached(s, m)
           \/ \E c \in Channels : Signal(c)
           \/ Sample
  <2>1. UNCHANGED <<sampler, intervals, jitters, monitors, handlers, cleanups>>
    BY <1>3 DEF NotAttached, ImportSettles, Signal, Sample
  <2> QED
    BY <2>1 DEF SamplerProbes
<1> QED
  BY <1>1, <1>2, <1>3 DEF SamplerNext

-----------------------------------------------------------------------------
(* The fleet filter *)

LEMMA FleetStarts == FleetInit => FleetInv
<1> SUFFICES ASSUME FleetInit
             PROVE  FleetInv
  OBVIOUS
<1>1. 0 \in Versions
  BY FleetBloomAssumption DEF Versions
<1>2. \A f \in Fetches : fetching[f] = NotMade
  BY DEF FleetInit
<1>3. fetching \in [Fetches -> [stage : {"new", "sent", "304", "503", "200", "done"},
                               ifNoneMatch : Versions, answer : Versions]]
  BY <1>1 DEF FleetInit, NotMade
<1>4. UnderWay = {}
  BY <1>2 DEF UnderWay, NotMade
<1>5. \A f \in Fetches : fetching[f].stage = "new"
  BY <1>2 DEF NotMade
<1>6. newest <= serverVersion /\ {serverVersion, bloom, etag, newest} \subseteq Versions
      /\ \A f \in Fetches : fetching[f].answer <= serverVersion
  BY <1>1, <1>2 DEF FleetInit, NotMade
<1>7. /\ {refreshTimer, closed, fetchesOverlapped, closedEarly} \subseteq BOOLEAN
      /\ etag = bloom /\ bloom = newest /\ ~closed
  BY DEF FleetInit
<1> QED
  BY <1>3, <1>4, <1>5, <1>6, <1>7 DEF FleetInv

\* A fetch is sent with the etag of the filter in use, and answered by what the
\* server has by then, which is no older.
LEMMA FleetFetches ==
  ASSUME FleetInv, NEW f \in Fetches, SendFetch(f) \/ ServerAnswers(f)
  PROVE  FleetInv'
<1> USE FleetBloomAssumption
<1>1. CASE SendFetch(f)
  <2>1. /\ fetching' \in [Fetches -> [stage : {"new", "sent", "304", "503", "200", "done"},
                                      ifNoneMatch : Versions, answer : Versions]]
        /\ fetching'[f].stage = "sent" /\ fetching'[f].ifNoneMatch = etag
        /\ fetching'[f].answer = fetching[f].answer
        /\ \A g \in Fetches \ {f} : fetching'[g] = fetching[g]
    BY <1>1 DEF SendFetch, FleetInv
  <2>2. UnderWay' = UnderWay \cup {f}
    BY <2>1 DEF UnderWay, FleetInv
  <2>3. UNCHANGED <<server, client, lifecycle, contributing>>
        /\ fetchesOverlapped' = (fetchesOverlapped \/ UnderWay # {})
        /\ fetching[f].stage = "new"
    BY <1>1 DEF SendFetch
  <2> QED
    BY <2>1, <2>2, <2>3 DEF FleetInv, server, client, lifecycle
<1>2. CASE ServerAnswers(f)
  <2>1. PICK st \in {"503", "304", "200"} :
          /\ st = "304" => fetching[f].ifNoneMatch = serverVersion
          /\ fetching' = [fetching EXCEPT ![f] = [stage |-> st, answer |-> serverVersion,
                                                  ifNoneMatch |-> fetching[f].ifNoneMatch]]
    BY <1>2 DEF ServerAnswers, FleetInv
  <2>2. UnderWay' = UnderWay
    BY <1>2, <2>1 DEF ServerAnswers, UnderWay, FleetInv
  <2>3. UNCHANGED <<server, client, lifecycle, contributing, fetchesOverlapped>>
        /\ fetching[f].stage = "sent"
    BY <1>2 DEF ServerAnswers
  <2> QED
    BY <2>1, <2>2, <2>3 DEF FleetInv, server, client, lifecycle, Versions
<1> QED
  BY <1>1, <1>2

\* The one fetch under way returns.
LEMMA FleetReturns ==
  ASSUME FleetInv, NEW f \in Fetches, Kept(f) \/ Loaded(f)
  PROVE  FleetInv'
<1> USE FleetBloomAssumption
<1>1. /\ fetching' = [fetching EXCEPT ![f] = [stage |-> "done", answer |-> fetching[f].answer,
                                              ifNoneMatch |-> fetching[f].ifNoneMatch]]
      /\ f \in UnderWay
      /\ refreshTimer' = (refreshTimer \/ f = FirstFetch)
      /\ UNCHANGED <<server, closed, closedEarly, fetchesOverlapped>>
  BY DEF Kept, Loaded, FetchReturns, FleetInv, UnderWay
<1>2. UnderWay' = UnderWay \ {f}
  BY <1>1 DEF UnderWay, FleetInv
<1>3. closed /\ ~closedEarly => f # FirstFetch
  BY <1>1 DEF UnderWay, FleetInv
<1>4. CASE Kept(f)
  BY <1>1, <1>2, <1>3, <1>4 DEF Kept, KeptAfter, FleetInv, server
<1>5. CASE Loaded(f)
  <2>1. /\ bloom' = fetching[f].answer /\ etag' = bloom'
        /\ newest' = IF fetching[f].answer > newest THEN fetching[f].answer ELSE newest
        /\ fetching[f].stage = "200"
    BY <1>5 DEF Loaded
  <2>2. UNCHANGED serverVersion /\ fetching[f].answer \in Versions
    BY <1>1 DEF FleetInv, server
  <2>3. /\ {serverVersion, bloom, etag, newest}' \subseteq Versions
        /\ newest' <= serverVersion' /\ newest <= newest'
    <3>1. fetching[f].answer <= serverVersion
      BY DEF FleetInv
    <3> QED
      BY <2>1, <2>2, <3>1 DEF FleetInv, Versions
  <2>4. ~fetchesOverlapped => bloom' = newest'
    <3>1. ~fetchesOverlapped => newest <= fetching[f].answer
      BY <2>1 DEF FleetInv
    <3>2. newest \in Nat /\ fetching[f].answer \in Nat
      BY <2>2 DEF FleetInv, Versions
    <3> QED
      BY <2>1, <3>1, <3>2
  <2>5. /\ ~fetchesOverlapped => UnderWay' = {}
        /\ fetching' \in [Fetches -> [stage : {"new", "sent", "304", "503", "200", "done"},
                                      ifNoneMatch : Versions, answer : Versions]]
        /\ \A g \in Fetches : fetching'[g].answer = fetching[g].answer
        /\ \A g \in Fetches : fetching'[g].stage \in {"304", "200"} => g \in UnderWay'
        /\ refreshTimer' \in BOOLEAN
    BY <1>1, <1>2 DEF FleetInv, UnderWay
  <2> QED
    BY <1>1, <1>2, <1>3, <2>1, <2>2, <2>3, <2>4, <2>5 DEF FleetInv
<1> QED
  BY <1>4, <1>5

LEMMA FleetKept == FleetInv /\ FleetNext => FleetInv'
<1> SUFFICES ASSUME FleetInv, FleetNext
             PROVE  FleetInv'
  OBVIOUS
<1> USE FleetBloomAssumption
<1>1. CASE ServerBuilds
  <2>1. /\ serverVersion' = serverVersion + 1 /\ serverVersion < MaxVersion
        /\ UNCHANGED <<bloom, etag, newest, fetching, refreshTimer, closed, closedEarly,
                       fetchesOverlapped>>
    BY <1>1 DEF ServerBuilds, client, lifecycle
  <2>2. serverVersion' \in Versions /\ newest <= serverVersion'
    BY <2>1 DEF FleetInv, Versions
  <2>3. \A f \in Fetches : fetching[f].answer <= serverVersion'
    BY <2>1 DEF FleetInv, Versions
  <2>4. UnderWay' = UnderWay
    BY <2>1 DEF UnderWay
  <2> QED
    BY <2>1, <2>2, <2>3, <2>4 DEF FleetInv
<1>2. CASE Close
  <2>1. UnderWay' = UnderWay
    BY <1>2 DEF Close, UnderWay
  <2> QED
    BY <1>2, <2>1 DEF Close, FleetInv, server, client
<1>3. CASE \E f \in Fetches : SendFetch(f) \/ ServerAnswers(f) \/ Kept(f) \/ Loaded(f)
  BY <1>3, FleetFetches, FleetReturns
<1>4. CASE \E p \in Fingerprints, b \in BOOLEAN : FleetOnBeforeSend(p, b) \/ PostSettles(p, b)
  <2>1. UNCHANGED <<serverVersion, bloom, etag, newest, fetching, refreshTimer, closed,
                    closedEarly, fetchesOverlapped>>
    BY <1>4 DEF FleetOnBeforeSend, PostSettles, server, client, lifecycle
  <2> QED
    BY <2>1 DEF FleetInv, UnderWay
<1> QED
  BY <1>1, <1>2, <1>3, <1>4 DEF FleetNext

-----------------------------------------------------------------------------
(* The session id of the tabs *)

LEMMA TraceStarts == TraceInit => TraceInv
<1> SUFFICES ASSUME TraceInit
             PROVE  TraceInv
  OBVIOUS
<1>1. TraceTypes
  BY DEF TraceInit, TraceTypes
<1>2. OneReader /\ OneCookie /\ OwnStorage
  BY DEF TraceInit, OneReader, OneCookie, OwnStorage
<1> QED
  BY <1>1, <1>2 DEF TraceInv

\* The id a tab reads is the cookie's where there is one, then its own.
LEMMA ReadKept ==
  ASSUME TraceInv, NEW t \in Tabs, ReadSessionId(t)
  PROVE  TraceInv'
<1> USE FullTraceAssumption DEF ReadSessionId
<1>1. PICK id \in SessionIds :
        /\ activeSessionId' = [activeSessionId EXCEPT ![t] = id]
        /\ Existing(t) # NoId => id = Existing(t)
  BY DEF TraceInv, TraceTypes, Existing, SessionIds
<1>2. id # NoId
  BY DEF SessionIds
<1>3. TraceTypes'
  BY <1>1 DEF TraceInv, TraceTypes
<1>4. ~reanchored' => ~reanchored /\ \A u \in Tabs : tabStage[u] # "read"
  OBVIOUS
<1>5. ~reanchored' => OneReader'
  BY <1>1, <1>2, <1>4 DEF TraceInv, TraceTypes, OneReader
<1>6. ~reanchored' /\ cookies' => OneCookie'
  <2> SUFFICES ASSUME ~reanchored', cookies'
               PROVE  OneCookie'
    OBVIOUS
  <2>1. OneCookie /\ OneReader
    BY <1>4 DEF TraceInv
  <2>2. cookie # NoId => id = cookie
    BY <1>1, <2>1 DEF Existing, OneCookie
  <2> QED
    BY <1>1, <2>1, <2>2 DEF TraceInv, TraceTypes, OneCookie
<1>7. ~reanchored' /\ storages' /\ ~cookies' => OwnStorage'
  <2> SUFFICES ASSUME ~reanchored', storages', ~cookies'
               PROVE  OwnStorage'
    OBVIOUS
  <2>1. OwnStorage /\ OneReader
    BY <1>4 DEF TraceInv
  <2>2. storage[t] # NoId => id = storage[t]
    BY <1>1, <2>1 DEF Existing, OwnStorage, OneReader
  <2> QED
    BY <1>1, <2>1, <2>2 DEF TraceInv, TraceTypes, OwnStorage
<1> QED
  BY <1>3, <1>5, <1>6, <1>7 DEF TraceInv

\* The tab that writes is the only one that had read; with no cookie yet every
\* other tab is blank.
LEMMA WriteKept ==
  ASSUME TraceInv, NEW t \in Tabs, WriteSessionId(t)
  PROVE  TraceInv'
<1> USE FullTraceAssumption DEF WriteSessionId, WrittenEverywhere
<1>1. TraceTypes'
  BY DEF TraceInv, TraceTypes
<1>2. ~reanchored => OneReader'
  <2> SUFFICES ASSUME ~reanchored
               PROVE  OneReader'
    OBVIOUS
  <2> QED
    BY DEF TraceInv, TraceTypes, OneReader
<1>3. ~reanchored /\ cookies => OneCookie'
  <2> SUFFICES ASSUME ~reanchored, cookies
               PROVE  OneCookie'
    OBVIOUS
  <2>1. OneCookie /\ OneReader
    BY DEF TraceInv
  <2>2. activeSessionId[t] # NoId /\ cookie' = activeSessionId[t]
    BY DEF TraceInv, TraceTypes
  <2>3. CASE cookie = NoId
    <3>1. \A u \in Tabs \ {t} : tabStage[u] = "blank"
      BY <2>1, <2>3 DEF OneReader, OneCookie, TraceInv, TraceTypes
    <3>2. \A u \in Tabs : sent[u] = {}
      BY <2>1, <2>3 DEF OneCookie, TraceInv, TraceTypes, SessionIds
    <3> QED
      BY <2>1, <2>2, <3>1, <3>2 DEF OneReader, OneCookie, TraceInv, TraceTypes
  <2>4. CASE cookie # NoId
    <3>1. activeSessionId[t] = cookie
      BY <2>1, <2>2, <2>4 DEF OneCookie
    <3> QED
      BY <2>1, <2>2, <2>4, <3>1 DEF OneCookie, TraceInv, TraceTypes
  <2> QED
    BY <2>3, <2>4
<1>4. ~reanchored /\ storages /\ ~cookies => OwnStorage'
  <2> SUFFICES ASSUME ~reanchored, storages, ~cookies
               PROVE  OwnStorage'
    OBVIOUS
  <2>1. OwnStorage /\ OneReader
    BY DEF TraceInv
  <2>2. activeSessionId[t] # NoId
    BY DEF TraceInv, TraceTypes
  <2>3. storage[t] \in {NoId, activeSessionId[t]}
    BY <2>1, <2>2 DEF OwnStorage
  <2>4. sent[t] \subseteq {activeSessionId[t]}
    BY <2>1, <2>3 DEF OwnStorage, TraceInv, TraceTypes, SessionIds
  <2> QED
    BY <2>1, <2>2, <2>4 DEF OwnStorage, TraceInv, TraceTypes
<1> QED
  BY <1>1, <1>2, <1>3, <1>4 DEF TraceInv

\* A ready tab sends its id, and blanks what does not outlive its page.
LEMMA ReadyKept ==
  ASSUME TraceInv, NEW t \in Tabs, SendRequest(t) \/ Reload(t)
  PROVE  TraceInv'
<1> USE FullTraceAssumption
<1>1. CASE SendRequest(t)
  <2> USE <1>1 DEF SendRequest
  <2>1. activeSessionId[t] \in SessionIds /\ activeSessionId[t] # NoId
    BY DEF TraceInv, TraceTypes
  <2>2. ~reanchored /\ cookies => activeSessionId[t] = cookie
    BY <2>1 DEF TraceInv, OneCookie
  <2>3. ~reanchored /\ storages /\ ~cookies => activeSessionId[t] = storage[t]
    BY <2>1 DEF TraceInv, OwnStorage
  <2>4. TraceTypes'
    BY <2>1 DEF TraceInv, TraceTypes
  <2>5. ~reanchored => OneReader'
    BY DEF TraceInv, OneReader
  <2>6. ~reanchored /\ cookies => OneCookie'
    BY <2>2 DEF TraceInv, TraceTypes, OneCookie
  <2>7. ~reanchored /\ storages /\ ~cookies => OwnStorage'
    BY <2>3 DEF TraceInv, TraceTypes, OwnStorage
  <2> QED
    BY <2>4, <2>5, <2>6, <2>7 DEF TraceInv
<1>2. CASE Reload(t)
  <2> USE <1>2 DEF Reload
  <2>1. TraceTypes'
    BY DEF TraceInv, TraceTypes
  <2>2. ~reanchored => OneReader'
    BY DEF TraceInv, TraceTypes, OneReader
  <2>3. ~reanchored /\ cookies => OneCookie'
    BY DEF TraceInv, TraceTypes, OneCookie
  <2>4. ~reanchored /\ storages /\ ~cookies => OwnStorage'
    BY DEF TraceInv, TraceTypes, OwnStorage
  <2> QED
    BY <2>1, <2>2, <2>3, <2>4 DEF TraceInv
<1> QED
  BY <1>1, <1>2

LEMMA TraceKept == TraceInv /\ TraceNext => TraceInv'
<1> SUFFICES ASSUME TraceInv, TraceNext
             PROVE  TraceInv'
  OBVIOUS
<1>1. CASE \E t \in Tabs : ReadSessionId(t) \/ WriteSessionId(t) \/ SendRequest(t) \/ Reload(t)
  BY <1>1, ReadKept, WriteKept, ReadyKept
<1>2. CASE \/ \E t \in Tabs, id \in HostIds : SetSessionId(t, id) \/ ReplayStarts(t, id)
           \/ CookieExpires
  <2>1. CASE CookieExpires
    BY <2>1, FullTraceAssumption DEF CookieExpires, TraceInv, TraceTypes
  <2>2. CASE \E t \in Tabs, id \in HostIds : SetSessionId(t, id)
    BY <2>2, FullTraceAssumption
       DEF SetSessionId, WrittenEverywhere, TraceInv, TraceTypes, SessionIds
  <2>3. CASE \E t \in Tabs, id \in HostIds : ReplayStarts(t, id)
    BY <2>3, FullTraceAssumption DEF ReplayStarts, TraceInv, TraceTypes, SessionIds
  <2> QED
    BY <1>2, <2>1, <2>2, <2>3
<1> QED
  BY <1>1, <1>2 DEF TraceNext

-----------------------------------------------------------------------------
(* Request scopes *)

\* What may be found in contents an event of r is made of.
OfRequest(r, c) == c.request \in {r, Unset}
OwnContents(r, c) == c.user \in {r, App, Unset} /\ c.tags \subseteq {r, App}
HostContents(c) == c.user \in {App, Unset} /\ c.tags \subseteq {App}
Isolated(r, c) == OwnContents(r, c) /\ OfRequest(r, c) /\ (r \in wrote => r \in c.tags)

\* The request's own place is written by the request only.
OwnInv ==
  \A r \in Handled :
    /\ OwnContents(r, scopes[r]) /\ OfRequest(r, scopes[r])
    /\ r \notin bare => /\ OwnContents(r, kept[r]) /\ OfRequest(r, kept[r])
                        /\ r \in wrote => r \in scopes[r].tags

\* The global place is reached by requests without a context and by the host.
ContextInv ==
  /\ scopes[App].request = Unset
  /\ bare = {} => HostContents(scopes[App])

\* A thread has one live request, and what its last one found before.
ThreadInv ==
  /\ \A r \in Handled : handling[r] # "suspended"
  /\ \A q, r \in Live : workerOf[q] = workerOf[r] => q = r
  /\ \A r \in Live \ spoiled : Isolated(r, scopes[workerOf[r]])
  /\ HostContents(scopes[App])
  /\ bare = {} => /\ \A r \in Live : HostContents(kept[r])
                  /\ \A w \in Workers : (\A r \in Live : workerOf[r] # w) => HostContents(scopes[w])

\* One shared place, whose last contents a request that nothing spoiled puts back.
PutBack ==
  /\ \A w \in Workers : HostContents(scopes[w])
  /\ spoiled = {} => /\ \A r \in Live : HostContents(kept[r])
                     /\ Live = {} => HostContents(scopes[App])

\* A request that did not await yet is the one that runs.
SwappedInv ==
  /\ \A r \in Handled : handling[r] = "suspended" => r \in spoiled
  /\ \A q, r \in Handled : handling[q] = "running" /\ handling[r] = "running" => q = r
  /\ \A r \in Handled \ spoiled : handling[r] = "running" => Isolated(r, scopes[App])
  /\ PutBack

\* A request that nothing overlaps is alone.
LockedInv ==
  /\ \A r \in Handled : handling[r] # "suspended"
  /\ \A r \in Live \ spoiled : Live = {r} /\ Isolated(r, scopes[App])
  /\ PutBack

GlobalInv ==
  \A r \in Live \ spoiled :
    Live = {r} /\ OfRequest(r, scopes[App]) /\ (r \in wrote => r \in scopes[App].tags)

\* A request has its own place unless the host wrote before it.
AmbientInv ==
  /\ scopes[App] # Blank => App \in scopes[App].tags /\ Live \subseteq spoiled
  /\ \A r \in Handled : OwnContents(r, scopes[r]) /\ OfRequest(r, scopes[r])
  /\ scopes[App] = Blank => \A r \in wrote : r \in scopes[r].tags

KindInv ==
  /\ scopeKind = "own" => OwnInv
  /\ scopeKind = "context" => ContextInv
  /\ scopeKind = "thread" => ThreadInv
  /\ scopeKind = "swapped" => SwappedInv
  /\ scopeKind = "locked" => LockedInv
  /\ scopeKind = "global" => GlobalInv
  /\ scopeKind = "ambient" => AmbientInv

ScopesInv ==
  /\ ScopesTypeOK
  /\ Live \cap bare \subseteq spoiled /\ wrote \subseteq Live
  /\ KindInv
  /\ NothingForeign /\ OwnDataPresent

LEMMA ScopesStart == ScopesInit => ScopesInv
<1> SUFFICES ASSUME ScopesInit PROVE ScopesInv
  OBVIOUS
<1>1. ScopesTypeOK
  <2>1. Blank \in Contents
    BY DEF Contents, Blank, Owners
  <2>2. event \in [Handled -> Contents] /\ kept \in [Handled -> Contents]
    BY <2>1 DEF ScopesInit
  <2>3. scopes \in [Places -> Contents]
    BY <2>1 DEF ScopesInit
  <2>4. handling \in [Handled -> {"new", "running", "suspended", "done"}]
    BY DEF ScopesInit
  <2>5. workerOf \in [Handled -> Workers] /\ scopeKind \in Kinds
    BY DEF ScopesInit
  <2>6. UNION {bare, wrote, lost, spoiled} \subseteq Handled
    BY RequestScopesAssumption DEF ScopesInit
  <2> QED
    BY <2>2, <2>3, <2>4, <2>5, <2>6 DEF ScopesTypeOK
<1>2. Live = {} /\ \A p \in Places : scopes[p] = Blank
  BY DEF ScopesInit, Live
<1>3. App \in Places /\ \A r \in Handled : r \in Places
  BY DEF Places
<1>4. \A w \in Workers : w \in Places
  BY DEF Places
<1>5. HostContents(Blank) /\ Blank.request = Unset /\ \A r \in Handled : OwnContents(r, Blank) /\ OfRequest(r, Blank)
  BY DEF HostContents, OwnContents, OfRequest, Blank
<1>6. \A r \in Handled : kept[r] = Blank /\ event[r] = Blank /\ handling[r] = "new"
  BY DEF ScopesInit
<1>7. wrote = {} /\ lost = {} /\ spoiled = {}
  BY DEF ScopesInit
<1>8. KindInv
  <2>1. OwnInv
    BY <1>2, <1>3, <1>5, <1>6, <1>7 DEF OwnInv
  <2>2. ContextInv
    BY <1>2, <1>3, <1>5 DEF ContextInv
  <2>3. ThreadInv
    BY <1>2, <1>3, <1>4, <1>5, <1>6 DEF ThreadInv
  <2>4. PutBack
    BY <1>2, <1>3, <1>4, <1>5 DEF PutBack
  <2>5. SwappedInv
    BY <2>4, <1>6 DEF SwappedInv
  <2>6. LockedInv
    BY <2>4, <1>2, <1>6 DEF LockedInv
  <2>7. GlobalInv
    BY <1>2 DEF GlobalInv
  <2>8. AmbientInv
    BY <1>2, <1>3, <1>5, <1>7 DEF AmbientInv
  <2> QED
    BY <2>1, <2>2, <2>3, <2>5, <2>6, <2>7, <2>8 DEF KindInv
<1>9. NothingForeign
  BY <1>5, <1>6 DEF NothingForeign, OwnContents, OfRequest
<1> QED
  BY <1>1, <1>2, <1>7, <1>8, <1>9 DEF ScopesInv, OwnDataPresent

LEMMA PlaceExists == ASSUME ScopesTypeOK, NEW r \in Handled PROVE Place(r) \in Places
  BY DEF Place, Places, AsyncPlace, AmbientPlace, ScopesTypeOK

\* The steps of one request.
RequestStep(r) ==
  Begin(r) \/ SetTag(r) \/ SetUser(r) \/ CaptureEvent(r) \/ Suspend(r) \/ Resume(r)
  \/ \E panics \in BOOLEAN : End(r, panics)

LEMMA ContentsTyped ==
  ASSUME NEW c \in Contents, NEW r \in Handled
  PROVE  /\ [c EXCEPT !.request = r] \in Contents /\ [Blank EXCEPT !.request = r] \in Contents
         /\ [c EXCEPT !.tags = @ \cup {r}] \in Contents /\ [c EXCEPT !.user = r] \in Contents
         /\ [c EXCEPT !.tags = @ \cup {App}, !.user = App] \in Contents
         /\ Blank \in Contents
  BY DEF Contents, Blank, Owners

\* What a step of r leaves in a place.
LEMMA PlacesTyped ==
  ASSUME ScopesTypeOK, NEW r \in Handled
  PROVE  /\ Opened(r) => scopes' \in [Places -> Contents]
         /\ ContextOnly(r) => scopes' \in [Places -> Contents]
         /\ GivenBack(r) => scopes' \in [Places -> Contents]
         /\ SetTag(r) => scopes' \in [Places -> Contents]
         /\ SetUser(r) => scopes' \in [Places -> Contents]
<1>1. Place(r) \in Places /\ scopes \in [Places -> Contents] /\ kept[r] \in Contents
  BY PlaceExists DEF ScopesTypeOK
<1>2. scopes[Place(r)] \in Contents
  BY <1>1
<1>3. Opened(r) => scopes' \in [Places -> Contents]
  BY <1>1, <1>2, ContentsTyped DEF Opened
<1>4. ContextOnly(r) => scopes' \in [Places -> Contents]
  BY <1>1, <1>2, ContentsTyped DEF ContextOnly
<1>5. GivenBack(r) => scopes' \in [Places -> Contents]
  BY <1>1 DEF GivenBack
<1>6. SetTag(r) => scopes' \in [Places -> Contents]
  BY <1>1, <1>2, ContentsTyped DEF SetTag
<1>7. SetUser(r) => scopes' \in [Places -> Contents]
  BY <1>1, <1>2, ContentsTyped DEF SetUser
<1> QED
  BY <1>3, <1>4, <1>5, <1>6, <1>7

LEMMA ScopesTyped == ScopesTypeOK /\ ScopesNext => ScopesTypeOK'
<1> SUFFICES ASSUME ScopesTypeOK, ScopesNext PROVE ScopesTypeOK'
  OBVIOUS
<1>1. ASSUME NEW r \in Handled, Begin(r) PROVE ScopesTypeOK'
  <2>1. scopes' \in [Places -> Contents]
    BY <1>1, PlacesTyped DEF Begin, ScopesTypeOK
  <2>2. scopes[Place(r)] \in Contents
    BY PlaceExists DEF ScopesTypeOK
  <2> QED
    BY <1>1, <2>1, <2>2 DEF Begin, ScopesTypeOK
<1>2. ASSUME NEW r \in Handled, SetTag(r) PROVE ScopesTypeOK'
  BY <1>2, PlacesTyped DEF SetTag, ScopesTypeOK
<1>3. ASSUME NEW r \in Handled, SetUser(r) PROVE ScopesTypeOK'
  BY <1>3, PlacesTyped DEF SetUser, ScopesTypeOK
<1>4. ASSUME NEW r \in Handled, CaptureEvent(r) PROVE ScopesTypeOK'
  <2>1. EventOf(r) \in Contents
    BY PlaceExists DEF EventOf, ScopesTypeOK, Places
  <2> QED
    BY <1>4, <2>1 DEF CaptureEvent, ScopesTypeOK
<1>5. ASSUME NEW r \in Handled, Suspend(r) PROVE ScopesTypeOK'
  <2>1. scopes' \in [Places -> Contents]
    BY <1>5, PlacesTyped DEF Suspend, ScopesTypeOK
  <2> QED
    BY <1>5, <2>1 DEF Suspend, ScopesTypeOK
<1>6. ASSUME NEW r \in Handled, Resume(r) PROVE ScopesTypeOK'
  BY <1>6 DEF Resume, ScopesTypeOK
<1>7. ASSUME NEW r \in Handled, NEW panics \in BOOLEAN, End(r, panics) PROVE ScopesTypeOK'
  <2>1. scopes' \in [Places -> Contents]
    BY <1>7, PlacesTyped DEF End, ScopesTypeOK
  <2>2. Blank \in Contents
    BY ContentsTyped DEF Contents, Blank
  <2> QED
    BY <1>7, <2>1, <2>2 DEF End, ScopesTypeOK
<1>8. CASE HostWrites
  <2>1. App \in Places
    BY DEF Places
  <2>2. scopes[App] \in Contents
    BY <2>1 DEF ScopesTypeOK
  <2>3. scopes' = [scopes EXCEPT ![App] = [scopes[App] EXCEPT !.tags = @ \cup {App}, !.user = App]]
    BY <1>8, <2>1, <2>2 DEF HostWrites, ScopesTypeOK, Contents
  <2>4. [scopes[App] EXCEPT !.tags = @ \cup {App}, !.user = App] \in Contents
    BY <2>2 DEF Contents, Owners
  <2> QED
    BY <1>8, <2>3, <2>4 DEF HostWrites, ScopesTypeOK
<1> QED
  BY <1>1, <1>2, <1>3, <1>4, <1>5, <1>6, <1>7, <1>8 DEF ScopesNext

\* The kind, the threads and the requests without a context are chosen once.
LEMMA ChosenOnce ==
  ScopesNext => scopeKind' = scopeKind /\ bare' = bare /\ workerOf' = workerOf
  BY DEF ScopesNext, Begin, SetTag, SetUser, CaptureEvent, Suspend, Resume, End, HostWrites

LEMMA ScopesSteps ==
  ScopesNext => HostWrites \/ \E r \in Handled : RequestStep(r)
  BY DEF ScopesNext, RequestStep

\* A step of r writes in the place of r, and moves no other request.
LEMMA WritesItsPlace ==
  ASSUME ScopesTypeOK, NEW r \in Handled, RequestStep(r)
  PROVE  /\ \A p \in Places : p # Place(r) => scopes'[p] = scopes[p]
         /\ \A q \in Handled : q # r => handling'[q] = handling[q] /\ kept'[q] = kept[q]
         /\ \A q \in Handled : q # r => (q \in wrote' <=> q \in wrote)
<1>1. Opened(r) \/ ContextOnly(r) \/ GivenBack(r) \/ SetTag(r) \/ SetUser(r) \/ UNCHANGED scopes
  BY DEF RequestStep, Begin, CaptureEvent, Suspend, Resume, End
<1>2. \A p \in Places : p # Place(r) => scopes'[p] = scopes[p]
  BY <1>1 DEF Opened, ContextOnly, GivenBack, SetTag, SetUser, ScopesTypeOK
<1>3. \A q \in Handled : q # r => handling'[q] = handling[q] /\ kept'[q] = kept[q]
  BY DEF RequestStep, Begin, SetTag, SetUser, CaptureEvent, Suspend, Resume, End, ScopesTypeOK
<1>4. \A q \in Handled : q # r => (q \in wrote' <=> q \in wrote)
  BY DEF RequestStep, Begin, SetTag, SetUser, CaptureEvent, Suspend, Resume, End
<1> QED
  BY <1>2, <1>3, <1>4

\* A middleware opens an empty scope.
LEMMA Opens ==
  ASSUME ScopesTypeOK, wrote \subseteq Live, NEW r \in Handled, Begin(r), r \notin bare,
         scopeKind \notin {"global", "ambient"}
  PROVE  /\ OwnContents(r, scopes'[Place(r)]) /\ OfRequest(r, scopes'[Place(r)])
         /\ r \notin wrote' /\ kept'[r] = scopes[Place(r)] /\ handling'[r] = "running"
<1>1. Place(r) \in Places
  BY PlaceExists
<1>2. scopes'[Place(r)] = [Blank EXCEPT !.request = r]
  BY <1>1 DEF Begin, Opened, ScopesTypeOK
<1>3. OwnContents(r, scopes'[Place(r)]) /\ OfRequest(r, scopes'[Place(r)])
  BY <1>2 DEF OwnContents, OfRequest, Blank
<1> QED
  BY <1>3 DEF Begin, ScopesTypeOK, Live

\* The code of r adds what is of r.
LEMMA Works ==
  ASSUME ScopesTypeOK, NEW r \in Handled,
         SetTag(r) \/ SetUser(r) \/ CaptureEvent(r) \/ Resume(r)
  PROVE  /\ OwnContents(r, scopes[Place(r)]) => OwnContents(r, scopes'[Place(r)])
         /\ scopes'[Place(r)].request = scopes[Place(r)].request
         /\ (r \in wrote => r \in scopes[Place(r)].tags)
              => (r \in wrote' => r \in scopes'[Place(r)].tags)
         /\ kept' = kept /\ spoiled' = spoiled /\ handling'[r] = "running"
         /\ scopes[Place(r)].tags \subseteq scopes'[Place(r)].tags
<1>1. Place(r) \in Places /\ scopes[Place(r)] \in Contents
  BY PlaceExists DEF ScopesTypeOK
<1>2. CASE SetTag(r)
  <2>1. scopes'[Place(r)] = [scopes[Place(r)] EXCEPT !.tags = @ \cup {r}]
    BY <1>1, <1>2 DEF SetTag, ScopesTypeOK
  <2> QED
    BY <1>1, <1>2, <2>1 DEF SetTag, OwnContents, Contents
<1>3. CASE SetUser(r)
  <2>1. scopes'[Place(r)] = [scopes[Place(r)] EXCEPT !.user = r]
    BY <1>1, <1>3 DEF SetUser, ScopesTypeOK
  <2> QED
    BY <1>1, <1>3, <2>1 DEF SetUser, OwnContents, Contents
<1>4. CASE CaptureEvent(r)
  BY <1>4 DEF CaptureEvent
<1>5. CASE Resume(r)
  BY <1>5 DEF Resume, ScopesTypeOK
<1> QED
  BY <1>2, <1>3, <1>4, <1>5

LEMMA HostWritesApp ==
  ASSUME ScopesTypeOK, HostWrites
  PROVE  /\ \A p \in Places : p # App => scopes'[p] = scopes[p]
         /\ HostContents(scopes[App]) => HostContents(scopes'[App])
         /\ scopes'[App].request = scopes[App].request /\ App \in scopes'[App].tags
         /\ Live = {} /\ UNCHANGED <<handling, kept, wrote, event, lost, spoiled>>
<1>1. App \in Places
  BY DEF Places
<1>2. scopes[App] \in Contents
  BY <1>1 DEF ScopesTypeOK
<1>3. scopes' = [scopes EXCEPT ![App] = [scopes[App] EXCEPT !.tags = @ \cup {App}, !.user = App]]
  BY <1>1, <1>2 DEF HostWrites, ScopesTypeOK, Contents
<1>4. scopes'[App] = [scopes[App] EXCEPT !.tags = @ \cup {App}, !.user = App]
  BY <1>1, <1>3 DEF ScopesTypeOK
<1>5. \A p \in Places : p # App => scopes'[p] = scopes[p]
  BY <1>3 DEF ScopesTypeOK
<1>6. scopes'[App].user = App /\ scopes'[App].tags = scopes[App].tags \cup {App}
  BY <1>2, <1>4 DEF Contents
<1>7. scopes'[App].request = scopes[App].request
  BY <1>2, <1>4 DEF Contents
<1> QED
  BY <1>5, <1>6, <1>7 DEF HostWrites, HostContents

\* In its own place a request finds what it left there.
LEMMA OwnKept == ScopesInv /\ scopeKind = "own" /\ ScopesNext => OwnInv'
<1> SUFFICES ASSUME ScopesInv, scopeKind = "own", ScopesNext PROVE OwnInv'
  OBVIOUS
<1>1. ScopesTypeOK /\ OwnInv /\ wrote \subseteq Live /\ bare' = bare
  BY ChosenOnce DEF ScopesInv, KindInv
<1>2. \A q \in Handled : q \in Places /\ q # App
  BY RequestScopesAssumption DEF Places
<1>3. CASE HostWrites
  BY <1>1, <1>2, <1>3, HostWritesApp DEF OwnInv, OwnContents, OfRequest
<1>4. ASSUME NEW r \in Handled, RequestStep(r) PROVE OwnInv'
  <2>1. Place(r) = IF r \in bare THEN App ELSE r
    BY DEF Place, AsyncPlace
  <2>2. ASSUME NEW q \in Handled, q # r \/ r \in bare
        PROVE  /\ OwnContents(q, scopes'[q]) /\ OfRequest(q, scopes'[q])
               /\ q \notin bare' => /\ OwnContents(q, kept'[q]) /\ OfRequest(q, kept'[q])
                                    /\ q \in wrote' => q \in scopes'[q].tags
    <3>1. q # Place(r)
      BY <1>2, <2>1, <2>2
    <3>2. scopes'[q] = scopes[q]
      BY <1>1, <1>2, <1>4, <3>1, WritesItsPlace
    <3>3. OwnContents(q, scopes'[q]) /\ OfRequest(q, scopes'[q])
      BY <1>1, <3>2 DEF OwnInv
    <3>4. q \notin bare => kept'[q] = kept[q] /\ (q \in wrote' <=> q \in wrote)
      BY <1>1, <1>4, <2>2, WritesItsPlace
    <3> QED
      BY <1>1, <3>2, <3>3, <3>4 DEF OwnInv
  <2>3. ASSUME r \notin bare
        PROVE  /\ OwnContents(r, scopes'[r]) /\ OfRequest(r, scopes'[r])
               /\ OwnContents(r, kept'[r]) /\ OfRequest(r, kept'[r])
               /\ r \in wrote' => r \in scopes'[r].tags
    <3>1. Place(r) = r
      BY <2>1, <2>3
    <3>2. /\ OwnContents(r, scopes[r]) /\ OfRequest(r, scopes[r])
          /\ OwnContents(r, kept[r]) /\ OfRequest(r, kept[r])
          /\ r \in wrote => r \in scopes[r].tags
      BY <1>1, <2>3 DEF OwnInv
    <3>3. CASE Begin(r)
      BY <1>1, <2>3, <3>1, <3>2, <3>3, Opens
    <3>4. CASE SetTag(r) \/ SetUser(r) \/ CaptureEvent(r) \/ Resume(r)
      BY <1>1, <3>1, <3>2, <3>4, Works DEF OfRequest
    <3>5. CASE Suspend(r)
      BY <3>2, <3>5 DEF Suspend
    <3>6. ASSUME NEW panics \in BOOLEAN, End(r, panics)
          PROVE  /\ scopes'[r] = kept[r] /\ kept'[r] = Blank /\ r \notin wrote'
      BY <1>1, <1>2, <2>3, <3>1, <3>6 DEF End, Abandoned, GivenBack, ScopesTypeOK
    <3>7. OwnContents(r, Blank) /\ OfRequest(r, Blank)
      BY DEF OwnContents, OfRequest, Blank
    <3> QED
      BY <1>4, <3>2, <3>3, <3>4, <3>5, <3>6, <3>7 DEF RequestStep
  <2>4. \A q \in Handled :
          /\ OwnContents(q, scopes'[q]) /\ OfRequest(q, scopes'[q])
          /\ q \notin bare' => /\ OwnContents(q, kept'[q]) /\ OfRequest(q, kept'[q])
                               /\ q \in wrote' => q \in scopes'[q].tags
    BY <1>1, <2>2, <2>3
  <2> QED
    BY <2>4 DEF OwnInv, OwnContents, OfRequest
<1> QED
  BY <1>3, <1>4, ScopesSteps

\* Only a request without a context and the host write in the global place.
LEMMA ContextKept == ScopesInv /\ scopeKind = "context" /\ ScopesNext => ContextInv'
<1> SUFFICES ASSUME ScopesInv, scopeKind = "context", ScopesNext PROVE ContextInv'
  OBVIOUS
<1>1. ScopesTypeOK /\ ContextInv /\ bare' = bare
  BY ChosenOnce DEF ScopesInv, KindInv
<1>2. App \in Places /\ \A q \in Handled : q # App
  BY RequestScopesAssumption DEF Places
<1>3. CASE HostWrites
  BY <1>1, <1>3, HostWritesApp DEF ContextInv, HostContents
<1>4. ASSUME NEW r \in Handled, RequestStep(r) PROVE ContextInv'
  <2>1. Place(r) = IF r \in bare THEN App ELSE r
    BY DEF Place, AsyncPlace
  <2>2. CASE r \notin bare
    <3>1. scopes'[App] = scopes[App]
      BY <1>1, <1>2, <1>4, <2>1, <2>2, WritesItsPlace
    <3> QED
      BY <1>1, <3>1 DEF ContextInv, HostContents
  <2>3. CASE r \in bare
    <3>1. scopes'[App].request = scopes[App].request
      <4>1. CASE SetTag(r) \/ SetUser(r) \/ CaptureEvent(r) \/ Resume(r)
        BY <1>1, <2>1, <2>3, <4>1, Works
      <4>2. CASE Begin(r) \/ Suspend(r) \/ \E panics \in BOOLEAN : End(r, panics)
        BY <2>3, <4>2 DEF Begin, Suspend, End, GivenBack
      <4> QED
        BY <1>4, <4>1, <4>2 DEF RequestStep
    <3> QED
      BY <1>1, <2>3, <3>1 DEF ContextInv
  <2> QED
    BY <2>2, <2>3
<1> QED
  BY <1>3, <1>4, ScopesSteps

\* Requests of a thread follow one another.
LEMMA ThreadKept == ScopesInv /\ scopeKind = "thread" /\ ScopesNext => ThreadInv'
<1> SUFFICES ASSUME ScopesInv, scopeKind = "thread", ScopesNext PROVE ThreadInv'
  OBVIOUS
<1>1. /\ ScopesTypeOK /\ ThreadInv /\ wrote \subseteq Live /\ Live \cap bare \subseteq spoiled
      /\ bare' = bare /\ workerOf' = workerOf
  BY ChosenOnce DEF ScopesInv, KindInv
<1>2. App \in Places /\ \A w \in Workers : w \in Places /\ w # App
  BY RequestScopesAssumption DEF Places
<1>3. CASE HostWrites
  <2>1. /\ \A w \in Workers : scopes'[w] = scopes[w]
        /\ HostContents(scopes'[App])
        /\ Live = {} /\ UNCHANGED <<handling, kept, wrote, spoiled>>
    BY <1>1, <1>2, <1>3, HostWritesApp DEF ThreadInv
  <2>2. Live' = {}
    BY <2>1 DEF Live
  <2>3. \A r \in Handled : handling'[r] # "suspended"
    BY <1>1, <2>1 DEF ThreadInv
  <2>4. bare' = {} => \A w \in Workers : HostContents(scopes'[w])
    BY <1>1, <2>1 DEF ThreadInv
  <2> QED
    BY <2>1, <2>2, <2>3, <2>4 DEF ThreadInv, HostContents
<1>4. ASSUME NEW r \in Handled, RequestStep(r) PROVE ThreadInv'
  <2>1. Place(r) = workerOf[r] /\ workerOf[r] \in Workers
    BY <1>1 DEF Place, ScopesTypeOK
  <2>2. /\ scopes'[App] = scopes[App]
        /\ \A w \in Workers : w # workerOf[r] => scopes'[w] = scopes[w]
    BY <1>1, <1>2, <1>4, <2>1, WritesItsPlace
  <2>3. ~Suspend(r) /\ ~Resume(r)
    BY <1>1 DEF Suspend, Resume, ThreadInv
  <2>4. /\ handling'[r] \in {"running", "done"}
        /\ handling'[r] = "done" <=> \E panics \in BOOLEAN : End(r, panics)
        /\ handling[r] = "running" <=> ~Begin(r)
    BY <1>1, <1>4, <2>3
       DEF RequestStep, Begin, SetTag, SetUser, CaptureEvent, End, ScopesTypeOK
  <2>5. \A q \in Handled : q # r => handling'[q] = handling[q] /\ kept'[q] = kept[q]
                                    /\ (q \in wrote' <=> q \in wrote)
    BY <1>1, <1>4, WritesItsPlace
  <2>6. \A q \in Live : q # r => workerOf[q] # workerOf[r]
    <3>1. CASE Begin(r)
      BY <3>1 DEF Begin, MayRun
    <3>2. CASE ~Begin(r)
      BY <1>1, <2>4, <3>2 DEF ThreadInv, Live
    <3> QED
      BY <3>1, <3>2
  <2>7. /\ \A q \in Live' : q # r => q \in Live
        /\ \A q \in Live : q # r => q \in Live'
    BY <2>5 DEF Live
  <2>8. \A q \in Handled : handling'[q] # "suspended"
    BY <1>1, <2>4, <2>5 DEF ThreadInv
  <2>9. \A p, q \in Live' : workerOf[p] = workerOf[q] => p = q
    BY <1>1, <2>6, <2>7 DEF ThreadInv
  <2>10. spoiled \subseteq spoiled' /\ (Begin(r) /\ r \in bare => r \in spoiled')
    BY <1>1, <1>4, <2>3 DEF RequestStep, Begin, SetTag, SetUser, CaptureEvent, End, ScopesTypeOK
  <2>11. \A q \in Live' \ spoiled' :
           /\ OwnContents(q, scopes'[workerOf[q]]) /\ OfRequest(q, scopes'[workerOf[q]])
           /\ q \in wrote' => q \in scopes'[workerOf[q]].tags
    <3>1. ASSUME NEW q \in Live' \ spoiled', q # r
          PROVE  /\ OwnContents(q, scopes'[workerOf[q]]) /\ OfRequest(q, scopes'[workerOf[q]])
                 /\ q \in wrote' => q \in scopes'[workerOf[q]].tags
      <4>1. q \in Live \ spoiled /\ workerOf[q] # workerOf[r] /\ q \in Handled
        BY <2>6, <2>7, <2>10, <3>1 DEF Live
      <4>2. scopes'[workerOf[q]] = scopes[workerOf[q]] /\ (q \in wrote' <=> q \in wrote)
        BY <1>1, <2>2, <2>5, <3>1, <4>1 DEF ScopesTypeOK
      <4> QED
        BY <1>1, <4>1, <4>2 DEF ThreadInv, Isolated
    <3>2. ASSUME r \in Live' \ spoiled'
          PROVE  /\ OwnContents(r, scopes'[workerOf[r]]) /\ OfRequest(r, scopes'[workerOf[r]])
                 /\ r \in wrote' => r \in scopes'[workerOf[r]].tags
      <4>1. CASE Begin(r)
        BY <1>1, <2>1, <2>10, <3>2, <4>1, Opens
      <4>2. CASE ~Begin(r)
        <5>1. r \in Live \ spoiled
          BY <2>4, <2>10, <3>2, <4>2 DEF Live
        <5>2. SetTag(r) \/ SetUser(r) \/ CaptureEvent(r) \/ Resume(r)
          BY <1>4, <2>3, <2>4, <3>2, <4>2 DEF RequestStep, Live
        <5>3. /\ OwnContents(r, scopes[workerOf[r]]) /\ OfRequest(r, scopes[workerOf[r]])
              /\ r \in wrote => r \in scopes[workerOf[r]].tags
          BY <1>1, <5>1 DEF ThreadInv, Isolated
        <5> QED
          BY <1>1, <2>1, <5>2, <5>3, Works DEF OfRequest
      <4> QED
        BY <4>1, <4>2
    <3> QED
      BY <3>1, <3>2
  <2>12. bare = {} => \A q \in Live' : HostContents(kept'[q])
    <3> SUFFICES ASSUME bare = {}, NEW q \in Live' PROVE HostContents(kept'[q])
      OBVIOUS
    <3>1. CASE q # r
      BY <1>1, <2>5, <2>7, <3>1 DEF ThreadInv, Live
    <3>2. CASE q = r /\ Begin(r)
      <4>1. \A p \in Live : workerOf[p] # workerOf[r]
        BY <2>6, <3>2 DEF Begin, Live
      <4>2. HostContents(scopes[workerOf[r]])
        BY <1>1, <2>1, <4>1 DEF ThreadInv
      <4>3. kept'[r] = scopes[workerOf[r]]
        BY <1>1, <2>1, <3>2 DEF Begin, ScopesTypeOK
      <4> QED
        BY <3>2, <4>2, <4>3
    <3>3. CASE q = r /\ ~Begin(r)
      <4>1. SetTag(r) \/ SetUser(r) \/ CaptureEvent(r) \/ Resume(r)
        BY <1>4, <2>3, <2>4, <3>3 DEF RequestStep, Live
      <4>2. kept' = kept /\ r \in Live
        BY <1>1, <2>4, <3>3, <4>1, Works DEF Live
      <4> QED
        BY <1>1, <3>3, <4>2 DEF ThreadInv
    <3> QED
      BY <3>1, <3>2, <3>3
  <2>13. bare = {} => \A w \in Workers :
           (\A q \in Live' : workerOf[q] # w) => HostContents(scopes'[w])
    <3> SUFFICES ASSUME bare = {}, NEW w \in Workers, \A q \in Live' : workerOf[q] # w
                 PROVE  HostContents(scopes'[w])
      OBVIOUS
    <3>1. CASE w # workerOf[r]
      <4>1. \A q \in Live : workerOf[q] # w
        BY <2>7, <3>1
      <4> QED
        BY <1>1, <2>2, <3>1, <4>1 DEF ThreadInv
    <3>2. CASE w = workerOf[r]
      <4>1. r \notin Live' /\ handling'[r] = "done"
        BY <2>4, <3>2 DEF Live
      <4>2. PICK panics \in BOOLEAN : End(r, panics)
        BY <2>4, <4>1
      <4>3. scopes'[workerOf[r]] = kept[r]
        BY <1>1, <1>2, <2>1, <4>2 DEF End, Abandoned, GivenBack, ScopesTypeOK
      <4>4. r \in Live
        BY <4>2 DEF End, Live
      <4> QED
        BY <1>1, <3>2, <4>3, <4>4 DEF ThreadInv
    <3> QED
      BY <3>1, <3>2
  <2>14. HostContents(scopes'[App])
    BY <1>1, <2>2 DEF ThreadInv
  <2> QED
    BY <1>1, <2>8, <2>9, <2>11, <2>12, <2>13, <2>14
       DEF ThreadInv, Isolated, OwnContents, OfRequest, HostContents
<1> QED
  BY <1>3, <1>4, ScopesSteps

\* What the shared place keeps of the requests that have ended.
LEMMA PutBackKept ==
  ASSUME ScopesTypeOK, PutBack, Live \cap bare \subseteq spoiled,
         scopeKind \in {"swapped", "locked"}, NEW r \in Handled, RequestStep(r),
         Begin(r) /\ Live # {} => spoiled' # {}, Suspend(r) => spoiled' # {}
  PROVE  PutBack'
<1>1. App \in Places /\ \A w \in Workers : w \in Places /\ w # App
  BY RequestScopesAssumption DEF Places
<1>2. Place(r) = App
  BY DEF Place
<1>3. \A w \in Workers : HostContents(scopes'[w])
  BY <1>1, <1>2, WritesItsPlace DEF PutBack
<1>4. ASSUME spoiled' = {}
      PROVE  (\A q \in Live' : HostContents(kept'[q])) /\ (Live' = {} => HostContents(scopes'[App]))
  <2>1. spoiled = {} /\ ~Suspend(r)
    <3>1. spoiled \subseteq spoiled'
      BY DEF RequestStep, Begin, SetTag, SetUser, CaptureEvent, Suspend, Resume, End, ScopesTypeOK
    <3> QED
      BY <1>4, <3>1
  <2>2. \A q \in Handled : q # r => handling'[q] = handling[q] /\ kept'[q] = kept[q]
    BY WritesItsPlace
  <2>3. /\ \A q \in Live : HostContents(kept[q])
        /\ Live = {} => HostContents(scopes[App])
    BY <2>1 DEF PutBack
  <2>4. CASE Begin(r)
    <3>1. kept'[r] = scopes[App] /\ r \in Live' /\ Live = {}
      BY <1>2, <1>4, <2>4 DEF Begin, Live, ScopesTypeOK
    <3> QED
      BY <2>2, <2>3, <3>1 DEF Live
  <2>5. CASE SetTag(r) \/ SetUser(r) \/ CaptureEvent(r) \/ Resume(r)
    <3>1. kept' = kept /\ r \in Live' /\ r \in Live
      BY <2>5, Works DEF SetTag, SetUser, CaptureEvent, Resume, Live
    <3> QED
      BY <2>2, <2>3, <3>1 DEF Live
  <2>6. ASSUME NEW panics \in BOOLEAN, End(r, panics)
        PROVE  (\A q \in Live' : HostContents(kept'[q])) /\ (Live' = {} => HostContents(scopes'[App]))
    <3>1. r \in Live /\ r \notin Live' /\ r \notin bare /\ r \notin spoiled
      BY <2>1, <2>6 DEF End, Live, ScopesTypeOK
    <3>2. scopeKind = "locked" => ~panics
      BY <1>4, <2>6 DEF End
    <3>3. scopes'[App] = kept[r]
      BY <1>1, <1>2, <2>6, <3>1, <3>2 DEF End, Abandoned, GivenBack, ScopesTypeOK
    <3> QED
      BY <2>2, <2>3, <3>1, <3>3 DEF Live
  <2> QED
    BY <2>1, <2>4, <2>5, <2>6 DEF RequestStep
<1> QED
  BY <1>3, <1>4 DEF PutBack, HostContents

LEMMA PutBackHost ==
  ASSUME ScopesTypeOK, PutBack, HostWrites PROVE PutBack'
<1>1. App \in Places /\ \A w \in Workers : w \in Places /\ w # App
  BY RequestScopesAssumption DEF Places
<1>2. /\ \A w \in Workers : scopes'[w] = scopes[w]
      /\ HostContents(scopes[App]) => HostContents(scopes'[App])
      /\ Live = {} /\ UNCHANGED <<handling, kept, spoiled>>
  BY <1>1, HostWritesApp
<1>3. Live' = {}
  BY <1>2 DEF Live
<1> QED
  BY <1>2, <1>3 DEF PutBack, HostContents

LEMMA SwappedKept == ScopesInv /\ scopeKind = "swapped" /\ ScopesNext => SwappedInv'
<1> SUFFICES ASSUME ScopesInv, scopeKind = "swapped", ScopesNext PROVE SwappedInv'
  OBVIOUS
<1>1. /\ ScopesTypeOK /\ SwappedInv /\ wrote \subseteq Live /\ Live \cap bare \subseteq spoiled
      /\ bare' = bare
  BY ChosenOnce DEF ScopesInv, KindInv
<1>2. CASE HostWrites
  <2>1. Live = {} /\ UNCHANGED <<handling, spoiled>>
    BY <1>1, <1>2, HostWritesApp
  <2>2. \A r \in Handled : handling'[r] # "running" /\ handling'[r] # "suspended"
    BY <2>1 DEF Live
  <2>3. PutBack'
    BY <1>1, <1>2, PutBackHost DEF SwappedInv
  <2> QED
    BY <2>2, <2>3 DEF SwappedInv
<1>3. ASSUME NEW r \in Handled, RequestStep(r) PROVE SwappedInv'
  <2>1. Place(r) = App
    BY DEF Place
  <2>2. spoiled \subseteq spoiled'
    BY <1>1, <1>3
       DEF RequestStep, Begin, SetTag, SetUser, CaptureEvent, Suspend, Resume, End, ScopesTypeOK
  <2>3. \A q \in Handled : q # r => handling'[q] = handling[q]
    BY <1>1, <1>3, WritesItsPlace
  <2>4. \A q \in Handled : q # r => handling[q] # "running"
    <3>1. CASE Begin(r) \/ Resume(r)
      BY <3>1 DEF Begin, Resume, MayRun, Live
    <3>2. CASE ~(Begin(r) \/ Resume(r))
      <4>1. handling[r] = "running"
        BY <1>3, <3>2 DEF RequestStep, SetTag, SetUser, CaptureEvent, Suspend, End
      <4> QED
        BY <1>1, <4>1 DEF SwappedInv
    <3> QED
      BY <3>1, <3>2
  <2>5. handling'[r] = "suspended" => r \in spoiled'
    BY <1>1, <1>3
       DEF RequestStep, Begin, SetTag, SetUser, CaptureEvent, Suspend, Resume, End, ScopesTypeOK
  <2>6. \A q \in Handled : handling'[q] = "suspended" => q \in spoiled'
    BY <1>1, <2>2, <2>3, <2>5 DEF SwappedInv
  <2>7. \A p, q \in Handled : handling'[p] = "running" /\ handling'[q] = "running" => p = q
    BY <2>3, <2>4
  <2>8. ASSUME r \notin spoiled', handling'[r] = "running"
        PROVE  /\ OwnContents(r, scopes'[App]) /\ OfRequest(r, scopes'[App])
               /\ r \in wrote' => r \in scopes'[App].tags
    <3>1. CASE Begin(r)
      <4>1. r \notin bare
        BY <2>8, <3>1 DEF Begin
      <4> QED
        BY <1>1, <2>1, <3>1, <4>1, Opens
    <3>2. CASE ~Begin(r)
      <4>1. SetTag(r) \/ SetUser(r) \/ CaptureEvent(r)
        BY <1>1, <1>3, <2>2, <2>8, <3>2
           DEF RequestStep, Suspend, Resume, End, ScopesTypeOK, SwappedInv
      <4>2. handling[r] = "running" /\ r \notin spoiled
        BY <2>2, <2>8, <4>1 DEF SetTag, SetUser, CaptureEvent
      <4>3. /\ OwnContents(r, scopes[App]) /\ OfRequest(r, scopes[App])
            /\ r \in wrote => r \in scopes[App].tags
        BY <1>1, <4>2 DEF SwappedInv, Isolated
      <4> QED
        BY <1>1, <2>1, <4>1, <4>3, Works DEF OfRequest
    <3> QED
      BY <3>1, <3>2
  <2>9. \A q \in Handled \ spoiled' : handling'[q] = "running" =>
          /\ OwnContents(q, scopes'[App]) /\ OfRequest(q, scopes'[App])
          /\ q \in wrote' => q \in scopes'[App].tags
    BY <2>3, <2>4, <2>8
  <2>10. Begin(r) /\ Live # {} => spoiled' # {}
    BY <1>1, <2>2 DEF Begin, MayRun, SwappedInv, Live
  <2>11. Suspend(r) => spoiled' # {}
    BY DEF Suspend
  <2>12. PutBack'
    BY <1>1, <1>3, <2>10, <2>11, PutBackKept DEF SwappedInv
  <2> QED
    BY <2>6, <2>7, <2>9, <2>12 DEF SwappedInv, Isolated, OwnContents, OfRequest
<1> QED
  BY <1>2, <1>3, ScopesSteps

LEMMA LockedKept == ScopesInv /\ scopeKind = "locked" /\ ScopesNext => LockedInv'
<1> SUFFICES ASSUME ScopesInv, scopeKind = "locked", ScopesNext PROVE LockedInv'
  OBVIOUS
<1>1. /\ ScopesTypeOK /\ LockedInv /\ wrote \subseteq Live /\ Live \cap bare \subseteq spoiled
      /\ bare' = bare
  BY ChosenOnce DEF ScopesInv, KindInv
<1>2. CASE HostWrites
  <2>1. Live = {} /\ UNCHANGED <<handling, spoiled>>
    BY <1>1, <1>2, HostWritesApp
  <2>2. Live' = {}
    BY <2>1 DEF Live
  <2>3. PutBack'
    BY <1>1, <1>2, PutBackHost DEF LockedInv
  <2> QED
    BY <1>1, <2>1, <2>2, <2>3 DEF LockedInv
<1>3. ASSUME NEW r \in Handled, RequestStep(r) PROVE LockedInv'
  <2>1. Place(r) = App /\ ~Suspend(r) /\ ~Resume(r)
    BY <1>1 DEF Place, Suspend, Resume, LockedInv
  <2>2. spoiled \subseteq spoiled'
    BY <1>1, <1>3, <2>1
       DEF RequestStep, Begin, SetTag, SetUser, CaptureEvent, End, ScopesTypeOK
  <2>3. \A q \in Handled : q # r => handling'[q] = handling[q]
    BY <1>1, <1>3, WritesItsPlace
  <2>4. \A q \in Handled : handling'[q] # "suspended"
    BY <1>1, <1>3, <2>1, <2>3
       DEF RequestStep, Begin, SetTag, SetUser, CaptureEvent, End, ScopesTypeOK, LockedInv
  <2>5. \A q \in Live' \ spoiled' : q = r
    <3> SUFFICES ASSUME NEW q \in Live' \ spoiled', q # r PROVE FALSE
      OBVIOUS
    <3>1. q \in Live \ spoiled
      BY <2>2, <2>3 DEF Live
    <3>2. Live = {q}
      BY <1>1, <3>1 DEF LockedInv
    <3>3. Begin(r)
      BY <1>3, <2>1, <3>2 DEF RequestStep, SetTag, SetUser, CaptureEvent, End, Live
    <3>4. spoiled' = spoiled \cup (IF r \in bare THEN {r} ELSE {}) \cup Handled
      BY <3>2, <3>3 DEF Begin
    <3> QED
      BY <3>4 DEF Live
  <2>6. ASSUME r \in Live' \ spoiled'
        PROVE  /\ Live' = {r}
               /\ OwnContents(r, scopes'[App]) /\ OfRequest(r, scopes'[App])
               /\ r \in wrote' => r \in scopes'[App].tags
    <3>1. CASE Begin(r)
      <4>1. r \notin bare /\ Live = {}
        BY <2>6, <3>1 DEF Begin
      <4>2. Live' = {r}
        BY <2>3, <2>6, <4>1 DEF Live
      <4> QED
        BY <1>1, <2>1, <3>1, <4>1, <4>2, Opens
    <3>2. CASE ~Begin(r)
      <4>1. SetTag(r) \/ SetUser(r) \/ CaptureEvent(r) \/ Resume(r)
        BY <1>1, <1>3, <2>1, <2>6, <3>2 DEF RequestStep, End, ScopesTypeOK, Live
      <4>2. r \in Live /\ r \notin spoiled
        BY <2>1, <2>2, <2>6, <4>1 DEF SetTag, SetUser, CaptureEvent, Live
      <4>3. /\ OwnContents(r, scopes[App]) /\ OfRequest(r, scopes[App]) /\ Live = {r}
            /\ r \in wrote => r \in scopes[App].tags
        BY <1>1, <4>2 DEF LockedInv, Isolated
      <4>4. Live' = {r}
        BY <2>3, <2>6, <4>3 DEF Live
      <4> QED
        BY <1>1, <2>1, <4>1, <4>3, <4>4, Works DEF OfRequest
    <3> QED
      BY <3>1, <3>2
  <2>7. Begin(r) /\ Live # {} => spoiled' # {}
    <3> SUFFICES ASSUME Begin(r), Live # {} PROVE spoiled' # {}
      OBVIOUS
    <3>1. spoiled' = spoiled \cup (IF r \in bare THEN {r} ELSE {}) \cup Handled
      BY DEF Begin
    <3> QED
      BY <3>1
  <2>8. PutBack'
    BY <1>1, <1>3, <2>1, <2>7, PutBackKept DEF LockedInv
  <2> QED
    BY <2>4, <2>5, <2>6, <2>8 DEF LockedInv, Isolated, OwnContents, OfRequest
<1> QED
  BY <1>2, <1>3, ScopesSteps

LEMMA GlobalKept == ScopesInv /\ scopeKind = "global" /\ ScopesNext => GlobalInv'
<1> SUFFICES ASSUME ScopesInv, scopeKind = "global", ScopesNext PROVE GlobalInv'
  OBVIOUS
<1>1. /\ ScopesTypeOK /\ GlobalInv /\ wrote \subseteq Live /\ bare' = bare
  BY ChosenOnce DEF ScopesInv, KindInv
<1>2. CASE HostWrites
  <2>1. Live = {} /\ UNCHANGED <<handling, spoiled>>
    BY <1>1, <1>2, HostWritesApp
  <2>2. Live' = {}
    BY <2>1 DEF Live
  <2> QED
    BY <2>2 DEF GlobalInv
<1>3. ASSUME NEW r \in Handled, RequestStep(r) PROVE GlobalInv'
  <2>1. Place(r) = App /\ App \in Places /\ scopes[App] \in Contents
    BY <1>1 DEF Place, Places, ScopesTypeOK
  <2>2. spoiled \subseteq spoiled'
    BY <1>1, <1>3
       DEF RequestStep, Begin, SetTag, SetUser, CaptureEvent, Suspend, Resume, End, ScopesTypeOK
  <2>3. \A q \in Handled : q # r => handling'[q] = handling[q]
    BY <1>1, <1>3, WritesItsPlace
  <2>4. \A q \in Live' \ spoiled' : q = r
    <3> SUFFICES ASSUME NEW q \in Live' \ spoiled', q # r PROVE FALSE
      OBVIOUS
    <3>1. q \in Live \ spoiled
      BY <2>2, <2>3 DEF Live
    <3>2. Live = {q}
      BY <1>1, <3>1 DEF GlobalInv
    <3>3. Begin(r)
      BY <1>3, <3>2 DEF RequestStep, SetTag, SetUser, CaptureEvent, Suspend, Resume, End, Live
    <3>4. Handled \subseteq spoiled'
      BY <3>2, <3>3 DEF Begin
    <3> QED
      BY <3>4 DEF Live
  <2>5. ASSUME r \in Live' \ spoiled'
        PROVE  /\ Live' = {r} /\ OfRequest(r, scopes'[App])
               /\ r \in wrote' => r \in scopes'[App].tags
    <3>1. CASE Begin(r)
      <4>1. r \notin bare /\ Live = {} /\ r \notin wrote'
        BY <1>1, <2>5, <3>1 DEF Begin, Live
      <4>2. Live' = {r}
        BY <2>3, <2>5, <4>1 DEF Live
      <4>3. scopes' = [scopes EXCEPT ![App] = [scopes[App] EXCEPT !.request = r]]
        BY <2>1, <3>1, <4>1 DEF Begin, ContextOnly
      <4>4. scopes'[App].request = r
        BY <1>1, <2>1, <4>3 DEF ScopesTypeOK, Contents
      <4> QED
        BY <4>1, <4>2, <4>4 DEF OfRequest
    <3>2. CASE ~Begin(r)
      <4>1. SetTag(r) \/ SetUser(r) \/ CaptureEvent(r) \/ Resume(r) \/ Suspend(r)
        BY <1>1, <1>3, <2>5, <3>2 DEF RequestStep, End, ScopesTypeOK, Live
      <4>2. r \in Live /\ r \notin spoiled
        BY <2>2, <2>5, <4>1 DEF SetTag, SetUser, CaptureEvent, Suspend, Resume, Live
      <4>3. /\ OfRequest(r, scopes[App]) /\ Live = {r}
            /\ r \in wrote => r \in scopes[App].tags
        BY <1>1, <4>2 DEF GlobalInv
      <4>4. Live' = {r}
        BY <2>3, <2>5, <4>3 DEF Live
      <4>5. CASE Suspend(r)
        BY <4>3, <4>4, <4>5 DEF Suspend, OfRequest
      <4>6. CASE ~Suspend(r)
        BY <1>1, <2>1, <4>1, <4>3, <4>4, <4>6, Works DEF OfRequest
      <4> QED
        BY <4>5, <4>6
    <3> QED
      BY <3>1, <3>2
  <2> QED
    BY <2>4, <2>5 DEF GlobalInv, OfRequest
<1> QED
  BY <1>2, <1>3, ScopesSteps

LEMMA AmbientKept == ScopesInv /\ scopeKind = "ambient" /\ ScopesNext => AmbientInv'
<1> SUFFICES ASSUME ScopesInv, scopeKind = "ambient", ScopesNext PROVE AmbientInv'
  OBVIOUS
<1>1. ScopesTypeOK /\ AmbientInv /\ wrote \subseteq Live /\ bare' = bare
  BY ChosenOnce DEF ScopesInv, KindInv
<1>2. App \in Places /\ \A q \in Handled : q \in Places /\ q # App
  BY RequestScopesAssumption DEF Places
<1>3. Blank.tags = {}
  BY DEF Blank
<1>4. CASE HostWrites
  <2>1. /\ \A q \in Handled : scopes'[q] = scopes[q]
        /\ App \in scopes'[App].tags
        /\ Live = {} /\ UNCHANGED <<handling, spoiled>>
    BY <1>1, <1>2, <1>4, HostWritesApp
  <2>2. Live' = {}
    BY <2>1 DEF Live
  <2>3. scopes'[App] # Blank
    BY <1>3, <2>1
  <2> QED
    BY <1>1, <2>1, <2>2, <2>3 DEF AmbientInv, OwnContents, OfRequest
<1>5. ASSUME NEW r \in Handled, RequestStep(r) PROVE AmbientInv'
  <2>1. Place(r) = IF scopes[App] = Blank THEN r ELSE App
    BY DEF Place, AmbientPlace
  <2>2. Place(r) \in Places /\ scopes[Place(r)] \in Contents
    BY <1>1, PlaceExists DEF ScopesTypeOK
  <2>3. /\ Begin(r) => UNCHANGED scopes \/ ContextOnly(r)
        /\ Suspend(r) \/ (\E panics \in BOOLEAN : End(r, panics)) => UNCHANGED scopes
    BY DEF Begin, Suspend, End, GivenBack
  <2>4. ContextOnly(r) => /\ scopes'[Place(r)].user = scopes[Place(r)].user
                          /\ scopes'[Place(r)].tags = scopes[Place(r)].tags
                          /\ scopes'[Place(r)].request = r
    <3> SUFFICES ASSUME ContextOnly(r)
                 PROVE  /\ scopes'[Place(r)].user = scopes[Place(r)].user
                        /\ scopes'[Place(r)].tags = scopes[Place(r)].tags
                        /\ scopes'[Place(r)].request = r
      OBVIOUS
    <3>1. scopes'[Place(r)] = [scopes[Place(r)] EXCEPT !.request = r]
      BY <1>1, <2>2 DEF ContextOnly, ScopesTypeOK
    <3> QED
      BY <2>2, <3>1 DEF Contents
  <2>5. \A q \in Handled : q # r => (q \in wrote' <=> q \in wrote)
    BY <1>1, <1>5, WritesItsPlace
  <2>6. CASE scopes[App] = Blank
    <3>1. Place(r) = r /\ scopes'[App] = Blank
      BY <1>1, <1>2, <1>5, <2>1, <2>6, WritesItsPlace
    <3>2. \A q \in Handled : q # r => scopes'[q] = scopes[q]
      BY <1>1, <1>2, <1>5, <3>1, WritesItsPlace
    <3>3. /\ OwnContents(r, scopes[r]) /\ OfRequest(r, scopes[r])
          /\ r \in wrote => r \in scopes[r].tags
      BY <1>1, <2>6 DEF AmbientInv
    <3>4. /\ OwnContents(r, scopes'[r]) /\ OfRequest(r, scopes'[r])
          /\ r \in wrote' => r \in scopes'[r].tags
      <4>1. CASE Begin(r)
        BY <2>3, <2>4, <3>1, <3>3, <4>1 DEF Begin, OwnContents, OfRequest
      <4>2. CASE SetTag(r) \/ SetUser(r) \/ CaptureEvent(r) \/ Resume(r)
        BY <1>1, <3>1, <3>3, <4>2, Works DEF OfRequest
      <4>3. CASE Suspend(r)
        BY <2>3, <3>3, <4>3 DEF Suspend
      <4>4. CASE \E panics \in BOOLEAN : End(r, panics)
        BY <2>3, <3>3, <4>4 DEF End
      <4> QED
        BY <1>5, <4>1, <4>2, <4>3, <4>4 DEF RequestStep
    <3>5. \A q \in Handled : OwnContents(q, scopes'[q]) /\ OfRequest(q, scopes'[q])
      BY <1>1, <3>2, <3>4 DEF AmbientInv
    <3>6. \A q \in wrote' : q \in scopes'[q].tags
      <4>1. wrote' \subseteq Handled
        BY <1>1, <1>5
           DEF RequestStep, Begin, SetTag, SetUser, CaptureEvent, Suspend, Resume, End,
               Live
      <4> QED
        BY <1>1, <2>5, <2>6, <3>2, <3>4, <4>1 DEF AmbientInv
    <3> QED
      BY <3>1, <3>5, <3>6 DEF AmbientInv, OwnContents, OfRequest
  <2>7. CASE scopes[App] # Blank
    <3>1. Place(r) = App /\ \A q \in Handled : scopes'[q] = scopes[q]
      BY <1>1, <1>2, <1>5, <2>1, <2>7, WritesItsPlace
    <3>2. App \in scopes[App].tags /\ Live \subseteq spoiled
      BY <1>1, <2>7 DEF AmbientInv
    <3>3. App \in scopes'[App].tags
      <4>1. CASE SetTag(r) \/ SetUser(r) \/ CaptureEvent(r) \/ Resume(r)
        BY <1>1, <3>1, <3>2, <4>1, Works
      <4>2. CASE ~(SetTag(r) \/ SetUser(r) \/ CaptureEvent(r) \/ Resume(r))
        BY <1>5, <2>3, <2>4, <3>1, <3>2, <4>2 DEF RequestStep
      <4> QED
        BY <4>1, <4>2
    <3>4. spoiled \subseteq spoiled' /\ (Begin(r) => r \in spoiled')
      BY <1>5, <3>1
         DEF RequestStep, Begin, SetTag, SetUser, CaptureEvent, Suspend, Resume, End
    <3>5. \A q \in Handled : q # r => handling'[q] = handling[q]
      BY <1>1, <1>5, WritesItsPlace
    <3>6. Begin(r) \/ r \in Live
      BY <1>5 DEF RequestStep, SetTag, SetUser, CaptureEvent, Suspend, Resume, End, Live
    <3>7. Live' \subseteq spoiled'
      BY <3>2, <3>4, <3>5, <3>6 DEF Live
    <3>8. scopes'[App] # Blank
      BY <1>3, <3>3
    <3> QED
      BY <1>1, <3>1, <3>3, <3>7, <3>8 DEF AmbientInv, OwnContents, OfRequest
  <2> QED
    BY <2>6, <2>7
<1> QED
  BY <1>4, <1>5, ScopesSteps

LEMMA KindsKept == ScopesInv /\ ScopesNext => KindInv'
<1> SUFFICES ASSUME ScopesInv, ScopesNext PROVE KindInv'
  OBVIOUS
<1>1. scopeKind' = scopeKind
  BY ChosenOnce
<1> QED
  BY <1>1, OwnKept, ContextKept, ThreadKept, SwappedKept, LockedKept, GlobalKept, AmbientKept
     DEF KindInv

\* What an event of a running request that nothing spoiled is made of.
LEMMA EventIsolated ==
  ASSUME ScopesInv, NEW r \in Handled, handling[r] = "running", r \notin spoiled
  PROVE  /\ OfRequest(r, EventOf(r))
         /\ scopeKind # "global" /\ (scopeKind = "context" => bare = {}) =>
              OwnContents(r, EventOf(r))
         /\ scopeKind # "context" /\ r \in wrote => r \in EventOf(r).tags
<1>1. /\ ScopesTypeOK /\ KindInv /\ r \in Live /\ r \notin bare /\ scopeKind \in Kinds
      /\ wrote \subseteq Live
  BY DEF ScopesInv, Live, ScopesTypeOK
<1>2. EventOf(r) = IF scopeKind = "context" THEN scopes[App] ELSE scopes[Place(r)]
  BY DEF EventOf
<1>3. CASE scopeKind = "own"
  <2>1. EventOf(r) = scopes[r]
    BY <1>1, <1>2, <1>3 DEF Place, AsyncPlace
  <2> QED
    BY <1>1, <1>3, <2>1 DEF KindInv, OwnInv
<1>4. CASE scopeKind = "context"
  BY <1>1, <1>2, <1>4 DEF KindInv, ContextInv, OfRequest, OwnContents, HostContents
<1>5. CASE scopeKind = "thread"
  <2>1. EventOf(r) = scopes[workerOf[r]]
    BY <1>2, <1>5 DEF Place
  <2> QED
    BY <1>1, <1>5, <2>1 DEF KindInv, ThreadInv, Isolated
<1>6. CASE scopeKind = "ambient"
  <2>1. scopes[App] = Blank
    BY <1>1, <1>6 DEF KindInv, AmbientInv
  <2>2. EventOf(r) = scopes[r]
    BY <1>2, <1>6, <2>1 DEF Place, AmbientPlace
  <2> QED
    BY <1>1, <1>6, <2>1, <2>2 DEF KindInv, AmbientInv
<1>7. ASSUME scopeKind \in {"swapped", "locked", "global"} PROVE EventOf(r) = scopes[App]
  BY <1>2, <1>7 DEF Place
<1>8. CASE scopeKind = "swapped"
  BY <1>1, <1>7, <1>8 DEF KindInv, SwappedInv, Isolated
<1>9. CASE scopeKind = "locked"
  BY <1>1, <1>7, <1>9 DEF KindInv, LockedInv, Isolated
<1>10. CASE scopeKind = "global"
  BY <1>1, <1>7, <1>10 DEF KindInv, GlobalInv, Isolated
<1> QED
  BY <1>1, <1>3, <1>4, <1>5, <1>6, <1>8, <1>9, <1>10, RequestScopesAssumption

LEMMA ScopesKept == ScopesInv /\ ScopesNext => ScopesInv'
<1> SUFFICES ASSUME ScopesInv, ScopesNext PROVE ScopesInv'
  OBVIOUS
<1>1. /\ ScopesTypeOK /\ Live \cap bare \subseteq spoiled /\ wrote \subseteq Live
      /\ NothingForeign /\ OwnDataPresent
  BY DEF ScopesInv
<1>2. scopeKind' = scopeKind /\ bare' = bare
  BY ChosenOnce
<1>3. ScopesTypeOK' /\ KindInv'
  BY <1>1, ScopesTyped, KindsKept
<1>4. CASE HostWrites
  <2>1. UNCHANGED <<handling, wrote, event, lost, spoiled>>
    BY <1>4 DEF HostWrites
  <2>2. Live' = Live
    BY <2>1 DEF Live
  <2> QED
    BY <1>1, <1>2, <1>3, <2>1, <2>2 DEF ScopesInv, NothingForeign, OwnDataPresent
<1>5. ASSUME NEW r \in Handled, RequestStep(r) PROVE ScopesInv'
  <2>1. \A q \in Handled : q # r => handling'[q] = handling[q] /\ (q \in wrote' <=> q \in wrote)
    BY <1>1, <1>5, WritesItsPlace
  <2>2. spoiled \subseteq spoiled' /\ (Begin(r) /\ r \in bare => r \in spoiled')
    BY <1>1, <1>5
       DEF RequestStep, Begin, SetTag, SetUser, CaptureEvent, Suspend, Resume, End, ScopesTypeOK
  <2>3. Begin(r) \/ r \in Live
    BY <1>5 DEF RequestStep, SetTag, SetUser, CaptureEvent, Suspend, Resume, End, Live
  <2>4. (Live \cap bare \subseteq spoiled)'
    BY <1>1, <1>2, <2>1, <2>2, <2>3 DEF Live
  <2>5. (wrote \subseteq Live)'
    <3>1. r \in wrote' => handling'[r] \in {"running", "suspended"}
      BY <1>1, <1>5
         DEF RequestStep, Begin, SetTag, SetUser, CaptureEvent, Suspend, Resume, End, Live,
             ScopesTypeOK
    <3>2. wrote' \subseteq Handled
      BY <1>3 DEF ScopesTypeOK
    <3> QED
      BY <1>1, <2>1, <3>1, <3>2 DEF Live
  <2>6. /\ lost' \subseteq lost \cup {r}
        /\ r \in lost' => \/ r \in lost
                          \/ CaptureEvent(r) /\ r \in wrote /\ r \notin EventOf(r).tags
    BY <1>5 DEF RequestStep, Begin, SetTag, SetUser, CaptureEvent, Suspend, Resume, End
  <2>7. OwnDataPresent'
    <3>1. CASE scopeKind = "context"
      BY <1>2, <3>1 DEF OwnDataPresent
    <3>2. CASE scopeKind # "context" /\ r \in lost' /\ r \notin lost
      <4>1. r \in spoiled
        BY <2>6, <3>2, EventIsolated DEF CaptureEvent
      <4> QED
        BY <1>1, <2>2, <2>6, <3>2, <4>1 DEF OwnDataPresent
    <3>3. CASE scopeKind # "context" /\ ~(r \in lost' /\ r \notin lost)
      BY <1>1, <2>2, <2>6, <3>3 DEF OwnDataPresent
    <3> QED
      BY <3>1, <3>2, <3>3
  <2>8. \A q \in Handled : event'[q] = event[q] \/ (q = r /\ CaptureEvent(r) /\ event'[r] = EventOf(r))
                           \/ event'[q] = Blank
    BY <1>1, <1>5
       DEF RequestStep, Begin, SetTag, SetUser, CaptureEvent, Suspend, Resume, End, ScopesTypeOK
  <2>9. NothingForeign'
    <3> SUFFICES ASSUME NEW q \in Handled, q \notin spoiled'
                 PROVE  /\ event'[q].request \in {q, Unset}
                        /\ scopeKind # "global" /\ (scopeKind = "context" => bare = {}) =>
                             event'[q].user \in {q, App, Unset} /\ event'[q].tags \subseteq {q, App}
      BY <1>2 DEF NothingForeign
    <3>1. CASE event'[q] = event[q]
      BY <1>1, <2>2, <3>1 DEF NothingForeign
    <3>2. CASE event'[q] = Blank
      BY <3>2 DEF Blank
    <3>3. CASE q = r /\ CaptureEvent(r) /\ event'[r] = EventOf(r)
      <4>1. handling[r] = "running" /\ r \notin spoiled
        BY <2>2, <3>3 DEF CaptureEvent
      <4> QED
        BY <3>3, <4>1, EventIsolated DEF OfRequest, OwnContents
    <3> QED
      BY <2>8, <3>1, <3>2, <3>3
  <2> QED
    BY <1>3, <2>4, <2>5, <2>7, <2>9 DEF ScopesInv
<1> QED
  BY <1>4, <1>5, ScopesSteps

\* Where scopes are given back, the invariants say what is left.
LEMMA LeftBehind == ScopesInv => GivenBackAtEnd
<1> SUFFICES ASSUME ScopesInv, Live = {}, spoiled = {}, bare = {},
                    scopeKind \in {"swapped", "locked", "thread"},
                    NEW p \in Workers \cup {App}
             PROVE  HostContents(scopes[p])
  BY DEF GivenBackAtEnd, HostContents
<1>1. KindInv
  BY DEF ScopesInv
<1>2. CASE scopeKind = "thread"
  BY <1>1, <1>2 DEF KindInv, ThreadInv
<1>3. CASE scopeKind # "thread"
  BY <1>1, <1>3 DEF KindInv, SwappedInv, LockedInv, PutBack
<1> QED
  BY <1>2, <1>3

LEMMA ScopesRest == ScopesInv /\ UNCHANGED scopeVars => ScopesInv'
<1> SUFFICES ASSUME ScopesInv, UNCHANGED scopeVars PROVE ScopesInv'
  OBVIOUS
<1> USE DEF scopeVars
<1>1. Live' = Live /\ \A r, c : Isolated(r, c)' <=> Isolated(r, c)
  BY DEF Live, Isolated
<1>2. ScopesTypeOK'
  BY DEF ScopesInv, ScopesTypeOK
<1>3. NothingForeign' /\ OwnDataPresent'
  BY DEF ScopesInv, NothingForeign, OwnDataPresent
<1>4. /\ OwnInv => OwnInv'
      /\ ContextInv => ContextInv'
      /\ PutBack => PutBack'
      /\ GlobalInv => GlobalInv'
      /\ AmbientInv => AmbientInv'
  BY <1>1 DEF OwnInv, ContextInv, PutBack, GlobalInv, AmbientInv
<1>5. /\ ThreadInv => ThreadInv'
      /\ SwappedInv => SwappedInv'
      /\ LockedInv => LockedInv'
  BY <1>1, <1>4 DEF ThreadInv, SwappedInv, LockedInv, Isolated
<1>6. KindInv'
  BY <1>4, <1>5 DEF ScopesInv, KindInv
<1> QED
  BY <1>1, <1>2, <1>3, <1>6 DEF ScopesInv

-----------------------------------------------------------------------------
(* The frame cache *)

\* The exception an entry of the cache was made for, and those raised since the
\* first raise of x.
MadeFor(entry) == entry.frames[1][1]
Since(raising, x) ==
  {raising[k] : k \in {n \in DOMAIN raising : \E m \in 1 .. n : raising[m] = x}}

\* Nothing of what x raised is missing.
Complete(x) ==
  \/ raises[x] = 0
  \/ \E n \in DOMAIN cache : cache[n].id = idOfError[x] /\ Len(cache[n].frames) = raises[x]

\* The last of the frames x was raised in that many times.
OwnFrames(x, count, frames) ==
  /\ Len(frames) <= count
  /\ \A k \in 1 .. Len(frames) : frames[k] = <<x, count - Len(frames) + k>>

\* Entries are of different exceptions, a later one of one raised later.
EntriesInTurn ==
  /\ \A n \in DOMAIN cache :
       /\ cache[n].frames # <<>> /\ raises[MadeFor(cache[n])] > 0
       /\ MadeFor(cache[n]) \in Living => idOfError[MadeFor(cache[n])] = cache[n].id
  /\ \A m, n \in DOMAIN cache : m # n => MadeFor(cache[m]) # MadeFor(cache[n])
  /\ \A m, n \in DOMAIN cache : m < n => MadeFor(cache[n]) \in Since(order, MadeFor(cache[m]))

CacheInv ==
  /\ CacheTypeOK
  /\ \A x, y \in Living : idOfError[x] = idOfError[y] => x = y
  /\ \A x \in Errors : raises[x] > 0 => \E k \in DOMAIN order : order[k] = x
  /\ EntriesInTurn
  /\ \A x \in Living \ heirs : \A n \in DOMAIN cache :
       cache[n].id = idOfError[x] => OwnFrames(x, raises[x], cache[n].frames)
  /\ \A x \in Living \ heirs :
       Complete(x) \/ Cardinality(Since(order, x) \ {x}) >= MAX_CACHED

LEMMA SinceFinite ==
  ASSUME NEW S, NEW s \in Seq(S), NEW x
  PROVE  IsFiniteSet(Since(s, x)) /\ Since(s, x) \subseteq S
<1>1. Len(s) \in Nat /\ DOMAIN s = 1 .. Len(s) /\ \A n \in 1 .. Len(s) : s[n] \in S
  BY LenProperties, ElementOfSeq
<1> DEFINE T == {n \in 1 .. Len(s) : \E m \in 1 .. n : s[m] = x}
           f == [n \in T |-> s[n]]
<1>2. IsFiniteSet(T)
  <2>1. IsFiniteSet(1 .. Len(s)) /\ T \in SUBSET (1 .. Len(s))
    BY <1>1, FS_Interval
  <2> HIDE DEF T
  <2> QED
    BY <2>1, FS_Subset
<1>3. f \in Surjection(T, Since(s, x))
  BY <1>1 DEF Surjection, Since
<1> QED
  BY <1>1, <1>2, <1>3, FS_Surjection DEF Since

\* What is raised later counts for all that were raised before.
LEMMA SinceGrows ==
  ASSUME NEW S, NEW s \in Seq(S), NEW e \in S, NEW x
  PROVE  /\ Since(s, x) \subseteq Since(Append(s, e), x)
         /\ (\E k \in DOMAIN s : s[k] = x) => e \in Since(Append(s, e), x)
<1>1. /\ Len(s) \in Nat /\ DOMAIN s = 1 .. Len(s)
      /\ Len(Append(s, e)) = Len(s) + 1 /\ DOMAIN Append(s, e) = 1 .. Len(s) + 1
      /\ \A n \in 1 .. Len(s) : Append(s, e)[n] = s[n]
      /\ Append(s, e)[Len(s) + 1] = e
  BY LenProperties, AppendProperties
<1>2. ASSUME NEW k \in DOMAIN s, NEW m \in 1 .. k, s[m] = x
      PROVE  s[k] \in Since(Append(s, e), x)
  <2>1. k \in DOMAIN Append(s, e) /\ Append(s, e)[m] = x /\ Append(s, e)[k] = s[k]
    BY <1>1, <1>2
  <2> QED
    BY <2>1 DEF Since
<1>3. ASSUME NEW k \in DOMAIN s, s[k] = x
      PROVE  e \in Since(Append(s, e), x)
  <2>1. /\ Len(s) + 1 \in DOMAIN Append(s, e) /\ k \in 1 .. Len(s) + 1
        /\ Append(s, e)[k] = x
    BY <1>1, <1>3
  <2> QED
    BY <1>1, <2>1 DEF Since
<1> QED
  BY <1>2, <1>3 DEF Since

LEMMA SinceCounts ==
  ASSUME order \in Seq(Errors), NEW x \in Errors, NEW y,
         Cardinality(Since(order, y) \ {y}) >= MAX_CACHED
  PROVE  Cardinality(Since(Append(order, x), y) \ {y}) >= MAX_CACHED
<1> DEFINE T == Since(order, y) \ {y}
           U == Since(Append(order, x), y) \ {y}
<1>1. Append(order, x) \in Seq(Errors)
  BY AppendProperties
<1>2. IsFiniteSet(U)
  BY <1>1, SinceFinite, FS_Subset
<1>3. T \subseteq U
  BY SinceGrows
<1>4. IsFiniteSet(T) /\ Cardinality(T) \in Nat /\ Cardinality(U) \in Nat
      /\ Cardinality(T) <= Cardinality(U)
  BY <1>2, <1>3, FS_Subset, FS_CardinalityType
<1> QED
  BY <1>4, RaiseCacheAssumption

LEMMA CacheStarts == CacheInit => CacheInv
<1> SUFFICES ASSUME CacheInit PROVE CacheInv
  OBVIOUS
<1>1. /\ cache = <<>> /\ order = <<>> /\ Living = {} /\ DOMAIN cache = {}
      /\ \A x \in Errors : raises[x] = 0
  BY DEF CacheInit, Living
<1>2. CacheTypeOK
  <2>1. /\ cache \in Seq([id : Ids, frames : Seq(Frames)]) /\ Len(cache) <= MAX_CACHED
        /\ order \in Seq(Errors)
    BY <1>1, EmptySeq, RaiseCacheAssumption
  <2>2. IsInjective([n \in DOMAIN cache |-> cache[n].id])
    BY <1>1 DEF IsInjective
  <2>3. /\ idOfError \in [Errors -> Ids \cup {Gone}] /\ registered \in BOOLEAN
        /\ heirs \subseteq Errors
    BY DEF CacheInit
  <2>4. raises \in [Errors -> 0 .. MaxRaises]
    <3>1. 0 \in 0 .. MaxRaises
      BY RaiseCacheAssumption
    <3> QED
      BY <3>1 DEF CacheInit
  <2> QED
    BY <2>1, <2>2, <2>3, <2>4 DEF CacheTypeOK
<1>3. EntriesInTurn
  BY <1>1 DEF EntriesInTurn
<1> QED
  BY <1>1, <1>2, <1>3 DEF CacheInv

LEMMA CacheFacts ==
  ASSUME CacheTypeOK
  PROVE  /\ Len(cache) \in Nat /\ DOMAIN cache = 1 .. Len(cache) /\ Len(cache) <= MAX_CACHED
         /\ \A n \in DOMAIN cache :
              /\ cache[n].id \in Ids /\ cache[n].frames \in Seq(Frames)
              /\ cache[n] = [id |-> cache[n].id, frames |-> cache[n].frames]
         /\ \A m, n \in DOMAIN cache : cache[m].id = cache[n].id => m = n
         /\ \A x \in Errors : raises[x] \in Nat
<1>1. cache \in Seq([id : Ids, frames : Seq(Frames)])
  BY DEF CacheTypeOK
<1>2. /\ Len(cache) \in Nat /\ DOMAIN cache = 1 .. Len(cache)
      /\ \A n \in DOMAIN cache : cache[n] \in [id : Ids, frames : Seq(Frames)]
  BY <1>1, LenProperties, ElementOfSeq
<1>3. \A n \in DOMAIN cache : /\ cache[n].id \in Ids /\ cache[n].frames \in Seq(Frames)
                              /\ cache[n] = [id |-> cache[n].id, frames |-> cache[n].frames]
  BY <1>2
<1>4. \A m, n \in DOMAIN cache : cache[m].id = cache[n].id => m = n
  BY DEF CacheTypeOK, IsInjective
<1>5. \A x \in Errors : raises[x] \in Nat
  BY RaiseCacheAssumption DEF CacheTypeOK
<1> QED
  BY <1>2, <1>3, <1>4, <1>5 DEF CacheTypeOK

\* A raise of an exception that has an entry adds to its frames.
LEMMA AddedToEntry ==
  ASSUME CacheInv, NEW x \in Errors, RaiseError(x), idOfError[x] \in Cached
  PROVE  /\ DOMAIN cache' = DOMAIN cache /\ Len(cache') = Len(cache)
         /\ cache' \in Seq([id : Ids, frames : Seq(Frames)])
         /\ \A n \in DOMAIN cache :
              /\ cache'[n].id = cache[n].id
              /\ cache'[n].frames = IF cache[n].id = idOfError[x]
                                    THEN Append(cache[n].frames, <<x, raises[x] + 1>>)
                                    ELSE cache[n].frames
              /\ cache'[n].frames # <<>> /\ MadeFor(cache'[n]) = MadeFor(cache[n])
<1> DEFINE id == idOfError[x]
           frame == <<x, raises[x] + 1>>
<1>1. cache' = [n \in DOMAIN cache |->
                  IF cache[n].id = id THEN [cache[n] EXCEPT !.frames = Append(@, frame)]
                  ELSE cache[n]]
  BY DEF RaiseError, Stored
<1>2. /\ Len(cache) \in Nat /\ DOMAIN cache = 1 .. Len(cache)
      /\ \A n \in DOMAIN cache :
              /\ cache[n].id \in Ids /\ cache[n].frames \in Seq(Frames)
              /\ cache[n] = [id |-> cache[n].id, frames |-> cache[n].frames]
  BY CacheFacts DEF CacheInv
<1>3. frame \in Frames
  BY CacheFacts, RaiseCacheAssumption DEF CacheInv, RaiseError, Frames, CacheTypeOK
<1> HIDE DEF frame, id
<1>4. ASSUME NEW n \in DOMAIN cache
      PROVE  /\ cache'[n] \in [id : Ids, frames : Seq(Frames)]
             /\ cache'[n].id = cache[n].id
             /\ cache'[n].frames = IF cache[n].id = id THEN Append(cache[n].frames, frame)
                                   ELSE cache[n].frames
             /\ cache'[n].frames # <<>> /\ MadeFor(cache'[n]) = MadeFor(cache[n])
  <2>1. cache[n].frames # <<>> /\ cache[n].frames \in Seq(Frames) /\ cache[n].id \in Ids
    BY <1>2 DEF CacheInv, EntriesInTurn
  <2>2. CASE cache[n].id = id
    <3>1. cache'[n] = [id |-> cache[n].id, frames |-> Append(cache[n].frames, frame)]
      <4>1. cache'[n] = [cache[n] EXCEPT !.frames = Append(@, frame)]
        BY <1>1, <2>2
      <4>2. cache[n] = [id |-> cache[n].id, frames |-> cache[n].frames]
        BY <1>2
      <4> QED
        BY <4>1, <4>2
    <3>2. /\ Append(cache[n].frames, frame) \in Seq(Frames)
          /\ Append(cache[n].frames, frame) # <<>>
          /\ Append(cache[n].frames, frame)[1] = cache[n].frames[1]
      BY <1>3, <2>1, AppendProperties, EmptySeq, LenProperties
    <3> QED
      BY <2>1, <2>2, <3>1, <3>2 DEF MadeFor
  <2>3. CASE cache[n].id # id
    <3>1. cache'[n] = cache[n]
      BY <1>1, <2>3
    <3> QED
      BY <1>2, <2>1, <2>3, <3>1
  <2> QED
    BY <2>2, <2>3
<1>5. cache' \in [1 .. Len(cache) -> [id : Ids, frames : Seq(Frames)]]
  BY <1>1, <1>2, <1>4
<1>6. cache' \in Seq([id : Ids, frames : Seq(Frames)])
  BY <1>2, <1>5, FunctionIsSeq
<1>7. Len(cache') = Len(cache)
  BY <1>2, <1>5, <1>6, FunctionIsSeq
<1> QED
  BY <1>1, <1>4, <1>6, <1>7 DEF frame, id

\* Otherwise the oldest goes when there is no room, and a new entry is the last.
LEMMA EntryAdded ==
  ASSUME CacheInv, NEW x \in Errors, RaiseError(x), idOfError[x] \notin Cached
  PROVE  \E d \in {0, 1} :
           /\ d = 1 => Len(cache) = MAX_CACHED
           /\ d <= Len(cache) /\ Len(cache') = Len(cache) - d + 1 /\ Len(cache') <= MAX_CACHED
           /\ DOMAIN cache' = 1 .. Len(cache')
           /\ cache' \in Seq([id : Ids, frames : Seq(Frames)])
           /\ \A n \in 1 .. Len(cache) - d : cache'[n] = cache[n + d]
           /\ cache'[Len(cache')] = [id |-> idOfError[x], frames |-> <<<<x, raises[x] + 1>>>>]
<1> DEFINE new == [id |-> idOfError[x], frames |-> <<<<x, raises[x] + 1>>>>]
           R == [id : Ids, frames : Seq(Frames)]
<1>1. cache' = Append(Room, new)
  BY DEF RaiseError, Stored
<1>2. Len(cache) \in Nat /\ DOMAIN cache = 1 .. Len(cache) /\ Len(cache) <= MAX_CACHED
  BY CacheFacts DEF CacheInv
<1>3. <<x, raises[x] + 1>> \in Frames /\ idOfError[x] \in Ids
  BY CacheFacts, RaiseCacheAssumption DEF CacheInv, RaiseError, Frames, CacheTypeOK, Living
<1>4. new \in R
  BY <1>3
<1>5. cache \in Seq(R)
  BY DEF CacheInv, CacheTypeOK
<1> HIDE DEF new, R
<1>6. CASE Len(cache) >= MAX_CACHED
  <2>1. cache # <<>> /\ Len(cache) = MAX_CACHED /\ Len(cache) >= 1
    <3>1. Len(cache) = MAX_CACHED /\ MAX_CACHED # 0
      <4>1. MAX_CACHED \in Nat /\ MAX_CACHED # 0
        BY RaiseCacheAssumption
      <4>2. Len(cache) \in Int /\ MAX_CACHED \in Int
        BY <1>2, <4>1
      <4>3. Len(cache) <= MAX_CACHED /\ MAX_CACHED <= Len(cache)
        BY <1>2, <1>6, <4>2
      <4>4. Len(cache) = MAX_CACHED
        BY <4>2, <4>3
      <4> QED
        BY <4>1, <4>4
    <3>2. cache # <<>>
      BY <3>1, EmptySeq
    <3> QED
      BY <1>2, <3>1, <3>2
  <2>2. /\ Tail(cache) \in Seq(R) /\ Len(Tail(cache)) = Len(cache) - 1
        /\ \A n \in 1 .. Len(cache) - 1 : Tail(cache)[n] = cache[n + 1]
    BY <1>2, <1>5, <2>1, HeadTailProperties
  <2>3. cache' = Append(Tail(cache), new)
    BY <1>1, <1>6 DEF Room
  <2>4. /\ cache' \in Seq(R) /\ Len(cache') = Len(cache) - 1 + 1
        /\ \A n \in 1 .. Len(cache) - 1 : cache'[n] = Tail(cache)[n]
        /\ cache'[Len(cache')] = new
    BY <1>2, <1>4, <2>1, <2>2, <2>3, AppendProperties, RaiseCacheAssumption
  <2>5. DOMAIN cache' = 1 .. Len(cache')
    BY <2>4, LenProperties
  <2> QED
    BY <1>2, <2>1, <2>2, <2>4, <2>5, RaiseCacheAssumption DEF new, R
<1>7. CASE ~(Len(cache) >= MAX_CACHED)
  <2>1. cache' = Append(cache, new)
    BY <1>1, <1>7 DEF Room
  <2>2. /\ cache' \in Seq(R) /\ Len(cache') = Len(cache) + 1
        /\ \A n \in 1 .. Len(cache) : cache'[n] = cache[n]
        /\ cache'[Len(cache')] = new
    BY <1>2, <1>4, <1>5, <2>1, AppendProperties
  <2>3. DOMAIN cache' = 1 .. Len(cache')
    BY <2>2, LenProperties
  <2> QED
    <3>1. \A n \in 1 .. Len(cache) - 0 : cache'[n] = cache[n + 0]
      BY <1>2, <2>2
    <3>2. /\ 0 = 1 => Len(cache) = MAX_CACHED
          /\ 0 <= Len(cache) /\ Len(cache') = Len(cache) - 0 + 1 /\ Len(cache') <= MAX_CACHED
      BY <1>2, <1>7, <2>2, RaiseCacheAssumption
    <3> QED
      BY <2>2, <2>3, <3>1, <3>2, Zenon DEF new, R
<1> QED
  BY <1>6, <1>7

\* A raise counts, and is the newest.
LEMMA Raised ==
  ASSUME CacheInv, NEW x \in Errors, RaiseError(x)
  PROVE  /\ x \in Living /\ idOfError[x] \in Ids /\ Living' = Living /\ heirs' = heirs
         /\ raises'[x] = raises[x] + 1 /\ raises[x] \in Nat
         /\ \A y \in Errors : y # x => raises'[y] = raises[y]
         /\ \A y \in Errors : raises'[y] >= raises[y] /\ raises[y] \in Nat /\ raises'[y] \in Nat
         /\ raises' \in [Errors -> 0 .. MaxRaises]
         /\ order' \in Seq(Errors)
         /\ \A y \in Errors : Since(order, y) \subseteq Since(order', y)
         /\ \A y \in Errors : raises[y] > 0 => x \in Since(order', y)
         /\ \A y \in Errors : raises'[y] > 0 => \E k \in DOMAIN order' : order'[k] = y
<1>1. /\ raises \in [Errors -> 0 .. MaxRaises] /\ order \in Seq(Errors)
      /\ idOfError \in [Errors -> Ids \cup {Gone}]
      /\ \A y \in Errors : raises[y] > 0 => \E k \in DOMAIN order : order[k] = y
  BY DEF CacheInv, CacheTypeOK
<1>2. /\ x \in Living /\ raises[x] < MaxRaises /\ order' = Append(order, x)
      /\ raises' = [raises EXCEPT ![x] = raises[x] + 1]
      /\ idOfError' = idOfError /\ heirs' = heirs
  BY DEF RaiseError
<1>3. \A y \in Errors : raises[y] \in Nat
  BY CacheFacts DEF CacheInv
<1>4. MaxRaises \in Nat
  BY RaiseCacheAssumption
<1>5. /\ raises'[x] = raises[x] + 1
      /\ \A y \in Errors : y # x => raises'[y] = raises[y]
  BY <1>1, <1>2
<1>6. raises' \in [Errors -> 0 .. MaxRaises]
  BY <1>1, <1>2, <1>3, <1>4
<1>7. order' \in Seq(Errors)
  BY <1>1, <1>2, AppendProperties
<1>8. /\ \A y \in Errors : Since(order, y) \subseteq Since(order', y)
      /\ \A y \in Errors : raises[y] > 0 => x \in Since(order', y)
  BY <1>1, <1>2, SinceGrows
<1>9. \A y \in Errors : raises'[y] > 0 => \E k \in DOMAIN order' : order'[k] = y
  <2>1. /\ Len(order) \in Nat /\ DOMAIN order = 1 .. Len(order)
        /\ DOMAIN order' = 1 .. Len(order) + 1
        /\ \A k \in 1 .. Len(order) : order'[k] = order[k]
        /\ order'[Len(order) + 1] = x
    BY <1>1, <1>2, AppendProperties, LenProperties
  <2>2. Len(order) + 1 \in DOMAIN order' /\ \A k \in DOMAIN order : k \in DOMAIN order'
    BY <2>1
  <2>3. ASSUME NEW y \in Errors, raises'[y] > 0
        PROVE  \E k \in DOMAIN order' : order'[k] = y
    <3>1. CASE y = x
      BY <2>1, <2>2, <3>1
    <3>2. CASE y # x
      <4>1. PICK k \in DOMAIN order : order[k] = y
        BY <1>1, <1>5, <2>3, <3>2
      <4> QED
        BY <2>1, <2>2, <4>1
    <3> QED
      BY <3>1, <3>2
  <2> QED
    BY <2>3
<1>10. Living' = Living /\ idOfError[x] \in Ids
  BY <1>1, <1>2 DEF Living
<1>11. \A y \in Errors : raises'[y] >= raises[y] /\ raises'[y] \in Nat
  BY <1>3, <1>5
<1> QED
  BY <1>2, <1>3, <1>5, <1>6, <1>7, <1>8, <1>9, <1>10, <1>11

LEMMA MadeForError ==
  ASSUME CacheInv, NEW n \in DOMAIN cache
  PROVE  MadeFor(cache[n]) \in Errors /\ cache[n].frames[1] \in Frames
<1>1. cache[n].frames \in Seq(Frames) /\ cache[n].frames # <<>>
  BY CacheFacts DEF CacheInv, EntriesInTurn
<1>2. 1 \in 1 .. Len(cache[n].frames)
  BY <1>1, EmptySeq, LenProperties
<1>3. cache[n].frames[1] \in Frames
  BY <1>1, <1>2, ElementOfSeq
<1> QED
  BY <1>3 DEF Frames, MadeFor

LEMMA KnownRaised ==
  ASSUME CacheInv, NEW x \in Errors, RaiseError(x), idOfError[x] \in Cached
  PROVE  CacheInv'
<1> DEFINE id == idOfError[x]
<1>1. /\ DOMAIN cache' = DOMAIN cache /\ Len(cache') = Len(cache)
      /\ cache' \in Seq([id : Ids, frames : Seq(Frames)])
      /\ \A n \in DOMAIN cache :
              /\ cache'[n].id = cache[n].id
              /\ cache'[n].frames = IF cache[n].id = id
                                    THEN Append(cache[n].frames, <<x, raises[x] + 1>>)
                                    ELSE cache[n].frames
              /\ cache'[n].frames # <<>> /\ MadeFor(cache'[n]) = MadeFor(cache[n])
  BY AddedToEntry
<1>2. /\ Len(cache) \in Nat /\ DOMAIN cache = 1 .. Len(cache) /\ Len(cache) <= MAX_CACHED
      /\ \A n \in DOMAIN cache : cache[n].frames \in Seq(Frames)
      /\ \A m, n \in DOMAIN cache : cache[m].id = cache[n].id => m = n
  BY CacheFacts DEF CacheInv
<1>3. /\ x \in Living /\ Living' = Living /\ heirs' = heirs
      /\ raises'[x] = raises[x] + 1 /\ raises[x] \in Nat
      /\ \A y \in Errors : y # x => raises'[y] = raises[y]
      /\ \A y \in Errors : raises'[y] >= raises[y] /\ raises[y] \in Nat /\ raises'[y] \in Nat
      /\ raises' \in [Errors -> 0 .. MaxRaises]
      /\ order' \in Seq(Errors)
      /\ \A y \in Errors : Since(order, y) \subseteq Since(order', y)
      /\ \A y \in Errors : raises'[y] > 0 => \E k \in DOMAIN order' : order'[k] = y
  BY Raised
<1>4. /\ idOfError' = idOfError /\ registered' = registered /\ order' = Append(order, x)
      /\ \A y \in Living : y \in Errors
  BY DEF RaiseError, Living
<1>5. /\ EntriesInTurn /\ CacheTypeOK
      /\ \A y, z \in Living : idOfError[y] = idOfError[z] => y = z
      /\ \A y \in Living \ heirs : \A n \in DOMAIN cache :
           cache[n].id = idOfError[y] => OwnFrames(y, raises[y], cache[n].frames)
      /\ \A y \in Living \ heirs :
           Complete(y) \/ Cardinality(Since(order, y) \ {y}) >= MAX_CACHED
  BY DEF CacheInv
<1> HIDE DEF id
<1>6. CacheTypeOK'
  <2>1. IsInjective([n \in DOMAIN cache' |-> cache'[n].id])
    BY <1>1, <1>2 DEF IsInjective
  <2> QED
    BY <1>1, <1>2, <1>3, <1>4, <1>5, <2>1 DEF CacheTypeOK
<1>7. EntriesInTurn'
  <2>1. \A n \in DOMAIN cache : MadeFor(cache[n]) \in Errors
    BY MadeForError
  <2>2. \A n \in DOMAIN cache' :
          /\ cache'[n].frames # <<>> /\ raises'[MadeFor(cache'[n])] > 0
          /\ MadeFor(cache'[n]) \in Living => idOfError[MadeFor(cache'[n])] = cache'[n].id
    <3> SUFFICES ASSUME NEW n \in DOMAIN cache
                 PROVE  /\ cache'[n].frames # <<>> /\ raises'[MadeFor(cache'[n])] > 0
                        /\ MadeFor(cache'[n]) \in Living =>
                             idOfError[MadeFor(cache'[n])] = cache'[n].id
      BY <1>1
    <3>1. /\ raises[MadeFor(cache[n])] > 0
          /\ MadeFor(cache[n]) \in Living => idOfError[MadeFor(cache[n])] = cache[n].id
      BY <1>5 DEF EntriesInTurn
    <3>2. /\ MadeFor(cache'[n]) = MadeFor(cache[n]) /\ cache'[n].frames # <<>>
          /\ cache'[n].id = cache[n].id
      BY <1>1
    <3>3. raises'[MadeFor(cache[n])] > 0
      BY <1>3, <2>1, <3>1
    <3> QED
      BY <3>1, <3>2, <3>3
  <2>3. \A m, n \in DOMAIN cache' : m # n => MadeFor(cache'[m]) # MadeFor(cache'[n])
    BY <1>1, <1>5 DEF EntriesInTurn
  <2>4. \A m, n \in DOMAIN cache' :
          m < n => MadeFor(cache'[n]) \in Since(order', MadeFor(cache'[m]))
    <3> SUFFICES ASSUME NEW m \in DOMAIN cache, NEW n \in DOMAIN cache, m < n
                 PROVE  MadeFor(cache'[n]) \in Since(order', MadeFor(cache'[m]))
      BY <1>1
    <3>1. MadeFor(cache[n]) \in Since(order, MadeFor(cache[m]))
      BY <1>5 DEF EntriesInTurn
    <3>2. MadeFor(cache'[n]) = MadeFor(cache[n]) /\ MadeFor(cache'[m]) = MadeFor(cache[m])
      BY <1>1
    <3> QED
      BY <1>3, <2>1, <3>1, <3>2
  <2> QED
    BY <1>3, <1>4, <2>2, <2>3, <2>4 DEF EntriesInTurn, MadeFor, Since
<1>8. ASSUME NEW y \in Living \ heirs, NEW n \in DOMAIN cache, cache'[n].id = idOfError[y]
      PROVE  OwnFrames(y, raises'[y], cache'[n].frames)
  <2>1. OwnFrames(y, raises[y], cache[n].frames) /\ cache[n].frames \in Seq(Frames) /\ y \in Errors
    BY <1>1, <1>2, <1>4, <1>5, <1>8
  <2>2. CASE y = x
    <3>1. cache'[n].frames = Append(cache[n].frames, <<x, raises[x] + 1>>)
      BY <1>1, <1>8, <2>2 DEF id
    <3>2. <<x, raises[x] + 1>> \in Frames
      BY <1>3, RaiseCacheAssumption DEF Frames, RaiseError
    <3>3. /\ Len(cache[n].frames) \in Nat
          /\ Len(cache'[n].frames) = Len(cache[n].frames) + 1
          /\ \A k \in 1 .. Len(cache[n].frames) : cache'[n].frames[k] = cache[n].frames[k]
          /\ cache'[n].frames[Len(cache[n].frames) + 1] = <<x, raises[x] + 1>>
      BY <2>1, <3>1, <3>2, AppendProperties, LenProperties
    <3>4. /\ Len(cache[n].frames) <= raises[x]
          /\ \A k \in 1 .. Len(cache[n].frames) :
               cache[n].frames[k] = <<x, raises[x] - Len(cache[n].frames) + k>>
      BY <2>1, <2>2 DEF OwnFrames
    <3> DEFINE l == Len(cache[n].frames)
    <3>5. \A k \in 1 .. l + 1 : cache'[n].frames[k] = <<x, (raises[x] + 1) - (l + 1) + k>>
      <4> SUFFICES ASSUME NEW k \in 1 .. l + 1
                   PROVE  cache'[n].frames[k] = <<x, (raises[x] + 1) - (l + 1) + k>>
        OBVIOUS
      <4>1. (raises[x] + 1) - (l + 1) + k = raises[x] - l + k
        BY <1>3, <3>3
      <4>2. CASE k \in 1 .. l
        BY <3>3, <3>4, <4>1, <4>2
      <4>3. CASE k = l + 1
        <5>1. raises[x] - l + k = raises[x] + 1
          BY <1>3, <3>3, <4>3
        <5> QED
          BY <3>3, <4>1, <4>3, <5>1
      <4> QED
        BY <3>3, <4>2, <4>3
    <3>6. l + 1 <= raises[x] + 1
      BY <1>3, <3>3, <3>4
    <3>7. raises'[y] = raises[x] + 1 /\ Len(cache'[n].frames) = l + 1
      BY <1>3, <2>2, <3>3
    <3> HIDE DEF l
    <3>8. ASSUME NEW k \in 1 .. Len(cache'[n].frames)
          PROVE  cache'[n].frames[k] = <<y, raises'[y] - Len(cache'[n].frames) + k>>
      <4>1. cache'[n].frames[k] = <<x, (raises[x] + 1) - (l + 1) + k>>
        BY <3>5, <3>7, <3>8
      <4> QED
        BY <2>2, <3>7, <4>1, Zenon
    <3>9. Len(cache'[n].frames) <= raises'[y]
      BY <3>6, <3>7
    <3> QED
      BY <3>8, <3>9 DEF OwnFrames
  <2>3. CASE y # x
    <3>1. idOfError[y] # id /\ raises'[y] = raises[y]
      BY <1>3, <1>5, <2>1, <2>3 DEF id
    <3>2. cache'[n].frames = cache[n].frames
      BY <1>1, <1>8, <3>1
    <3> QED
      BY <2>1, <3>1, <3>2 DEF OwnFrames
  <2> QED
    BY <2>2, <2>3
<1>9. ASSUME NEW y \in Living \ heirs
      PROVE  Complete(y)' \/ Cardinality(Since(order', y) \ {y}) >= MAX_CACHED
  <2>1. y \in Errors
    BY <1>4
  <2>2. CASE ~Complete(y)
    <3>1. Cardinality(Since(order, y) \ {y}) >= MAX_CACHED /\ order \in Seq(Errors)
      BY <1>5, <2>2 DEF CacheTypeOK
    <3> QED
      BY <1>4, <2>1, <3>1, SinceCounts
  <2>3. CASE Complete(y) /\ y = x
    <3>1. PICK n \in DOMAIN cache : cache[n].id = id
      BY DEF Cached, id
    <3>2. Len(cache[n].frames) = raises[x]
      <4>1. CASE raises[x] = 0
        <5>1. Len(cache[n].frames) <= 0 /\ cache[n].frames # <<>>
          BY <1>5, <2>3, <3>1, <4>1 DEF OwnFrames, EntriesInTurn, id
        <5> QED
          BY <1>2, <5>1, EmptySeq
      <4>2. CASE raises[x] # 0
        <5>1. PICK k \in DOMAIN cache : cache[k].id = idOfError[x]
                                        /\ Len(cache[k].frames) = raises[x]
          BY <2>3, <4>2 DEF Complete
        <5> QED
          BY <1>2, <3>1, <5>1 DEF id
      <4> QED
        BY <4>1, <4>2
    <3>3. <<x, raises[x] + 1>> \in Frames
      BY <1>3, RaiseCacheAssumption DEF Frames, RaiseError
    <3>4. cache'[n].id = idOfError[x] /\ Len(cache'[n].frames) = raises[x] + 1
      <4>1. /\ cache'[n].frames = Append(cache[n].frames, <<x, raises[x] + 1>>)
            /\ cache'[n].id = id /\ cache[n].frames \in Seq(Frames)
        BY <1>1, <1>2, <3>1
      <4> QED
        BY <3>2, <3>3, <4>1, AppendProperties DEF id
    <3> QED
      BY <1>1, <1>3, <1>4, <2>3, <3>1, <3>4 DEF Complete
  <2>4. CASE Complete(y) /\ y # x
    <3>1. idOfError[y] # id /\ raises'[y] = raises[y]
      BY <1>3, <1>5, <2>1, <2>4 DEF id
    <3>2. \A n \in DOMAIN cache : cache[n].id = idOfError[y] => cache'[n].frames = cache[n].frames
      BY <1>1, <3>1
    <3> QED
      BY <1>1, <1>4, <2>4, <3>1, <3>2 DEF Complete
  <2> QED
    BY <2>2, <2>3, <2>4
<1> QED
  BY <1>1, <1>3, <1>4, <1>5, <1>6, <1>7, <1>8, <1>9 DEF CacheInv, Since

LEMMA NewRaised ==
  ASSUME CacheInv, NEW x \in Errors, RaiseError(x), idOfError[x] \notin Cached
  PROVE  CacheInv'
<1> DEFINE id == idOfError[x]
           l == Len(cache')
<1>1. PICK d \in {0, 1} :
        /\ d = 1 => Len(cache) = MAX_CACHED
        /\ d <= Len(cache) /\ Len(cache') = Len(cache) - d + 1 /\ Len(cache') <= MAX_CACHED
        /\ DOMAIN cache' = 1 .. Len(cache')
        /\ cache' \in Seq([id : Ids, frames : Seq(Frames)])
        /\ \A n \in 1 .. Len(cache) - d : cache'[n] = cache[n + d]
        /\ cache'[Len(cache')] = [id |-> idOfError[x], frames |-> <<<<x, raises[x] + 1>>>>]
  BY EntryAdded
<1>2. /\ Len(cache) \in Nat /\ DOMAIN cache = 1 .. Len(cache) /\ Len(cache) <= MAX_CACHED
      /\ \A n \in DOMAIN cache : cache[n].frames \in Seq(Frames)
      /\ \A m, n \in DOMAIN cache : cache[m].id = cache[n].id => m = n
  BY CacheFacts DEF CacheInv
<1>3. /\ x \in Living /\ Living' = Living /\ heirs' = heirs
      /\ raises'[x] = raises[x] + 1 /\ raises[x] \in Nat
      /\ \A y \in Errors : y # x => raises'[y] = raises[y]
      /\ \A y \in Errors : raises'[y] >= raises[y] /\ raises[y] \in Nat /\ raises'[y] \in Nat
      /\ raises' \in [Errors -> 0 .. MaxRaises]
      /\ order' \in Seq(Errors)
      /\ \A y \in Errors : Since(order, y) \subseteq Since(order', y)
      /\ \A y \in Errors : raises[y] > 0 => x \in Since(order', y)
      /\ \A y \in Errors : raises'[y] > 0 => \E k \in DOMAIN order' : order'[k] = y
  BY Raised
<1>4. /\ idOfError' = idOfError /\ registered' = registered /\ order' = Append(order, x)
      /\ \A y \in Living : y \in Errors
  BY DEF RaiseError, Living
<1>5. /\ EntriesInTurn /\ CacheTypeOK
      /\ \A y, z \in Living : idOfError[y] = idOfError[z] => y = z
      /\ \A y \in Living \ heirs : \A n \in DOMAIN cache :
           cache[n].id = idOfError[y] => OwnFrames(y, raises[y], cache[n].frames)
      /\ \A y \in Living \ heirs :
           Complete(y) \/ Cardinality(Since(order, y) \ {y}) >= MAX_CACHED
  BY DEF CacheInv
<1>6. \A n \in DOMAIN cache : cache[n].id # id
  BY DEF Cached
\* An entry is an old one, further to the front, or the new one.
<1>7. /\ l \in DOMAIN cache' /\ cache'[l].id = id
      /\ cache'[l].frames = <<<<x, raises[x] + 1>>>> /\ MadeFor(cache'[l]) = x
  <2>1. l \in DOMAIN cache'
    BY <1>1, <1>2
  <2> QED
    BY <1>1, <2>1 DEF MadeFor
<1>8. \A n \in DOMAIN cache' :
        n = l \/ (n < l /\ n + d \in DOMAIN cache /\ cache'[n] = cache[n + d])
  <2> SUFFICES ASSUME NEW n \in DOMAIN cache', n # l
               PROVE  n < l /\ n + d \in DOMAIN cache /\ cache'[n] = cache[n + d]
    OBVIOUS
  <2>1. n \in 1 .. l /\ l = Len(cache) - d + 1 /\ l \in Int /\ n \in Int /\ d \in Int
    BY <1>1, <1>2
  <2> HIDE DEF l
  <2>2. n < l /\ n \in 1 .. Len(cache) - d /\ n + d \in 1 .. Len(cache)
    BY <1>2, <2>1
  <2> QED
    BY <1>1, <1>2, <2>2
<1>9. \A n \in DOMAIN cache :
        \/ n - d \in DOMAIN cache' /\ n - d < l /\ cache'[n - d] = cache[n]
        \/ n = 1 /\ d = 1
  <2> SUFFICES ASSUME NEW n \in DOMAIN cache
               PROVE  \/ n - d \in DOMAIN cache' /\ n - d < l /\ cache'[n - d] = cache[n]
                      \/ n = 1 /\ d = 1
    OBVIOUS
  <2>1. CASE n = 1 /\ d = 1
    BY <2>1
  <2>2. CASE ~(n = 1 /\ d = 1)
    <3>1. n - d \in 1 .. Len(cache) - d /\ (n - d) + d = n
      BY <1>2, <2>2
    <3>2. cache'[n - d] = cache[n]
      BY <1>1, <3>1
    <3>3. n - d \in DOMAIN cache' /\ n - d < l
      BY <1>1, <1>2, <3>1
    <3> QED
      BY <3>2, <3>3
  <2> QED
    BY <2>1, <2>2
<1>10. DOMAIN cache' = 1 .. l /\ l \in Nat /\ l <= MAX_CACHED
  BY <1>1, <1>2
<1> HIDE DEF id, l
<1>11. CacheTypeOK'
  <2>1. \A m, n \in DOMAIN cache' : cache'[m].id = cache'[n].id => m = n
    <3> SUFFICES ASSUME NEW m \in DOMAIN cache', NEW n \in DOMAIN cache',
                        cache'[m].id = cache'[n].id
                 PROVE  m = n
      OBVIOUS
    <3>1. CASE m # l /\ n # l
      <4>1. /\ m + d \in DOMAIN cache /\ n + d \in DOMAIN cache
            /\ cache[m + d].id = cache[n + d].id
        BY <1>8, <3>1
      <4>2. m + d = n + d
        BY <1>2, <4>1
      <4> QED
        BY <1>10, <4>2
    <3>2. CASE m = l \/ n = l
      BY <1>6, <1>7, <1>8, <3>2
    <3> QED
      BY <3>1, <3>2
  <2>2. IsInjective([n \in DOMAIN cache' |-> cache'[n].id])
    BY <2>1 DEF IsInjective
  <2>3. Len(cache') <= MAX_CACHED /\ cache' \in Seq([id : Ids, frames : Seq(Frames)])
    BY <1>1
  <2> QED
    BY <1>3, <1>4, <1>5, <2>2, <2>3 DEF CacheTypeOK
<1>12. EntriesInTurn'
  <2>1. \A n \in DOMAIN cache : MadeFor(cache[n]) \in Errors /\ MadeFor(cache[n]) # x
    <3> SUFFICES ASSUME NEW n \in DOMAIN cache
                 PROVE  MadeFor(cache[n]) \in Errors /\ MadeFor(cache[n]) # x
      OBVIOUS
    <3>1. MadeFor(cache[n]) \in Living => idOfError[MadeFor(cache[n])] = cache[n].id
      BY <1>5 DEF EntriesInTurn
    <3> QED
      BY <1>3, <1>6, <3>1, MadeForError DEF id
  <2>2. ASSUME NEW n \in DOMAIN cache'
        PROVE  /\ cache'[n].frames # <<>> /\ raises'[MadeFor(cache'[n])] > 0
               /\ MadeFor(cache'[n]) \in Living =>
                    idOfError[MadeFor(cache'[n])] = cache'[n].id
    <3>1. CASE n = l
      <4>1. /\ cache'[n].frames = <<<<x, raises[x] + 1>>>> /\ MadeFor(cache'[n]) = x
            /\ idOfError[x] = cache'[n].id
        BY <1>7, <3>1 DEF id
      <4>2. <<<<x, raises[x] + 1>>>> # <<>>
        OBVIOUS
      <4>3. raises'[x] > 0
        BY <1>3
      <4> QED
        BY <4>1, <4>2, <4>3
    <3>2. CASE n # l
      <4>1. n + d \in DOMAIN cache /\ cache'[n] = cache[n + d]
        BY <1>8, <3>2
      <4>2. /\ cache[n + d].frames # <<>> /\ raises[MadeFor(cache[n + d])] > 0
            /\ MadeFor(cache[n + d]) \in Living =>
                 idOfError[MadeFor(cache[n + d])] = cache[n + d].id
        BY <1>5, <4>1 DEF EntriesInTurn
      <4>3. raises'[MadeFor(cache[n + d])] > 0
        BY <1>3, <2>1, <4>1, <4>2
      <4> QED
        BY <4>1, <4>2, <4>3
    <3> QED
      BY <3>1, <3>2
  <2>3. ASSUME NEW m \in DOMAIN cache', NEW n \in DOMAIN cache', m # n
        PROVE  MadeFor(cache'[m]) # MadeFor(cache'[n])
    <3>1. CASE m # l /\ n # l
      <4>1. /\ m + d \in DOMAIN cache /\ n + d \in DOMAIN cache /\ m + d # n + d
            /\ cache'[m] = cache[m + d] /\ cache'[n] = cache[n + d]
        BY <1>8, <1>10, <2>3, <3>1
      <4> QED
        BY <1>5, <4>1 DEF EntriesInTurn
    <3>2. CASE m = l \/ n = l
      BY <1>7, <1>8, <2>1, <2>3, <3>2
    <3> QED
      BY <3>1, <3>2
  <2>4. ASSUME NEW m \in DOMAIN cache', NEW n \in DOMAIN cache', m < n
        PROVE  MadeFor(cache'[n]) \in Since(order', MadeFor(cache'[m]))
    <3>1. m + d \in DOMAIN cache /\ cache'[m] = cache[m + d]
      BY <1>8, <1>10, <2>4
    <3>2. MadeFor(cache[m + d]) \in Errors /\ raises[MadeFor(cache[m + d])] > 0
      BY <1>5, <2>1, <3>1 DEF EntriesInTurn
    <3>3. CASE n = l
      BY <1>3, <1>7, <3>1, <3>2, <3>3
    <3>4. CASE n # l
      <4>1. n + d \in DOMAIN cache /\ cache'[n] = cache[n + d] /\ m + d < n + d
        BY <1>8, <1>10, <2>4, <3>4
      <4>2. MadeFor(cache[n + d]) \in Since(order, MadeFor(cache[m + d]))
        BY <1>5, <3>1, <4>1 DEF EntriesInTurn
      <4> QED
        BY <1>3, <3>1, <3>2, <4>1, <4>2
    <3> QED
      BY <3>3, <3>4
  <2> QED
    BY <1>3, <1>4, <2>2, <2>3, <2>4 DEF EntriesInTurn, MadeFor, Since
<1>13. ASSUME NEW y \in Living \ heirs, NEW n \in DOMAIN cache', cache'[n].id = idOfError[y]
       PROVE  OwnFrames(y, raises'[y], cache'[n].frames)
  <2>1. CASE n = l
    <3>1. y = x
      BY <1>3, <1>5, <1>7, <1>13, <2>1 DEF id
    <3>2. /\ Len(cache'[n].frames) = 1 /\ cache'[n].frames[1] = <<x, raises[x] + 1>>
          /\ raises'[y] = raises[x] + 1 /\ raises[x] \in Nat
      <4> DEFINE frame == <<x, raises[x] + 1>>
      <4>1. cache'[n].frames = <<frame>>
        BY <1>7, <2>1
      <4>2. raises'[y] = raises[x] + 1 /\ raises[x] \in Nat
        BY <1>3, <3>1
      <4> HIDE DEF frame
      <4>3. Len(cache'[n].frames) = 1 /\ cache'[n].frames[1] = frame
        BY <4>1
      <4> QED
        BY <4>2, <4>3 DEF frame
    <3>3. ASSUME NEW k \in 1 .. Len(cache'[n].frames)
          PROVE  cache'[n].frames[k] = <<y, raises'[y] - Len(cache'[n].frames) + k>>
      <4>1. k = 1
        BY <3>2, <3>3
      <4>2. raises[x] + 1 - 1 + 1 = raises[x] + 1
        BY <3>2
      <4> QED
        BY <3>1, <3>2, <4>1, <4>2
    <3>4. Len(cache'[n].frames) <= raises'[y]
      BY <3>2
    <3> QED
      BY <3>3, <3>4 DEF OwnFrames
  <2>2. CASE n # l
    <3>1. n + d \in DOMAIN cache /\ cache'[n] = cache[n + d]
      BY <1>8, <2>2
    <3>2. y # x
      BY <1>6, <1>13, <3>1 DEF id
    <3>3. raises'[y] = raises[y]
      BY <1>3, <1>4, <3>2
    <3> QED
      BY <1>5, <1>13, <3>1, <3>3
  <2> QED
    BY <2>1, <2>2
<1>14. ASSUME NEW y \in Living \ heirs
       PROVE  Complete(y)' \/ Cardinality(Since(order', y) \ {y}) >= MAX_CACHED
  <2>1. y \in Errors
    BY <1>4
  <2>2. CASE ~Complete(y)
    <3>1. Cardinality(Since(order, y) \ {y}) >= MAX_CACHED /\ order \in Seq(Errors)
      BY <1>5, <2>2 DEF CacheTypeOK
    <3> QED
      BY <1>4, <2>1, <3>1, SinceCounts
  <2>3. CASE Complete(y) /\ y = x
    <3>1. raises[x] = 0
      BY <1>6, <2>3 DEF Complete, id
    <3>2. cache'[l].id = idOfError'[x] /\ Len(cache'[l].frames) = raises'[x]
      BY <1>3, <1>4, <1>7, <3>1 DEF id
    <3> QED
      BY <1>7, <2>3, <3>2 DEF Complete
  <2>4. CASE y # x /\ raises[y] = 0
    BY <1>3, <2>1, <2>4 DEF Complete
  <2>5. ASSUME y # x, NEW n \in DOMAIN cache,
               cache[n].id = idOfError[y], Len(cache[n].frames) = raises[y]
        PROVE  Complete(y)' \/ Cardinality(Since(order', y) \ {y}) >= MAX_CACHED
    <3>1. raises'[y] = raises[y]
      BY <1>3, <2>1, <2>5
    <3>2. CASE n - d \in DOMAIN cache' /\ cache'[n - d] = cache[n]
      BY <1>4, <2>5, <3>1, <3>2 DEF Complete
    \* The entry of y is pushed out: those behind it, and x, were raised later.
    <3>3. CASE n = 1 /\ d = 1
      <4>1. MadeFor(cache[1]) = y /\ raises[y] > 0
        <5>1. OwnFrames(y, raises[y], cache[1].frames)
          BY <1>5, <2>5, <3>3
        <5>2. cache[1].frames \in Seq(Frames) /\ cache[1].frames # <<>>
          BY <1>2, <1>5, <2>5, <3>3 DEF EntriesInTurn
        <5>3. 1 \in 1 .. Len(cache[1].frames)
          BY <5>2, EmptySeq
        <5>4. cache[1].frames[1][1] = y
          BY <5>1, <5>3 DEF OwnFrames
        <5> QED
          BY <1>5, <2>5, <3>3, <5>4 DEF MadeFor, EntriesInTurn
      <4>2. Len(cache) = MAX_CACHED /\ MAX_CACHED \in Nat /\ MAX_CACHED >= 1
        BY <1>1, <1>2, <3>3
      <4> DEFINE T == Since(order', y) \ {y}
                 g == [k \in 1 .. MAX_CACHED |->
                         IF k = MAX_CACHED THEN x ELSE MadeFor(cache[k + 1])]
      <4>3. \A k \in 1 .. MAX_CACHED : k # MAX_CACHED =>
              /\ k + 1 \in DOMAIN cache /\ 1 \in DOMAIN cache /\ 1 < k + 1
        BY <1>2, <4>2
      <4>4. \A k \in 1 .. MAX_CACHED : k # MAX_CACHED =>
              MadeFor(cache[k + 1]) \in T /\ MadeFor(cache[k + 1]) # x
        <5> SUFFICES ASSUME NEW k \in 1 .. MAX_CACHED, k # MAX_CACHED
                     PROVE  MadeFor(cache[k + 1]) \in T /\ MadeFor(cache[k + 1]) # x
          OBVIOUS
        <5>1. k + 1 \in DOMAIN cache /\ 1 \in DOMAIN cache /\ 1 < k + 1 /\ k + 1 # 1
          BY <4>3
        <5>2. MadeFor(cache[k + 1]) \in Since(order, y) /\ MadeFor(cache[k + 1]) # y
          BY <1>5, <4>1, <5>1 DEF EntriesInTurn
        <5>3. MadeFor(cache[k + 1]) \in Living => idOfError[MadeFor(cache[k + 1])] = cache[k + 1].id
          BY <1>5, <5>1 DEF EntriesInTurn
        <5> QED
          BY <1>3, <1>6, <2>1, <5>1, <5>2, <5>3 DEF id
      <4>5. x \in T
        BY <1>3, <2>1, <2>5, <4>1
      <4>6. \A j, k \in 1 .. MAX_CACHED : j # MAX_CACHED /\ k # MAX_CACHED /\ j # k =>
              MadeFor(cache[j + 1]) # MadeFor(cache[k + 1])
        <5> SUFFICES ASSUME NEW j \in 1 .. MAX_CACHED, NEW k \in 1 .. MAX_CACHED,
                            j # MAX_CACHED, k # MAX_CACHED, j # k
                     PROVE  MadeFor(cache[j + 1]) # MadeFor(cache[k + 1])
          OBVIOUS
        <5>1. j + 1 \in DOMAIN cache /\ k + 1 \in DOMAIN cache /\ j + 1 # k + 1
          BY <4>2, <4>3
        <5> QED
          BY <1>5, <5>1 DEF EntriesInTurn
      <4> HIDE DEF T
      <4>7. g \in [1 .. MAX_CACHED -> T]
        BY <4>4, <4>5
      <4>8. \A j, k \in 1 .. MAX_CACHED : g[j] = g[k] => j = k
        BY <4>4, <4>6
      <4>9. g \in Injection(1 .. MAX_CACHED, T)
        BY <4>7, <4>8 DEF Injection, IsInjective
      <4> HIDE DEF g
      <4>10. IsFiniteSet(T)
        <5>1. IsFiniteSet(Since(order', y)) /\ T \in SUBSET Since(order', y)
          BY <1>3, SinceFinite DEF T
        <5> QED
          BY <5>1, FS_Subset
      <4>11. Cardinality(1 .. MAX_CACHED) <= Cardinality(T)
        BY <4>9, <4>10, FS_Injection
      <4>12. Cardinality(1 .. MAX_CACHED) = MAX_CACHED
        BY <4>2, FS_Interval
      <4>13. Cardinality(T) \in Nat
        BY <4>10, FS_CardinalityType
      <4>14. Cardinality(T) >= MAX_CACHED
        BY <4>2, <4>11, <4>12, <4>13
      <4> QED
        BY <4>14 DEF T
    <3> QED
      BY <1>9, <3>2, <3>3
  <2> QED
    BY <2>2, <2>3, <2>4, <2>5 DEF Complete
<1> QED
  BY <1>3, <1>4, <1>5, <1>11, <1>12, <1>13, <1>14 DEF CacheInv, Since

LEMMA CreatesError ==
  ASSUME CacheInv, NEW x \in Errors, CreateError(x)
  PROVE  CacheInv'
<1>1. PICK id \in Ids \ {idOfError[y] : y \in Living} :
        /\ idOfError' = [idOfError EXCEPT ![x] = id]
        /\ heirs' = IF id \in Cached THEN heirs \cup {x} ELSE heirs
  BY DEF CreateError
<1>2. /\ x \notin Living /\ raises[x] = 0 /\ cache' = cache /\ raises' = raises
      /\ order' = order /\ registered' = registered
  BY DEF CreateError
<1>3. /\ CacheTypeOK /\ idOfError \in [Errors -> Ids \cup {Gone}] /\ EntriesInTurn
      /\ heirs \subseteq Errors
  BY DEF CacheInv, CacheTypeOK
<1>4. /\ idOfError'[x] = id /\ id # Gone /\ \A y \in Living : idOfError[y] # id
      /\ \A y \in Errors : y # x => idOfError'[y] = idOfError[y]
  BY <1>1, <1>3, RaiseCacheAssumption
<1>5. Living' = Living \cup {x} /\ Living \subseteq Errors
  BY <1>4 DEF Living
<1>6. /\ heirs \subseteq heirs' /\ heirs' \subseteq Errors
      /\ x \notin heirs' => \A n \in DOMAIN cache : cache[n].id # id
  BY <1>1, <1>3 DEF Cached
<1>7. CacheTypeOK'
  <2>1. idOfError' \in [Errors -> Ids \cup {Gone}]
    BY <1>1, <1>3
  <2> QED
    BY <1>2, <1>3, <1>6, <2>1 DEF CacheTypeOK
<1>8. \A y, z \in Living' : idOfError'[y] = idOfError'[z] => y = z
  <2> SUFFICES ASSUME NEW y \in Living', NEW z \in Living', idOfError'[y] = idOfError'[z]
               PROVE  y = z
    OBVIOUS
  <2>1. CASE y # x /\ z # x
    BY <1>4, <1>5, <2>1 DEF CacheInv
  <2>2. CASE y = x \/ z = x
    BY <1>2, <1>4, <1>5, <2>2
  <2> QED
    BY <2>1, <2>2
<1>9. EntriesInTurn'
  <2>1. ASSUME NEW n \in DOMAIN cache, MadeFor(cache[n]) \in Living'
        PROVE  idOfError'[MadeFor(cache[n])] = cache[n].id
    <3>1. MadeFor(cache[n]) # x
      BY <1>2, <1>3 DEF EntriesInTurn
    <3> QED
      BY <1>3, <1>4, <1>5, <2>1, <3>1 DEF EntriesInTurn
  <2> QED
    BY <1>2, <1>3, <2>1 DEF EntriesInTurn, MadeFor, Since
<1>10. ASSUME NEW y \in Living' \ heirs', NEW n \in DOMAIN cache, cache[n].id = idOfError'[y]
       PROVE  OwnFrames(y, raises[y], cache[n].frames)
  <2>1. y # x
    BY <1>4, <1>6, <1>10
  <2> QED
    BY <1>4, <1>5, <1>6, <1>10, <2>1 DEF CacheInv
<1>11. ASSUME NEW y \in Living' \ heirs'
       PROVE  Complete(y)' \/ Cardinality(Since(order, y) \ {y}) >= MAX_CACHED
  <2>1. CASE y = x
    BY <1>2, <2>1 DEF Complete
  <2>2. CASE y # x
    <3>1. Complete(y) \/ Cardinality(Since(order, y) \ {y}) >= MAX_CACHED
      BY <1>5, <1>6, <2>2 DEF CacheInv
    <3>2. idOfError'[y] = idOfError[y]
      BY <1>4, <1>5, <2>2
    <3> QED
      BY <1>2, <3>1, <3>2 DEF Complete
  <2> QED
    BY <2>1, <2>2
<1>12. \A y \in Errors : raises'[y] > 0 => \E k \in DOMAIN order' : order'[k] = y
  BY <1>2 DEF CacheInv
<1> QED
  BY <1>2, <1>7, <1>8, <1>9, <1>10, <1>11, <1>12 DEF CacheInv, Since

LEMMA CollectsError ==
  ASSUME CacheInv, NEW x \in Errors, CollectError(x)
  PROVE  CacheInv'
<1>1. /\ idOfError' = [idOfError EXCEPT ![x] = Gone] /\ heirs' = heirs
      /\ cache' = cache /\ raises' = raises /\ order' = order /\ registered' = registered
  BY DEF CollectError
<1>2. /\ CacheTypeOK /\ idOfError \in [Errors -> Ids \cup {Gone}] /\ EntriesInTurn
  BY DEF CacheInv, CacheTypeOK
<1>3. \A y \in Errors : y # x => idOfError'[y] = idOfError[y]
  BY <1>1, <1>2
<1>4. idOfError'[x] = Gone
  BY <1>1, <1>2
<1>5. Living' = Living \ {x} /\ Living \subseteq Errors
  BY <1>3, <1>4 DEF Living
<1>6. \A y \in Living' : y \in Living /\ idOfError'[y] = idOfError[y]
  BY <1>3, <1>5
<1>7. CacheTypeOK'
  <2>1. idOfError' \in [Errors -> Ids \cup {Gone}]
    BY <1>1, <1>2
  <2> QED
    BY <1>1, <1>2, <2>1 DEF CacheTypeOK
<1>8. EntriesInTurn'
  BY <1>1, <1>2, <1>6 DEF EntriesInTurn, MadeFor, Since
<1>9. \A y \in Living' \ heirs' :
        Complete(y)' \/ Cardinality(Since(order, y) \ {y}) >= MAX_CACHED
  <2> SUFFICES ASSUME NEW y \in Living' \ heirs'
               PROVE  Complete(y)' \/ Cardinality(Since(order, y) \ {y}) >= MAX_CACHED
    OBVIOUS
  <2>1. Complete(y) \/ Cardinality(Since(order, y) \ {y}) >= MAX_CACHED
    BY <1>1, <1>6 DEF CacheInv
  <2>2. idOfError'[y] = idOfError[y]
    BY <1>6
  <2> QED
    BY <1>1, <2>1, <2>2 DEF Complete
<1>10. /\ \A y, z \in Living' : idOfError'[y] = idOfError'[z] => y = z
       /\ \A y \in Living' \ heirs' : \A n \in DOMAIN cache :
            cache[n].id = idOfError'[y] => OwnFrames(y, raises[y], cache[n].frames)
  BY <1>1, <1>6 DEF CacheInv
<1>11. \A y \in Errors : raises'[y] > 0 => \E k \in DOMAIN order' : order'[k] = y
  BY <1>1 DEF CacheInv
<1> QED
  BY <1>1, <1>7, <1>8, <1>9, <1>10, <1>11 DEF CacheInv, Since

LEMMA Unregisters ==
  ASSUME CacheInv, UnregisterMonitoring
  PROVE  CacheInv'
<1>1. /\ registered' = FALSE /\ cache' = <<>> /\ heirs' = {} /\ order' = <<>>
      /\ raises' = [x \in Errors |-> 0] /\ idOfError' = idOfError
  BY DEF UnregisterMonitoring
<1>2. DOMAIN cache' = {} /\ Living' = Living /\ Living \subseteq Errors
  BY <1>1 DEF Living
<1>3. CacheTypeOK'
  <2>1. /\ cache' \in Seq([id : Ids, frames : Seq(Frames)]) /\ Len(cache') <= MAX_CACHED
        /\ order' \in Seq(Errors)
    BY <1>1, EmptySeq, RaiseCacheAssumption
  <2>2. IsInjective([n \in DOMAIN cache' |-> cache'[n].id])
    BY <1>2 DEF IsInjective
  <2>3. raises' \in [Errors -> 0 .. MaxRaises]
    BY <1>1, RaiseCacheAssumption
  <2>4. idOfError' \in [Errors -> Ids \cup {Gone}] /\ registered' \in BOOLEAN /\ heirs' \subseteq Errors
    BY <1>1 DEF CacheInv, CacheTypeOK
  <2> QED
    BY <2>1, <2>2, <2>3, <2>4 DEF CacheTypeOK
<1>4. EntriesInTurn'
  BY <1>2 DEF EntriesInTurn
<1>5. \A x \in Errors : raises'[x] = 0
  BY <1>1
<1>6. \A x, y \in Living' : idOfError'[x] = idOfError'[y] => x = y
  BY <1>1, <1>2 DEF CacheInv
<1> QED
  BY <1>2, <1>3, <1>4, <1>5, <1>6 DEF CacheInv, Complete

LEMMA CacheKept == CacheInv /\ CacheNext => CacheInv'
<1> SUFFICES ASSUME CacheInv, CacheNext PROVE CacheInv'
  OBVIOUS
<1>1. CASE RegisterMonitoring
  BY <1>1 DEF RegisterMonitoring, CacheInv, CacheTypeOK, EntriesInTurn, Living, Since, Complete
<1>2. CASE UnregisterMonitoring
  BY <1>2, Unregisters
<1>3. ASSUME NEW x \in Errors, CreateError(x) \/ RaiseError(x) \/ CollectError(x)
      PROVE  CacheInv'
  BY <1>3, CreatesError, KnownRaised, NewRaised, CollectsError
<1> QED
  BY <1>1, <1>2, <1>3 DEF CacheNext

LEMMA CacheRests == CacheInv /\ UNCHANGED cacheVars => CacheInv'
<1> SUFFICES ASSUME CacheInv, UNCHANGED cacheVars PROVE CacheInv'
  OBVIOUS
<1> QED
  BY DEF cacheVars, CacheInv, CacheTypeOK, EntriesInTurn, Living, Since, Complete

\* The exceptions raised since the first raise of x end the list of raises.
LEMMA SinceFirst ==
  ASSUME NEW S, NEW s \in Seq(S), NEW x, \E k \in DOMAIN s : s[k] = x
  PROVE  LET first == CHOOSE n \in DOMAIN s : s[n] = x /\ \A m \in 1 .. (n - 1) : s[m] # x
         IN  Range(SubSeq(s, first, Len(s))) = Since(s, x)
<1> DEFINE First(n) == s[n] = x /\ \A m \in 1 .. (n - 1) : s[m] # x
           first == CHOOSE n \in DOMAIN s : First(n)
<1>1. Len(s) \in Nat /\ DOMAIN s = 1 .. Len(s)
  BY LenProperties
<1>2. \E n \in DOMAIN s : First(n)
  <2> DEFINE Bad == {k \in DOMAIN s : s[k] = x}
  <2>1. Bad \in SUBSET Nat /\ Bad # {}
    BY <1>1
  <2> HIDE DEF Bad
  <2>2. \E n \in Bad : \A m \in Bad : <<m, n>> \notin OpToRel(<, Nat)
    BY <2>1, NatLessThanWellFounded, WFMin
  <2>3. PICK n \in Bad : \A m \in Bad : <<m, n>> \notin OpToRel(<, Nat)
    BY <2>2
  <2>4. \A m \in Bad : ~(m < n)
    BY <2>1, <2>3 DEF OpToRel
  <2>5. n \in DOMAIN s /\ s[n] = x /\ n \in Nat
    BY <2>1 DEF Bad
  <2>6. ASSUME NEW m \in 1 .. (n - 1)
        PROVE  s[m] # x
    <3>1. m \in DOMAIN s /\ m < n
      BY <1>1, <2>5
    <3> QED
      BY <2>4, <3>1 DEF Bad
  <2> QED
    BY <2>5, <2>6
<1> HIDE DEF First
<1>3. first \in DOMAIN s /\ First(first)
  BY <1>2
<1> DEFINE t == SubSeq(s, first, Len(s))
<1> HIDE DEF first
<1>4. /\ DOMAIN t = 1 .. Len(s) - first + 1
      /\ \A i \in 1 .. Len(s) - first + 1 : t[i] = s[i + first - 1]
  <2>1. first \in 1 .. Len(s)
    BY <1>1, <1>3
  <2>2. \A i \in first .. Len(s) : s[i] \in S
    BY <2>1, ElementOfSeq
  <2>3. /\ t \in Seq(S) /\ Len(t) = Len(s) - first + 1
        /\ \A i \in 1 .. Len(s) - first + 1 : t[i] = s[first + i - 1]
    BY <1>1, <2>1, <2>2, SubSeqProperties
  <2>4. \A i \in 1 .. Len(s) - first + 1 : first + i - 1 = i + first - 1
    BY <1>1, <2>1
  <2> QED
    BY <2>3, <2>4, LenProperties
<1> HIDE DEF t
<1>5. ASSUME NEW i \in DOMAIN t PROVE t[i] \in Since(s, x)
  <2>1. i + first - 1 \in DOMAIN s /\ first \in 1 .. (i + first - 1) /\ t[i] = s[i + first - 1]
    BY <1>1, <1>3, <1>4
  <2> QED
    BY <1>3, <2>1 DEF Since, First
<1>6. ASSUME NEW k \in DOMAIN s, NEW m \in 1 .. k, s[m] = x
      PROVE  s[k] \in Range(t)
  <2>1. m >= first
    BY <1>1, <1>3, <1>6 DEF First
  <2>2. k - first + 1 \in DOMAIN t /\ (k - first + 1) + first - 1 = k
    BY <1>1, <1>3, <1>4, <2>1
  <2>3. t[k - first + 1] = s[k]
    BY <1>4, <2>2
  <2> QED
    BY <2>2, <2>3 DEF Range
<1>7. Range(t) = Since(s, x)
  BY <1>5, <1>6 DEF Range, Since
<1> QED
  BY <1>7 DEF t, first, First

LEMMA FramesReadAreOwn == CacheInv => FramesAreItsOwn
<1> SUFFICES ASSUME CacheInv, NEW x \in Living \ heirs
             PROVE  LET frames == GetFrameLocalsFor(x)
                        told == ForensicPayload(x).frames
                        first == CHOOSE n \in DOMAIN order :
                                   order[n] = x /\ \A m \in 1..(n - 1) : order[m] # x
                    IN  /\ raises[x] > 0 => Last(told) = <<x, raises[x]>>
                        /\ frames = [n \in 1..Len(frames) |-> <<x, raises[x] - Len(frames) + n>>]
                        /\ raises[x] > Len(frames) =>
                             Cardinality(Range(SubSeq(order, first, Len(order))) \ {x}) >= MAX_CACHED
  BY DEF FramesAreItsOwn
<1> DEFINE frames == GetFrameLocalsFor(x)
           told == ForensicPayload(x).frames
           first == CHOOSE n \in DOMAIN order :
                      order[n] = x /\ \A m \in 1..(n - 1) : order[m] # x
<1>1. /\ x \in Errors /\ raises[x] \in Nat /\ order \in Seq(Errors) /\ CacheTypeOK
      /\ raises[x] > 0 => \E k \in DOMAIN order : order[k] = x
      /\ Complete(x) \/ Cardinality(Since(order, x) \ {x}) >= MAX_CACHED
      /\ \A n \in DOMAIN cache :
           cache[n].id = idOfError[x] => OwnFrames(x, raises[x], cache[n].frames)
  BY CacheFacts DEF CacheInv, CacheTypeOK, Living
<1>2. raises[x] > 0 => Range(SubSeq(order, first, Len(order))) = Since(order, x)
  BY <1>1, SinceFirst
<1>3. CASE idOfError[x] \in Cached
  <2>1. PICK n \in DOMAIN cache : cache[n].id = idOfError[x]
    BY <1>3 DEF Cached
  <2>2. \A m \in DOMAIN cache : cache[m].id = idOfError[x] => m = n
    BY <1>1, <2>1, CacheFacts
  <2>3. frames = cache[n].frames
    <3>1. \E e \in Range(cache) : e.id = idOfError[x]
      BY <2>1 DEF Range
    <3>2. \A e \in Range(cache) : e.id = idOfError[x] => e = cache[n]
      BY <2>2 DEF Range
    <3>3. (CHOOSE e \in Range(cache) : e.id = idOfError[x]) = cache[n]
      BY <3>1, <3>2
    <3> QED
      BY <1>3, <3>3 DEF GetFrameLocalsFor
  <2>4. frames \in Seq(Frames) /\ frames # <<>>
    BY <1>1, <2>1, <2>3, CacheFacts DEF CacheInv, EntriesInTurn
  <2>5. told = frames
    BY <2>4 DEF ForensicPayload
  <2>6. /\ Len(frames) \in Nat /\ DOMAIN frames = 1 .. Len(frames) /\ Len(frames) # 0
        /\ frames = [k \in 1 .. Len(frames) |-> frames[k]]
    BY <2>4, LenProperties, EmptySeq
  <2>7. /\ Len(frames) <= raises[x]
        /\ \A k \in 1 .. Len(frames) : frames[k] = <<x, raises[x] - Len(frames) + k>>
    BY <1>1, <2>1, <2>3 DEF OwnFrames
  <2>8. raises[x] > Len(frames) => ~Complete(x)
    BY <1>1, <2>1, <2>2, <2>3, <2>6 DEF Complete
  <2> HIDE DEF frames, told, first
  <2>9. frames = [k \in 1 .. Len(frames) |-> <<x, raises[x] - Len(frames) + k>>]
    BY <2>6, <2>7
  <2>10. Last(told) = <<x, raises[x]>>
    <3>1. Len(frames) \in 1 .. Len(frames) /\ raises[x] - Len(frames) + Len(frames) = raises[x]
      BY <1>1, <2>6
    <3>2. frames[Len(frames)] = <<x, raises[x]>>
      BY <2>7, <3>1
    <3> QED
      BY <2>5, <3>2 DEF Last
  <2>11. raises[x] > Len(frames) =>
          Cardinality(Range(SubSeq(order, first, Len(order))) \ {x}) >= MAX_CACHED
    <3> SUFFICES ASSUME raises[x] > Len(frames)
                 PROVE  Cardinality(Range(SubSeq(order, first, Len(order))) \ {x}) >= MAX_CACHED
      OBVIOUS
    <3>1. raises[x] > 0
      BY <1>1, <2>6
    <3>2. Cardinality(Since(order, x) \ {x}) >= MAX_CACHED
      BY <1>1, <2>8
    <3> QED
      BY <1>2, <3>1, <3>2
  <2> QED
    BY <2>9, <2>10, <2>11 DEF frames, told, first
<1>4. CASE idOfError[x] \notin Cached
  <2>1. frames = <<>> /\ Len(frames) = 0
    BY <1>4 DEF GetFrameLocalsFor
  <2>2. told = [n \in 1 .. raises[x] |-> <<x, n>>]
    BY <2>1 DEF ForensicPayload, WalkTraceback
  <2>3. raises[x] > 0 => ~Complete(x)
    BY <1>4 DEF Complete, Cached
  <2> HIDE DEF frames, told, first
  <2>4. frames = [k \in 1 .. Len(frames) |-> <<x, raises[x] - Len(frames) + k>>]
    BY <2>1
  <2>5. raises[x] > 0 => Last(told) = <<x, raises[x]>>
    <3> SUFFICES ASSUME raises[x] > 0 PROVE Last(told) = <<x, raises[x]>>
      OBVIOUS
    <3>1. told \in [1 .. raises[x] -> {<<x, n>> : n \in Nat}]
      BY <1>1, <2>2
    <3>2. Len(told) = raises[x]
      BY <1>1, <3>1, FunctionIsSeq
    <3> QED
      BY <1>1, <2>2, <3>2 DEF Last
  <2>6. raises[x] > Len(frames) =>
          Cardinality(Range(SubSeq(order, first, Len(order))) \ {x}) >= MAX_CACHED
    BY <1>1, <1>2, <2>1, <2>3
  <2> QED
    BY <2>4, <2>5, <2>6 DEF frames, told, first
<1> QED
  BY <1>3, <1>4

-----------------------------------------------------------------------------
(* The clients of the other SDKs *)

EndKinds == {"refused", "dropped", "raised", "sent"}
CallPcs == {"idle", "checked", "reading", "built", "hooked", "filtered", "over"}
InitOrNone == Inits \cup {NoInit}
FollowedCalls ==
  [pc : CallPcs, env : InitOrNone, rel : InitOrNone, hook : InitOrNone,
   chain : 0 .. MaxHandlers, ends : Seq(EndKinds), met : SUBSET InitOrNone,
   reinit : BOOLEAN, original : BOOLEAN]
ClientEvents ==
  [env : InitOrNone, rel : InitOrNone, to : InitOrNone, reinit : BOOLEAN,
   severity : {"critical", "info", "error"}]

\* What a capture has read of the configuration is of the one in force.
ReadInForce(c, config) ==
  /\ c.pc = "reading" => c.env = config
  /\ c.pc \in {"built", "hooked", "filtered"} => c.env = config /\ c.rel = config

\* Where configuration and transport change together, so do the two a capture read.
CallInv(c) ==
  /\ c \in FollowedCalls
  /\ sdk \notin Piecemeal =>
       /\ c.env = c.rel
       /\ c.pc \in {"idle", "built", "over"} \cup (IF sdk = "browser" THEN {"checked"} ELSE {})
  /\ ~mingled /\ ~c.reinit /\ c.pc \notin {"idle", "over"} =>
       Halfway = {} /\ ReadInForce(c, Config)

OwnEvent(e) ==
  /\ sdk = "go" \/ (~e.reinit /\ (mingled => sdk \in OneInitAtATime)) =>
       e.env = e.rel /\ e.rel = e.to
  /\ sdk \notin Piecemeal => e.env = e.rel

\* Elsewhere an init that is the only one under way set the configuration in force,
\* and with none under way the transport is of the configuration.
SetupInv ==
  /\ ClientTypeOK
  /\ inForce \in Seq(Inits) /\ markers \in Seq([init : Inits, to : Inits])
  /\ IsInjective(inForce) /\ \A k \in DOMAIN inForce : initPc[inForce[k]] # "new"
  /\ \A i \in Inits : initPc[i] \in {"announcing", "done"} => transport # NoInit
  /\ sdk \in OneInitAtATime => ~mingled
  /\ sdk \notin Piecemeal => transport = Config /\ Halfway = {} /\ ~mingled
  /\ ~mingled => /\ \A i, j \in Halfway : i = j
                 /\ \A i \in Halfway : Config = i
                 /\ Halfway = {} => transport = Config

ClientInv ==
  /\ SetupInv /\ CallInv(call)
  /\ events \in Seq(ClientEvents) /\ \A k \in DOMAIN events : OwnEvent(events[k])

LEMMA ClientStarts == ClientInit => ClientInv
<1> SUFFICES ASSUME ClientInit PROVE ClientInv
  OBVIOUS
<1>1. /\ inForce = <<>> /\ transport = NoInit /\ markers = <<>> /\ events = <<>> /\ call = IdleCall
      /\ mingled = FALSE /\ installed = 0 /\ initPc = [i \in Inits |-> "new"]
      /\ sdk \in ClientSdks /\ program \in Programs
  BY DEF ClientInit
<1>2. Halfway = {} /\ Config = NoInit
  BY <1>1 DEF Halfway, Config
<1>3. /\ inForce \in Seq(Inits) /\ markers \in Seq([init : Inits, to : Inits])
      /\ events \in Seq(ClientEvents)
      /\ DOMAIN inForce = {} /\ DOMAIN events = {} /\ DOMAIN markers = {}
  BY <1>1, EmptySeq
<1>4. inForce \in BoundedSeq(Inits, Cardinality(Inits))
  <2>1. Cardinality(Inits) \in Nat
    BY SdkClientsAssumption, FS_CardinalityType
  <2>2. inForce \in [1 .. 0 -> Inits] /\ 0 \in 0 .. Cardinality(Inits)
    BY <1>1, <2>1
  <2> QED
    BY <2>2 DEF BoundedSeq, SeqOf
<1>5. call \in FollowedCalls
  BY <1>1, SdkClientsAssumption, EmptySeq DEF IdleCall, FollowedCalls, CallPcs, InitOrNone
<1>6. CallInv(call)
  BY <1>1, <1>5 DEF CallInv, IdleCall
<1>7. ClientTypeOK
  <2>1. installed \in 0 .. MaxHandlers /\ call.chain \in 0 .. MaxHandlers
    BY <1>1, SdkClientsAssumption DEF IdleCall
  <2>2. /\ transport \in Inits \cup {NoInit} /\ mingled \in BOOLEAN
        /\ initPc \in [Inits -> {"new", "configured", "announcing", "done"}]
        /\ call.pc \in {"idle", "checked", "reading", "built", "hooked", "filtered", "over"}
    BY <1>1 DEF IdleCall
  <2> QED
    BY <1>1, <1>3, <1>4, <2>1, <2>2 DEF ClientTypeOK
<1>8. SetupInv
  BY <1>1, <1>2, <1>3, <1>7 DEF SetupInv, IsInjective
<1> QED
  BY <1>3, <1>6, <1>8 DEF ClientInv

\* Each init sets the configuration once.
LEMMA ListBounded ==
  ASSUME NEW s \in Seq(Inits), IsInjective(s)
  PROVE  s \in BoundedSeq(Inits, Cardinality(Inits))
<1>1. IsFiniteSet(Range(s)) /\ Cardinality(Range(s)) = Len(s)
  BY CardinalityOfBuffer
<1>2. Len(s) \in Nat /\ s \in [1 .. Len(s) -> Inits] /\ DOMAIN s = 1 .. Len(s)
  BY LenProperties
<1>3. Range(s) \subseteq Inits
  BY <1>2 DEF Range
<1>4. Cardinality(Range(s)) <= Cardinality(Inits) /\ Cardinality(Inits) \in Nat
  BY <1>3, SdkClientsAssumption, FS_Subset, FS_CardinalityType
<1>5. Len(s) \in 0 .. Cardinality(Inits)
  BY <1>1, <1>2, <1>4
<1> QED
  BY <1>2, <1>5 DEF BoundedSeq, SeqOf

\* An init that was not in force is, and is the last.
LEMMA InForceNow ==
  ASSUME SetupInv, NEW i \in Inits, initPc[i] = "new", inForce' = Append(inForce, i)
  PROVE  /\ inForce' \in Seq(Inits) /\ IsInjective(inForce') /\ Config' = i
         /\ inForce' \in BoundedSeq(Inits, Cardinality(Inits))
         /\ \A k \in DOMAIN inForce' : inForce'[k] = i \/ \E j \in DOMAIN inForce : inForce'[k] = inForce[j]
<1>1. inForce \in Seq(Inits) /\ IsInjective(inForce)
  BY DEF SetupInv
<1>2. i \notin Range(inForce)
  BY DEF SetupInv, Range
<1>3. /\ inForce' \in Seq(Inits) /\ IsInjective(inForce')
      /\ Range(inForce') = Range(inForce) \cup {i}
  BY <1>1, <1>2, AppendNew
<1>4. Len(inForce') = Len(inForce) + 1 /\ inForce'[Len(inForce) + 1] = i /\ Len(inForce) \in Nat
  BY <1>1, AppendProperties, LenProperties
<1>5. Config' = i
  BY <1>3, <1>4, EmptySeq DEF Config, Last
<1>6. inForce' \in BoundedSeq(Inits, Cardinality(Inits))
  BY <1>3, ListBounded
<1> QED
  BY <1>3, <1>5, <1>6 DEF Range

\* A capture notices an init that ends or begins under it.
LEMMA CallNotices ==
  ASSUME CallInv(call), Noticed, sdk' = sdk, Config' \in InitOrNone,
         sdk \notin Piecemeal => ~mingled
  PROVE  /\ CallInv(call)' /\ call'.chain = call.chain /\ call'.pc = call.pc
<1>1. call \in FollowedCalls
  BY DEF CallInv
<1>2. CASE call.pc = "idle"
  <2>1. call' = call
    BY <1>2 DEF Noticed
  <2> QED
    BY <1>2, <2>1 DEF CallInv
<1>3. CASE call.pc # "idle"
  <2>1. call' = [call EXCEPT !.reinit = TRUE, !.met = call.met \cup {Config'}]
    BY <1>3 DEF Noticed
  <2>2. /\ call' \in FollowedCalls /\ call'.reinit = TRUE /\ call'.pc = call.pc
        /\ call'.env = call.env /\ call'.rel = call.rel /\ call'.chain = call.chain
    BY <1>1, <2>1 DEF FollowedCalls
  <2> QED
    BY <2>2 DEF CallInv
<1> QED
  BY <1>2, <1>3

LEMMA InitsBegin ==
  ASSUME ClientInv, NEW i \in Inits, InPlace(i), sdk \notin Piecemeal
  PROVE  ClientInv'
<1>1. /\ initPc[i] = "new" /\ inForce' = Append(inForce, i) /\ transport' = i
      /\ initPc' = [initPc EXCEPT ![i] = IF Announces(i) THEN "announcing" ELSE "done"]
      /\ sdk' = sdk /\ program' = program /\ markers' = markers /\ mingled' = mingled
      /\ installed' = installed /\ events' = events /\ Noticed
  BY DEF InPlace, Finish, setup
<1>2. SetupInv /\ CallInv(call) /\ ClientTypeOK
  BY DEF ClientInv, SetupInv
<1>3. initPc \in [Inits -> {"new", "configured", "announcing", "done"}] /\ ~mingled
  BY <1>2 DEF ClientTypeOK, SetupInv
<1>4. /\ inForce' \in Seq(Inits) /\ IsInjective(inForce') /\ Config' = i
      /\ inForce' \in BoundedSeq(Inits, Cardinality(Inits))
      /\ \A k \in DOMAIN inForce' : inForce'[k] = i \/ \E j \in DOMAIN inForce : inForce'[k] = inForce[j]
  BY <1>1, <1>2, InForceNow
<1>5. /\ initPc' \in [Inits -> {"new", "configured", "announcing", "done"}]
      /\ initPc'[i] \in {"announcing", "done"} /\ \A j \in Inits : j # i => initPc'[j] = initPc[j]
  BY <1>1, <1>3
<1>6. Halfway' = {}
  <2>1. Halfway = {}
    BY <1>2 DEF SetupInv
  <2> QED
    BY <1>5, <2>1 DEF Halfway
<1>7. CallInv(call)' /\ call'.chain = call.chain /\ call'.pc = call.pc
  BY <1>1, <1>2, <1>3, <1>4, CallNotices DEF InitOrNone
<1>8. ClientTypeOK'
  BY <1>1, <1>2, <1>4, <1>5, <1>7 DEF ClientTypeOK
<1>9. \A k \in DOMAIN inForce' : initPc'[inForce'[k]] # "new"
  <2>1. \A k \in DOMAIN inForce : inForce[k] \in Inits /\ initPc[inForce[k]] # "new"
    BY <1>2, ElementOfSeq, LenProperties DEF SetupInv
  <2> QED
    BY <1>4, <1>5, <2>1
<1>10. SetupInv'
  BY <1>1, <1>2, <1>3, <1>4, <1>6, <1>8, <1>9, SdkClientsAssumption DEF SetupInv
<1>11. events' \in Seq(ClientEvents) /\ \A k \in DOMAIN events' : OwnEvent(events[k])'
  BY <1>1, <1>3 DEF ClientInv, OwnEvent
<1> QED
  BY <1>7, <1>10, <1>11 DEF ClientInv

LEMMA Configures ==
  ASSUME ClientInv, NEW i \in Inits, Configure(i)
  PROVE  ClientInv'
<1>1. /\ sdk \in Piecemeal /\ initPc[i] = "new" /\ inForce' = Append(inForce, i)
      /\ sdk \in OneInitAtATime => Halfway = {}
      /\ initPc' = [initPc EXCEPT ![i] = "configured"]
      /\ mingled' = (mingled \/ Halfway # {}) /\ Noticed
      /\ sdk' = sdk /\ program' = program /\ markers' = markers /\ transport' = transport
      /\ installed' = installed /\ events' = events
  BY DEF Configure, setup
<1>2. SetupInv /\ CallInv(call) /\ ClientTypeOK
  BY DEF ClientInv, SetupInv
<1>3. /\ initPc \in [Inits -> {"new", "configured", "announcing", "done"}] /\ mingled \in BOOLEAN
      /\ \A k \in DOMAIN inForce : inForce[k] \in Inits /\ initPc[inForce[k]] # "new"
  BY <1>2, ElementOfSeq, LenProperties DEF ClientTypeOK, SetupInv
<1>4. /\ inForce' \in Seq(Inits) /\ IsInjective(inForce') /\ Config' = i
      /\ inForce' \in BoundedSeq(Inits, Cardinality(Inits))
      /\ \A k \in DOMAIN inForce' : inForce'[k] = i \/ \E j \in DOMAIN inForce : inForce'[k] = inForce[j]
  BY <1>1, <1>2, InForceNow
<1>5. /\ initPc' \in [Inits -> {"new", "configured", "announcing", "done"}]
      /\ initPc'[i] = "configured" /\ \A j \in Inits : j # i => initPc'[j] = initPc[j]
  BY <1>1, <1>3
<1>6. Halfway' = Halfway \cup {i}
  BY <1>5 DEF Halfway
<1>7. CallInv(call)' /\ call'.chain = call.chain /\ call'.pc = call.pc
  BY <1>1, <1>2, <1>4, CallNotices DEF InitOrNone
<1>8. /\ mingled' \in BOOLEAN /\ (~mingled' => ~mingled /\ Halfway = {})
      /\ (sdk \in OneInitAtATime => ~mingled')
  BY <1>1, <1>2, <1>3 DEF SetupInv
<1>9. ClientTypeOK'
  BY <1>1, <1>2, <1>4, <1>5, <1>7, <1>8 DEF ClientTypeOK
<1>10. \A k \in DOMAIN inForce' : initPc'[inForce'[k]] # "new"
  BY <1>3, <1>4, <1>5
<1>11. SetupInv'
  <2>1. \A j \in Inits : initPc'[j] \in {"announcing", "done"} => transport' # NoInit
    BY <1>1, <1>2, <1>5 DEF SetupInv
  <2>2. ~mingled' => Halfway' = {i}
    BY <1>6, <1>8
  <2> QED
    BY <1>1, <1>2, <1>4, <1>8, <1>9, <1>10, <2>1, <2>2 DEF SetupInv
<1>12. events' \in Seq(ClientEvents) /\ \A k \in DOMAIN events' : OwnEvent(events[k])'
  BY <1>1, <1>8 DEF ClientInv, OwnEvent
<1> QED
  BY <1>7, <1>11, <1>12 DEF ClientInv

LEMMA Installs ==
  ASSUME ClientInv, NEW i \in Inits, InstallTransport(i)
  PROVE  ClientInv'
<1>1. /\ sdk \in Piecemeal /\ initPc[i] = "configured" /\ inForce' = inForce /\ transport' = i
      /\ initPc' = [initPc EXCEPT ![i] = IF Announces(i) THEN "announcing" ELSE "done"]
      /\ mingled' = mingled /\ Noticed
      /\ sdk' = sdk /\ program' = program /\ markers' = markers
      /\ installed' = installed /\ events' = events
  BY DEF InstallTransport, Finish, setup
<1>2. SetupInv /\ CallInv(call) /\ ClientTypeOK
  BY DEF ClientInv, SetupInv
<1>3. /\ initPc \in [Inits -> {"new", "configured", "announcing", "done"}] /\ mingled \in BOOLEAN
      /\ \A k \in DOMAIN inForce : inForce[k] \in Inits /\ initPc[inForce[k]] # "new"
  BY <1>2, ElementOfSeq, LenProperties DEF ClientTypeOK, SetupInv
<1>4. Config' = Config /\ Config \in InitOrNone
  <2>1. inForce # <<>> => Len(inForce) \in DOMAIN inForce
    BY <1>2, LenProperties, EmptySeq DEF SetupInv
  <2> QED
    BY <1>1, <1>3, <2>1 DEF Config, Last, InitOrNone
<1>5. /\ initPc' \in [Inits -> {"new", "configured", "announcing", "done"}]
      /\ initPc'[i] \in {"announcing", "done"} /\ \A j \in Inits : j # i => initPc'[j] = initPc[j]
  BY <1>1, <1>3
<1>6. Halfway' = Halfway \ {i} /\ i \in Halfway
  BY <1>1, <1>5 DEF Halfway
<1>7. CallInv(call)' /\ call'.chain = call.chain /\ call'.pc = call.pc
  BY <1>1, <1>2, <1>4, CallNotices
<1>8. ClientTypeOK'
  BY <1>1, <1>2, <1>5, <1>7 DEF ClientTypeOK
<1>9. \A k \in DOMAIN inForce' : initPc'[inForce'[k]] # "new"
  BY <1>1, <1>3, <1>5
<1>10. SetupInv'
  <2>1. \A j \in Inits : initPc'[j] \in {"announcing", "done"} => transport' # NoInit
    BY <1>1, SdkClientsAssumption
  <2>2. ~mingled' => Halfway' = {} /\ transport' = Config'
    BY <1>1, <1>2, <1>4, <1>6 DEF SetupInv
  <2> QED
    BY <1>1, <1>2, <1>8, <1>9, <2>1, <2>2 DEF SetupInv
<1>11. events' \in Seq(ClientEvents) /\ \A k \in DOMAIN events' : OwnEvent(events[k])'
  BY <1>1 DEF ClientInv, OwnEvent
<1> QED
  BY <1>7, <1>10, <1>11 DEF ClientInv

LEMMA Reports ==
  ASSUME ClientInv, NEW i \in Inits, ReportDeploy(i)
  PROVE  ClientInv'
<1>1. /\ initPc[i] = "announcing" /\ inForce' = inForce /\ transport' = transport
      /\ initPc' = [initPc EXCEPT ![i] = "done"]
      /\ markers' = Append(markers, [init |-> i, to |-> MarkerGoesTo(i)])
      /\ mingled' = mingled /\ call' = call /\ sdk' = sdk /\ program' = program
      /\ installed' = installed /\ events' = events
  BY DEF ReportDeploy, setup
<1>2. SetupInv /\ CallInv(call) /\ ClientTypeOK
  BY DEF ClientInv, SetupInv
<1>3. /\ initPc \in [Inits -> {"new", "configured", "announcing", "done"}]
      /\ \A k \in DOMAIN inForce : inForce[k] \in Inits /\ initPc[inForce[k]] # "new"
  BY <1>2, ElementOfSeq, LenProperties DEF ClientTypeOK, SetupInv
<1>4. /\ initPc' \in [Inits -> {"new", "configured", "announcing", "done"}]
      /\ initPc'[i] = "done" /\ \A j \in Inits : j # i => initPc'[j] = initPc[j]
  BY <1>1, <1>3
<1>5. Halfway' = Halfway /\ Config' = Config
  BY <1>1, <1>4 DEF Halfway, Config
<1>6. markers' \in Seq([init : Inits, to : Inits])
  <2>1. transport \in Inits
    BY <1>1, <1>2 DEF SetupInv, ClientTypeOK
  <2>2. [init |-> i, to |-> MarkerGoesTo(i)] \in [init : Inits, to : Inits]
    BY <2>1 DEF MarkerGoesTo
  <2> QED
    BY <1>1, <1>2, <2>2, AppendProperties DEF SetupInv
<1>7. ClientTypeOK'
  <2>1. \A k \in DOMAIN markers' : markers'[k].init \in Inits /\ markers'[k].to \in Inits
    <3>1. \A k \in DOMAIN markers' : markers'[k] \in [init : Inits, to : Inits]
      BY <1>6, ElementOfSeq, LenProperties
    <3> QED
      BY <3>1
  <2> QED
    BY <1>1, <1>2, <1>4, <2>1 DEF ClientTypeOK
<1>8. \A k \in DOMAIN inForce' : initPc'[inForce'[k]] # "new"
  BY <1>1, <1>3, <1>4
<1>9. SetupInv'
  <2>1. \A j \in Inits : initPc'[j] \in {"announcing", "done"} => transport' # NoInit
    BY <1>1, <1>2, <1>4 DEF SetupInv
  <2> QED
    BY <1>1, <1>2, <1>5, <1>6, <1>7, <1>8, <2>1 DEF SetupInv
<1>10. CallInv(call)'
  BY <1>1, <1>2, <1>5 DEF CallInv
<1>11. events' \in Seq(ClientEvents) /\ \A k \in DOMAIN events' : OwnEvent(events[k])'
  BY <1>1 DEF ClientInv, OwnEvent
<1> QED
  BY <1>9, <1>10, <1>11 DEF ClientInv

LEMMA ConfigKnown == SetupInv => Config \in InitOrNone /\ transport \in InitOrNone
<1> SUFFICES ASSUME SetupInv PROVE Config \in InitOrNone /\ transport \in InitOrNone
  OBVIOUS
<1>1. inForce # <<>> => Len(inForce) \in 1 .. Len(inForce) /\ inForce \in Seq(Inits)
  BY LenProperties, EmptySeq DEF SetupInv
<1> QED
  BY <1>1, ElementOfSeq DEF Config, Last, InitOrNone, SetupInv, ClientTypeOK

\* A step of a capture leaves what init does alone.
LEMMA CaptureSteps ==
  ASSUME ClientInv, UNCHANGED <<setup, initVars>>, installed' \in 0 .. MaxHandlers,
         CallInv(call'),
         \/ events' = events
         \/ \E e \in ClientEvents : OwnEvent(e) /\ events' = Append(events, e)
  PROVE  ClientInv'
<1>1. /\ sdk' = sdk /\ program' = program /\ inForce' = inForce /\ transport' = transport
      /\ initPc' = initPc /\ markers' = markers /\ mingled' = mingled
  BY DEF setup, initVars
<1>2. Config' = Config /\ Halfway' = Halfway
  BY <1>1 DEF Config, Halfway
<1>3. CallInv(call)'
  BY <1>1, <1>2 DEF CallInv
<1>4. ClientTypeOK'
  <2>1. /\ call'.pc \in {"idle", "checked", "reading", "built", "hooked", "filtered", "over"}
        /\ call'.chain \in 0 .. MaxHandlers
    BY DEF CallInv, FollowedCalls, CallPcs
  <2> QED
    BY <1>1, <2>1 DEF ClientInv, SetupInv, ClientTypeOK
<1>5. SetupInv'
  BY <1>1, <1>2, <1>4 DEF ClientInv, SetupInv
<1>6. events' \in Seq(ClientEvents) /\ \A k \in DOMAIN events' : OwnEvent(events[k])'
  <2>1. events \in Seq(ClientEvents) /\ \A k \in DOMAIN events : OwnEvent(events[k])
    BY DEF ClientInv
  <2>2. CASE events' = events
    BY <1>1, <2>1, <2>2 DEF OwnEvent
  <2>3. CASE events' # events
    <3>1. PICK e \in ClientEvents : OwnEvent(e) /\ events' = Append(events, e)
      BY <2>3
    <3>2. /\ events' \in Seq(ClientEvents) /\ Len(events) \in Nat
          /\ DOMAIN events' = 1 .. Len(events) + 1 /\ DOMAIN events = 1 .. Len(events)
          /\ events'[Len(events) + 1] = e
          /\ \A k \in 1 .. Len(events) : events'[k] = events[k]
      BY <2>1, <3>1, AppendProperties, LenProperties
    <3>3. ASSUME NEW k \in DOMAIN events'
          PROVE  OwnEvent(events[k])'
      <4>1. events'[k] = e \/ (k \in DOMAIN events /\ events'[k] = events[k])
        BY <3>2
      <4>2. OwnEvent(events'[k])
        BY <2>1, <3>1, <4>1
      <4> QED
        BY <1>1, <4>2 DEF OwnEvent
    <3> QED
      BY <3>2, <3>3
  <2> QED
    BY <2>2, <2>3
<1> QED
  BY <1>3, <1>5, <1>6 DEF ClientInv

LEMMA Begins ==
  ASSUME ClientInv, NEW chain \in 0 .. MaxHandlers, NEW ends \in Seq(EndKinds),
         BeginCapture(chain, ends)
  PROVE  ClientInv'
<1> DEFINE c == [IdleCall EXCEPT !.chain = chain, !.ends = ends, !.met = {Config},
                                 !.reinit = Halfway # {}]
<1>1. /\ call' = CASE sdk = "go" -> StartedGo(c) [] sdk = "rust" -> StartedRust(c) [] OTHER -> Started(c)
      /\ UNCHANGED <<setup, initVars, installed, events>>
  BY DEF BeginCapture
<1>2. SetupInv /\ Config \in InitOrNone /\ sdk \in ClientSdks /\ installed \in 0 .. MaxHandlers
  BY ConfigKnown DEF ClientInv, SetupInv, ClientTypeOK
<1>3. IdleCall \in FollowedCalls /\ IdleCall.env = NoInit /\ IdleCall.rel = NoInit
  BY SdkClientsAssumption, EmptySeq DEF IdleCall, FollowedCalls, CallPcs, InitOrNone
<1>4. /\ c \in FollowedCalls /\ c.pc = IdleCall.pc /\ c.env = NoInit /\ c.rel = NoInit
      /\ c.reinit = (Halfway # {}) /\ c.hook = IdleCall.hook /\ c.chain = chain
      /\ c.ends = ends /\ c.met = {Config}
  <2> DEFINE b == (Halfway # {})
  <2>1. b \in BOOLEAN /\ {Config} \subseteq InitOrNone
    BY <1>2
  <2> HIDE DEF b
  <2>2. [IdleCall EXCEPT !.chain = chain, !.ends = ends, !.met = {Config}, !.reinit = b]
          \in FollowedCalls
    BY <1>3, <2>1 DEF FollowedCalls
  <2> QED
    BY <1>3, <2>1, <2>2 DEF b, FollowedCalls
<1> HIDE DEF c
<1>5. ASSUME NEW d \in FollowedCalls
      PROVE  /\ Over(d, "refused") \in FollowedCalls /\ Over(d, "refused").pc = "over"
             /\ Over(d, "refused").env = d.env /\ Over(d, "refused").rel = d.rel
  <2>1. Append(d.ends, "refused") \in Seq(EndKinds)
    BY AppendProperties DEF FollowedCalls, EndKinds
  <2>2. Over(d, "refused") = [d EXCEPT !.pc = "over", !.ends = Append(d.ends, "refused")]
    BY DEF Over
  <2> QED
    BY <2>1, <2>2 DEF FollowedCalls, CallPcs
<1>6. CASE sdk = "go"
  <2> DEFINE d == [c EXCEPT !.pc = "built", !.env = Config, !.rel = Config, !.hook = Config]
  <2>1. /\ d \in FollowedCalls /\ d.pc = "built" /\ d.env = Config /\ d.rel = Config
        /\ d.reinit = (Halfway # {})
    BY <1>2, <1>4 DEF FollowedCalls, CallPcs
  <2>2. call' = IF transport = NoInit THEN Over(d, "refused") ELSE d
    BY <1>1, <1>6 DEF StartedGo, OrRefused
  <2> HIDE DEF d
  <2>3. CallInv(call')
    BY <1>5, <1>6, <2>1, <2>2 DEF CallInv, ReadInForce, Piecemeal
  <2> QED
    BY <1>1, <1>2, <2>3, CaptureSteps
<1>7. CASE sdk = "rust"
  <2> DEFINE d == [c EXCEPT !.pc = "built", !.env = Config, !.rel = Config]
  <2>1. /\ d \in FollowedCalls /\ d.pc = "built" /\ d.env = Config /\ d.rel = Config
        /\ d.reinit = (Halfway # {})
    BY <1>2, <1>4 DEF FollowedCalls, CallPcs
  <2>2. call' = d
    BY <1>1, <1>7 DEF StartedRust
  <2> HIDE DEF d
  <2>3. CallInv(call')
    BY <1>7, <2>1, <2>2 DEF CallInv, ReadInForce, Piecemeal
  <2> QED
    BY <1>1, <1>2, <2>3, CaptureSteps
<1>8. CASE sdk \notin {"go", "rust"}
  <2> DEFINE d == [c EXCEPT !.pc = "checked"]
  <2>1. /\ d \in FollowedCalls /\ d.pc = "checked" /\ d.env = NoInit /\ d.rel = NoInit
        /\ d.reinit = (Halfway # {})
    BY <1>2, <1>4 DEF FollowedCalls, CallPcs
  <2>2. call' = IF transport = NoInit THEN Over(d, "refused") ELSE d
    BY <1>1, <1>8 DEF Started, OrRefused
  <2> HIDE DEF d
  <2>3. sdk \notin Piecemeal => sdk = "browser"
    BY <1>2, <1>8 DEF ClientSdks, Piecemeal
  <2>4. CallInv(call')
    BY <1>5, <1>8, <2>1, <2>2, <2>3 DEF CallInv, ReadInForce
  <2> QED
    BY <1>1, <1>2, <2>4, CaptureSteps
<1> QED
  BY <1>6, <1>7, <1>8

\* What a capture ends with.
LEMMA Overs ==
  ASSUME NEW c \in FollowedCalls, NEW how \in EndKinds
  PROVE  /\ Over(c, how) \in FollowedCalls /\ Over(c, how).pc = "over"
         /\ Over(c, how).env = c.env /\ Over(c, how).rel = c.rel
         /\ Over(c, how).ends = Append(c.ends, how)
         /\ Over(c, how).reinit = c.reinit /\ Over(c, how).met = c.met
         /\ Over(c, how).chain = c.chain /\ Over(c, how).original = c.original
<1>1. Append(c.ends, how) \in Seq(EndKinds)
  BY AppendProperties DEF FollowedCalls
<1>2. Over(c, how) = [c EXCEPT !.pc = "over", !.ends = Append(c.ends, how)]
  BY DEF Over
<1> QED
  BY <1>1, <1>2 DEF FollowedCalls, CallPcs

LEMMA SeverityKnown == \A s, kind : SeverityOf(s, kind) \in {"critical", "info", "error"}
  BY DEF SeverityOf

\* A hook that lets an event pass hands over what was read.
LEMMA Asks ==
  ASSUME ClientInv, NEW h, NEW to \in InitOrNone, Asked(h, to),
         UNCHANGED <<setup, initVars, installed>>,
         sdk \notin Piecemeal => call.env = call.rel,
         sdk = "go" \/ (~call.reinit /\ ~mingled) => call.env = call.rel /\ call.rel = to
  PROVE  ClientInv'
<1>1. SetupInv /\ CallInv(call) /\ call \in FollowedCalls /\ installed' \in 0 .. MaxHandlers
  BY DEF ClientInv, CallInv, SetupInv, ClientTypeOK
<1>2. \A how \in EndKinds : CallInv(Over(call, how))
  BY <1>1, Overs DEF CallInv
<1>3. CASE h = "drop" /\ call' = Over(call, "dropped") /\ UNCHANGED events
  BY <1>1, <1>2, <1>3, CaptureSteps DEF EndKinds
<1>4. CASE h = "fail" /\ call' = Over(call, "raised") /\ UNCHANGED events
  BY <1>1, <1>2, <1>4, CaptureSteps DEF EndKinds
<1>5. CASE h \in {"none", "keep"} /\ Send(call, to)
  <2> DEFINE e == [env |-> call.env, rel |-> call.rel, to |-> to, reinit |-> call.reinit,
                   severity |-> SeverityOf(sdk, program.kind)]
  <2>1. events' = Append(events, e) /\ call' = Over(call, "sent")
    BY <1>5 DEF Send, Over
  <2>2. e \in ClientEvents
    BY <1>1, SeverityKnown DEF FollowedCalls, ClientEvents
  <2>3. e.env = call.env /\ e.rel = call.rel /\ e.to = to /\ e.reinit = call.reinit
    OBVIOUS
  <2> HIDE DEF e
  <2>4. sdk \in OneInitAtATime => ~mingled
    BY <1>1 DEF SetupInv
  <2>5. OwnEvent(e)
    BY <2>3, <2>4 DEF OwnEvent
  <2>6. CallInv(call')
    BY <1>2, <2>1 DEF EndKinds
  <2> QED
    BY <1>1, <2>1, <2>2, <2>5, <2>6, CaptureSteps
<1> QED
  BY <1>3, <1>4, <1>5 DEF Asked

LEMMA Reads ==
  ASSUME ClientInv, ReadEnvironment \/ ReadRelease \/ CheckHook \/ AskHook \/ Original
  PROVE  ClientInv'
<1>1. SetupInv /\ CallInv(call) /\ call \in FollowedCalls /\ installed \in 0 .. MaxHandlers
      /\ Config \in InitOrNone /\ sdk \in ClientSdks
  BY ConfigKnown DEF ClientInv, CallInv, SetupInv, ClientTypeOK
<1>2. CASE ReadEnvironment
  <2>1. CASE sdk = "browser"
    <3>1. call' = [call EXCEPT !.env = Config, !.rel = Config, !.pc = "built"]
      BY <1>2, <2>1 DEF ReadEnvironment
    <3>2. /\ call' \in FollowedCalls /\ call'.pc = "built" /\ call'.env = Config
          /\ call'.rel = Config /\ call'.reinit = call.reinit
      BY <1>1, <3>1 DEF FollowedCalls, CallPcs
    <3>3. call.pc = "checked"
      BY <1>2 DEF ReadEnvironment
    <3>4. CallInv(call')
      BY <1>1, <2>1, <3>2, <3>3 DEF CallInv, ReadInForce
    <3> QED
      BY <1>1, <1>2, <3>4, CaptureSteps DEF ReadEnvironment
  <2>2. CASE sdk # "browser"
    <3>1. call' = [call EXCEPT !.env = Config, !.pc = "reading"] /\ call.pc = "checked"
      BY <1>2, <2>2 DEF ReadEnvironment
    <3>2. /\ call' \in FollowedCalls /\ call'.pc = "reading" /\ call'.env = Config
          /\ call'.reinit = call.reinit
      BY <1>1, <3>1 DEF FollowedCalls, CallPcs
    <3>3. sdk \in Piecemeal
      BY <1>1, <2>2, <3>1 DEF CallInv
    <3>4. CallInv(call')
      BY <1>1, <3>1, <3>2, <3>3 DEF CallInv, ReadInForce
    <3> QED
      BY <1>1, <1>2, <3>4, CaptureSteps DEF ReadEnvironment
  <2> QED
    BY <2>1, <2>2
<1>3. CASE ReadRelease
  <2>1. call' = [call EXCEPT !.rel = Config, !.pc = "built"] /\ call.pc = "reading"
    BY <1>3 DEF ReadRelease
  <2>2. /\ call' \in FollowedCalls /\ call'.pc = "built" /\ call'.rel = Config
        /\ call'.env = call.env /\ call'.reinit = call.reinit
    BY <1>1, <2>1 DEF FollowedCalls, CallPcs
  <2>3. sdk \in Piecemeal
    BY <1>1, <2>1 DEF CallInv
  <2>4. CallInv(call')
    BY <1>1, <2>1, <2>2, <2>3 DEF CallInv, ReadInForce
  <2> QED
    BY <1>1, <1>3, <2>4, CaptureSteps DEF ReadRelease
<1>4. CASE CheckHook
  <2> DEFINE next == IF HookOf(Config) = "none" THEN "filtered" ELSE "hooked"
  <2>1. call' = [call EXCEPT !.hook = Config, !.pc = next] /\ call.pc = "built" /\ sdk \in Piecemeal
    BY <1>4 DEF CheckHook
  <2>2. next \in {"filtered", "hooked"}
    OBVIOUS
  <2> HIDE DEF next
  <2>3. /\ call' \in FollowedCalls /\ call'.pc = next /\ call'.rel = call.rel
        /\ call'.env = call.env /\ call'.reinit = call.reinit
    BY <1>1, <2>1, <2>2 DEF FollowedCalls, CallPcs
  <2>4. CallInv(call')
    BY <1>1, <2>1, <2>2, <2>3 DEF CallInv, ReadInForce
  <2> QED
    BY <1>1, <1>4, <2>4, CaptureSteps DEF CheckHook
<1>5. CASE AskHook
  <2>1. /\ call.pc = "hooked" /\ UNCHANGED <<setup, initVars, installed, events>>
        /\ call' \in {Over(call, "dropped"), Over(call, "raised"), [call EXCEPT !.pc = "filtered"]}
    BY <1>5 DEF AskHook
  <2>2. CASE call' = [call EXCEPT !.pc = "filtered"]
    <3>1. /\ call' \in FollowedCalls /\ call'.pc = "filtered" /\ call'.rel = call.rel
          /\ call'.env = call.env /\ call'.reinit = call.reinit
      BY <1>1, <2>2 DEF FollowedCalls, CallPcs
    <3>2. sdk \in Piecemeal
      BY <1>1, <2>1 DEF CallInv
    <3>3. CallInv(call')
      BY <1>1, <2>1, <3>1, <3>2 DEF CallInv, ReadInForce
    <3> QED
      BY <1>1, <2>1, <3>3, CaptureSteps
  <2>3. CASE call' = Over(call, "dropped") \/ call' = Over(call, "raised")
    <3>1. CallInv(call')
      BY <1>1, <2>3, Overs DEF CallInv, EndKinds
    <3> QED
      BY <1>1, <2>1, <3>1, CaptureSteps
  <2> QED
    BY <2>1, <2>2, <2>3
<1>6. CASE Original
  <2>1. call' = [call EXCEPT !.original = TRUE]
    BY <1>6 DEF Original
  <2>2. /\ call' \in FollowedCalls /\ call'.pc = call.pc /\ call'.rel = call.rel
        /\ call'.env = call.env /\ call'.reinit = call.reinit
    BY <1>1, <2>1 DEF FollowedCalls
  <2>3. CallInv(call')
    BY <1>1, <2>2 DEF CallInv, ReadInForce
  <2> QED
    BY <1>1, <1>6, <2>3, CaptureSteps DEF Original
<1> QED
  BY <1>2, <1>3, <1>4, <1>5, <1>6

LEMMA Dispatches ==
  ASSUME ClientInv, DispatchGo \/ DispatchRust \/ DispatchBrowser \/ HandOver
  PROVE  ClientInv'
<1>1. SetupInv /\ CallInv(call) /\ call \in FollowedCalls /\ installed \in 0 .. MaxHandlers
      /\ transport \in InitOrNone /\ call.env \in InitOrNone
  BY ConfigKnown DEF ClientInv, CallInv, SetupInv, ClientTypeOK, FollowedCalls
<1>2. CASE DispatchGo
  <2>1. sdk \notin Piecemeal /\ sdk = "go"
    BY <1>2 DEF DispatchGo, Piecemeal
  <2> QED
    BY <1>1, <1>2, <2>1, Asks DEF DispatchGo, CallInv
<1>3. CASE DispatchRust
  <2>1. sdk \notin Piecemeal /\ sdk # "go" /\ call.pc = "built"
    BY <1>3 DEF DispatchRust, Piecemeal
  <2>2. call.env = call.rel
    BY <1>1, <2>1 DEF CallInv
  <2>3. ~call.reinit /\ ~mingled => call.rel = transport
    BY <1>1, <2>1 DEF CallInv, SetupInv, ReadInForce
  <2>4. CASE transport = NoInit
    <3>1. call' = Over(call, "refused") /\ UNCHANGED <<setup, initVars, installed, events>>
      BY <1>3, <2>4 DEF DispatchRust
    <3>2. CallInv(call')
      BY <1>1, <3>1, Overs DEF CallInv, EndKinds
    <3> QED
      BY <1>1, <3>1, <3>2, CaptureSteps
  <2>5. CASE transport # NoInit
    <3>1. PICK h \in SendHooks : Asked(h, transport)
      BY <1>3, <2>5 DEF DispatchRust
    <3> QED
      BY <1>1, <1>3, <2>1, <2>2, <2>3, <3>1, Asks DEF DispatchRust
  <2> QED
    BY <2>4, <2>5
<1>4. CASE DispatchBrowser
  <2>1. sdk \notin Piecemeal /\ sdk # "go" /\ call.pc = "built"
    BY <1>4 DEF DispatchBrowser, Piecemeal
  <2>2. call.env = call.rel
    BY <1>1, <2>1 DEF CallInv
  <2>3. ~call.reinit /\ ~mingled => call.rel = transport
    BY <1>1, <2>1 DEF CallInv, SetupInv, ReadInForce
  <2> QED
    BY <1>1, <1>4, <2>1, <2>2, <2>3, Asks DEF DispatchBrowser
<1>5. CASE HandOver
  <2>1. call.pc = "filtered" /\ Send(call, transport)
    BY <1>5 DEF HandOver
  <2>2. sdk \in Piecemeal /\ sdk # "go"
    BY <1>1, <2>1 DEF CallInv, Piecemeal
  <2>3. ~call.reinit /\ ~mingled => call.env = call.rel /\ call.rel = transport
    BY <1>1, <2>1 DEF CallInv, SetupInv, ReadInForce
  <2>4. Asked("none", transport)
    BY <2>1 DEF Asked
  <2> QED
    BY <1>1, <1>5, <2>2, <2>3, <2>4, Asks DEF HandOver
<1> QED
  BY <1>2, <1>3, <1>4, <1>5

LEMMA Handlers ==
  ASSUME ClientInv, Capture \/ InstallHandler \/ Panic \/ NextHandler
  PROVE  ClientInv'
<1>1. SetupInv /\ CallInv(call) /\ call \in FollowedCalls /\ installed \in 0 .. MaxHandlers
      /\ call.chain \in 0 .. MaxHandlers /\ call.ends \in Seq(EndKinds)
      /\ <<>> \in Seq(EndKinds) /\ MaxHandlers \in Nat
  BY SdkClientsAssumption, EmptySeq DEF ClientInv, CallInv, SetupInv, ClientTypeOK, FollowedCalls
<1>2. CASE Capture
  <2>1. 0 \in 0 .. MaxHandlers /\ BeginCapture(0, <<>>)
    BY <1>1, <1>2 DEF Capture
  <2> QED
    BY <1>1, <2>1, Begins
<1>3. CASE Panic
  BY <1>1, <1>3, Begins DEF Panic
<1>4. CASE NextHandler
  <2>1. call.chain - 1 \in 0 .. MaxHandlers /\ BeginCapture(call.chain - 1, call.ends)
    BY <1>1, <1>4 DEF NextHandler
  <2> QED
    BY <1>1, <2>1, Begins
<1>5. CASE InstallHandler
  <2>1. installed' \in 0 .. MaxHandlers /\ UNCHANGED <<setup, initVars, call, events>>
    BY <1>1, <1>5 DEF InstallHandler
  <2> QED
    BY <1>1, <2>1, CaptureSteps
<1> QED
  BY <1>2, <1>3, <1>4, <1>5

LEMMA ClientKept == ClientInv /\ ClientNext => ClientInv'
<1> SUFFICES ASSUME ClientInv, ClientNext PROVE ClientInv'
  OBVIOUS
<1>1. ASSUME NEW i \in Inits, InitGo(i) \/ InitRust(i) \/ InitBrowser(i)
      PROVE  ClientInv'
  BY <1>1, InitsBegin DEF InitGo, InitRust, InitBrowser, Piecemeal
<1>2. ASSUME NEW i \in Inits, Configure(i) \/ InstallTransport(i) \/ ReportDeploy(i)
      PROVE  ClientInv'
  BY <1>2, Configures, Installs, Reports
<1>3. CASE Capture \/ InstallHandler \/ Panic \/ NextHandler
  BY <1>3, Handlers
<1>4. CASE ReadEnvironment \/ ReadRelease \/ CheckHook \/ AskHook \/ Original
  BY <1>4, Reads
<1>5. CASE DispatchGo \/ DispatchRust \/ DispatchBrowser \/ HandOver
  BY <1>5, Dispatches
<1> QED
  BY <1>1, <1>2, <1>3, <1>4, <1>5 DEF ClientNext

LEMMA ClientRests == ClientInv /\ UNCHANGED clientVars => ClientInv'
<1> SUFFICES ASSUME ClientInv, UNCHANGED clientVars PROVE ClientInv'
  OBVIOUS
<1>1. CallInv(call') /\ installed' \in 0 .. MaxHandlers /\ events' = events
  BY DEF clientVars, ClientInv, SetupInv, ClientTypeOK
<1> QED
  BY <1>1, CaptureSteps DEF clientVars

LEMMA EventsOfOneInit == ClientInv => OfOneInit
  BY DEF ClientInv, OwnEvent, OfOneInit

-----------------------------------------------------------------------------
(* The peer agent *)

Results == {"locals", "error", "no match", "diff"}
CallIds == Nat \X Nat
Messages ==
  [role : {"system", "user", "assistant", "tool"}, id : {0} \cup CallIds,
   calls : Seq(CallIds \cup Results)]

\* The calls of the message at n have their answers behind it.
AnsweredAt(said, n) ==
  said[n].role = "assistant" =>
    /\ n + Len(said[n].calls) <= Len(said)
    /\ \A k \in DOMAIN said[n].calls :
         said[n + k].role = "tool" /\ said[n + k].id = said[n].calls[k] /\ said[n + k].calls # <<>>

\* A chat that is out began with time left, about an event to ask about.
AgentInv ==
  /\ AgentTypeOK /\ EventLeaves
  /\ chatState = "out" => elapsed + MinLeft <= Deadline
  /\ chatState # "done" => egress = NotYet
  /\ chatState \in {"turn", "out"} => enabled /\ asking.rank >= minRank /\ ~asking.known
  /\ dialogue \in Seq(Messages) /\ \A n \in DOMAIN dialogue : AnsweredAt(dialogue, n)

\* A finite set of numbers has as many first ones as it has elements.
LEMMA NthExists ==
  ASSUME NEW N \in Nat, NEW ks \in SUBSET (1 .. N), NEW n \in 1 .. Cardinality(ks)
  PROVE  NthOf(ks, n) \in ks
<1> DEFINE Upto(k) == {j \in ks : j <= k}
           I == {k \in 0 .. N : \A m \in 1 .. Cardinality(Upto(k)) :
                                  \E j \in ks : Cardinality(Upto(j)) = m}
<1>1. IsFiniteSet(ks)
  <2>1. IsFiniteSet(1 .. N)
    BY FS_Interval
  <2> QED
    BY <2>1, FS_Subset
<1>2. \A k : Upto(k) \in SUBSET ks
  OBVIOUS
<1>3. \A k : IsFiniteSet(Upto(k)) /\ Cardinality(Upto(k)) \in Nat
  <2> HIDE DEF Upto
  <2> QED
    BY <1>1, <1>2, FS_Subset, FS_CardinalityType
<1>4. Upto(0) = {} /\ Upto(N) = ks
  <2>1. \A j \in ks : ~(j <= 0) /\ j <= N
    OBVIOUS
  <2> QED
    BY <2>1
<1>5. ASSUME NEW k \in 0 .. N - 1
      PROVE  /\ k + 1 \in ks => Upto(k + 1) = Upto(k) \cup {k + 1}
             /\ k + 1 \notin ks => Upto(k + 1) = Upto(k)
  <2>1. \A j \in ks : j <= k + 1 <=> (j <= k \/ j = k + 1)
    OBVIOUS
  <2>2. k + 1 <= k + 1
    OBVIOUS
  <2> QED
    BY <2>1, <2>2
<1>6. \A k \in 0 .. N - 1 : k + 1 \notin Upto(k)
  OBVIOUS
<1> HIDE DEF Upto
<1>7. 0 \in I
  BY <1>4, FS_EmptySet
<1>8. ASSUME NEW k \in 0 .. N - 1, k \in I
      PROVE  k + 1 \in I
  <2>1. CASE k + 1 \notin ks
    <3>1. Upto(k + 1) = Upto(k)
      BY <1>5, <2>1
    <3>2. k + 1 \in 0 .. N
      OBVIOUS
    <3> QED
      BY <1>8, <3>1, <3>2
  <2>2. CASE k + 1 \in ks
    <3>1. Cardinality(Upto(k + 1)) = Cardinality(Upto(k)) + 1
      BY <1>3, <1>5, <1>6, <2>2, FS_AddElement
    <3>2. ASSUME NEW m \in 1 .. Cardinality(Upto(k + 1))
          PROVE  \E j \in ks : Cardinality(Upto(j)) = m
      <4>1. m \in 1 .. Cardinality(Upto(k)) \/ m = Cardinality(Upto(k + 1))
        BY <1>3, <3>1, <3>2
      <4> QED
        BY <1>8, <2>2, <4>1
    <3> QED
      BY <3>2
  <2> QED
    BY <2>1, <2>2
<1> HIDE DEF I
<1>9. 0 .. N \subseteq I
  BY <1>7, <1>8, IndexInduction
<1>10. N \in I
  BY <1>9
<1>11. \E k \in ks : Cardinality(Upto(k)) = n
  BY <1>4, <1>10 DEF I
<1> QED
  BY <1>11 DEF Upto, NthOf

LEMMA Parsed ==
  ASSUME NEW n \in Nat, NEW answer \in [1 .. n -> Entries]
  PROVE  LET parsed == ParseHypotheses(answer)
         IN  /\ parsed \in Seq({"good"}) /\ Len(parsed) <= MaxHypotheses
             /\ parsed # <<>> => ToSet(parsed) = {"good"}
<1> DEFINE ks == WellFormed(answer)
           taken == IF Cardinality(ks) > MaxHypotheses THEN MaxHypotheses ELSE Cardinality(ks)
           parsed == ParseHypotheses(answer)
<1>1. ks \in SUBSET (1 .. n) /\ \A k \in ks : answer[k] \in Entries \ {"bad"}
  BY DEF WellFormed
<1>2. IsFiniteSet(1 .. n)
  BY FS_Interval
<1>3. parsed = [k \in 1 .. taken |-> Clamp01(answer[NthOf(ks, k)])]
  BY DEF ParseHypotheses
<1> HIDE DEF ks, parsed
<1>4. Cardinality(ks) \in Nat
  BY <1>1, <1>2, FS_Subset, FS_CardinalityType
<1>5. taken \in Nat /\ taken <= MaxHypotheses /\ taken <= Cardinality(ks)
  BY <1>4 DEF MaxHypotheses
<1> HIDE DEF taken
<1>6. ASSUME NEW k \in 1 .. taken
      PROVE  Clamp01(answer[NthOf(ks, k)]) = "good"
  <2>1. k \in 1 .. Cardinality(ks)
    BY <1>4, <1>5
  <2>2. NthOf(ks, k) \in ks
    BY <1>1, <2>1, NthExists
  <2> QED
    BY <1>1, <2>2 DEF Clamp01, Entries
<1>7. parsed \in [1 .. taken -> {"good"}]
  BY <1>3, <1>6
<1>8. parsed \in Seq({"good"}) /\ Len(parsed) = taken
  BY <1>5, <1>7, FunctionIsSeq
<1>9. parsed # <<>> => ToSet(parsed) = {"good"}
  <2> SUFFICES ASSUME parsed # <<>> PROVE ToSet(parsed) = {"good"}
    OBVIOUS
  <2>1. Len(parsed) # 0
    BY <1>8, EmptySeq
  <2>2. 1 \in DOMAIN parsed /\ \A k \in DOMAIN parsed : parsed[k] = "good"
    BY <1>5, <1>7, <1>8, <2>1
  <2> QED
    BY <2>2 DEF ToSet
<1> QED
  BY <1>5, <1>8, <1>9 DEF parsed

LEMMA AgentStarts == AgentInit => AgentInv
<1> SUFFICES ASSUME AgentInit PROVE AgentInv
  OBVIOUS
<1>1. dialogue \in Seq(Messages) /\ DOMAIN dialogue = {}
  BY EmptySeq DEF AgentInit
<1>2. AgentTypeOK
  BY PeerAgentAssumption DEF AgentInit, AgentTypeOK
<1>3. EventLeaves
  <2>1. elapsed = 0 /\ 0 < 2 * Deadline
    BY PeerAgentAssumption DEF AgentInit
  <2>2. egress.returned = FALSE /\ egress.hypotheses = <<>> /\ egress.schema = "" /\ chatState = "given"
    BY DEF AgentInit, NotYet
  <2> QED
    BY <2>1, <2>2 DEF EventLeaves
<1> QED
  BY <1>1, <1>2, <1>3 DEF AgentInv, AgentInit

\* An event that leaves has what the model knew of it.
LEMMA Returned ==
  ASSUME AgentInv, NEW hs \in Seq({"good"}), Return(hs),
         Len(hs) <= MaxHypotheses, hs # <<>> => ToSet(hs) = {"good"} /\ chatState = "out",
         elapsed' \in Nat, elapsed' < 2 * Deadline,
         UNCHANGED <<enabled, minRank, asking, chats, dialogue>>
  PROVE  AgentInv'
<1>1. chatState' = "done" /\ egress' = IF hs = <<>> THEN [NotYet EXCEPT !.returned = TRUE]
               ELSE [returned |-> TRUE, hypotheses |-> hs, schema |-> "2.0"]
  BY DEF Return
<1>2. AgentTypeOK'
  BY <1>1 DEF AgentInv, AgentTypeOK
<1>3. EventLeaves'
  <2>1. CASE hs = <<>>
    <3>1. egress'.returned = TRUE /\ egress'.hypotheses = <<>> /\ egress'.schema = ""
      BY <1>1, <2>1 DEF NotYet
    <3> QED
      BY <1>1, <3>1 DEF EventLeaves
  <2>2. CASE hs # <<>>
    <3>1. egress'.returned = TRUE /\ egress'.hypotheses = hs /\ egress'.schema = "2.0"
      BY <1>1, <2>2
    <3> QED
      BY <1>1, <2>2, <3>1 DEF EventLeaves, AgentInv
  <2> QED
    BY <2>1, <2>2
<1> QED
  BY <1>1, <1>2, <1>3 DEF AgentInv, AnsweredAt

\* The answers to the calls of one message stand right behind it.
LEMMA Answered ==
  ASSUME NEW said \in Seq(Messages), \A n \in DOMAIN said : AnsweredAt(said, n),
         NEW ids \in Seq(CallIds), NEW answers \in Seq(Messages), Len(ids) = Len(answers),
         \A k \in DOMAIN ids : /\ answers[k].role = "tool" /\ answers[k].id = ids[k]
                               /\ answers[k].calls # <<>>,
         NEW more, more = said \o <<Said("assistant", 0, ids)>> \o answers
  PROVE  more \in Seq(Messages) /\ \A n \in DOMAIN more : AnsweredAt(more, n)
<1> DEFINE request == Said("assistant", 0, ids)
           half == said \o <<request>>
<1>1. /\ Len(said) \in Nat /\ DOMAIN said = 1 .. Len(said) /\ Len(answers) \in Nat
      /\ DOMAIN ids = 1 .. Len(answers)
      /\ \A n \in 1 .. Len(said) : said[n] \in Messages
  BY LenProperties, ElementOfSeq
<1>2. request \in Messages /\ request.role = "assistant" /\ request.calls = ids
  <2>1. ids \in Seq(CallIds \cup Results)
    BY <1>1, ElementOfSeq, LenProperties
  <2> QED
    BY <2>1 DEF Messages, Said
<1> HIDE DEF request
<1>3. /\ half \in Seq(Messages) /\ Len(half) = Len(said) + 1
      /\ \A n \in 1 .. Len(said) : half[n] = said[n]
      /\ half[Len(said) + 1] = request
  <2>1. <<request>> \in Seq(Messages) /\ Len(<<request>>) = 1 /\ <<request>>[1] = request
    BY <1>2
  <2> QED
    BY <1>1, <2>1, ConcatProperties
<1> HIDE DEF half
<1>4. more = half \o answers
  BY DEF half, request
<1>5. /\ more \in Seq(Messages) /\ Len(more) = Len(said) + 1 + Len(answers)
      /\ \A n \in 1 .. Len(said) : more[n] = said[n]
      /\ more[Len(said) + 1] = request
      /\ \A k \in 1 .. Len(answers) : more[Len(said) + 1 + k] = answers[k]
  BY <1>1, <1>3, <1>4, ConcatProperties
<1>6. DOMAIN more = 1 .. Len(said) + 1 + Len(answers)
  BY <1>5, LenProperties
<1>7. ASSUME NEW n \in DOMAIN more
      PROVE  AnsweredAt(more, n)
  <2>1. CASE n \in 1 .. Len(said)
    <3> SUFFICES ASSUME said[n].role = "assistant"
                 PROVE  AnsweredAt(more, n)
      BY <1>5, <2>1 DEF AnsweredAt
    <3>1. /\ n + Len(said[n].calls) <= Len(said)
          /\ \A k \in DOMAIN said[n].calls : /\ said[n + k].role = "tool"
                                             /\ said[n + k].id = said[n].calls[k]
                                             /\ said[n + k].calls # <<>>
      BY <1>1, <2>1 DEF AnsweredAt
    <3>2. Len(said[n].calls) \in Nat /\ DOMAIN said[n].calls = 1 .. Len(said[n].calls)
      BY <1>1, <2>1, LenProperties DEF Messages
    <3>3. \A k \in DOMAIN said[n].calls : n + k \in 1 .. Len(said)
      BY <1>1, <2>1, <3>1, <3>2
    <3>4. more[n] = said[n]
      BY <1>5, <2>1
    <3>5. n + Len(more[n].calls) <= Len(more)
      BY <1>1, <1>5, <2>1, <3>1, <3>2, <3>4
    <3>6. \A k \in DOMAIN more[n].calls : /\ more[n + k].role = "tool"
                                          /\ more[n + k].id = more[n].calls[k]
                                          /\ more[n + k].calls # <<>>
      BY <1>5, <3>1, <3>3, <3>4
    <3> QED
      BY <3>5, <3>6 DEF AnsweredAt
  <2>2. CASE n = Len(said) + 1
    BY <1>1, <1>2, <1>5, <2>2 DEF AnsweredAt
  <2>3. CASE n \in Len(said) + 2 .. Len(more)
    <3> DEFINE k == n - (Len(said) + 1)
    <3>1. k \in 1 .. Len(answers) /\ Len(said) + 1 + k = n
      BY <1>1, <1>5, <2>3
    <3> HIDE DEF k
    <3>2. more[n] = answers[k]
      BY <1>5, <3>1
    <3>3. more[n].role = "tool"
      BY <1>1, <3>1, <3>2
    <3> QED
      BY <3>3 DEF AnsweredAt
  <2> QED
    BY <1>1, <1>5, <1>6, <2>1, <2>2, <2>3
<1> QED
  BY <1>5, <1>7

\* Nothing to attach.
LEMMA LeavesAsItCame ==
  ASSUME AgentInv, Return(<<>>), elapsed' \in Nat, elapsed' < 2 * Deadline,
         UNCHANGED <<enabled, minRank, asking, chats, dialogue>>
  PROVE  AgentInv'
<1>1. <<>> \in Seq({"good"}) /\ Len(<<>>) <= MaxHypotheses
  BY EmptySeq DEF MaxHypotheses
<1> QED
  BY <1>1, Returned

LEMMA ResultsKnown == \A c : RunTool(c) \in Results
  BY DEF RunTool, Results, GetLocalsAtFrame, EvaluateInFrame, MatchFingerprint, DiffSinceDeploy

LEMMA ToolsCalled ==
  ASSUME AgentInv, ModelCallsTools
  PROVE  AgentInv'
<1>1. /\ chatState = "out" /\ elapsed + MinLeft <= Deadline /\ elapsed \in Nat
      /\ Deadline \in Nat \ {0} /\ MinLeft \in Nat \ {0} /\ chats \in Nat
      /\ dialogue \in Seq(Messages) /\ \A n \in DOMAIN dialogue : AnsweredAt(dialogue, n)
  BY PeerAgentAssumption DEF AgentInv, ModelCallsTools, AgentTypeOK
<1>2. elapsed' \in Nat /\ elapsed' < 2 * Deadline
  <2>1. PICK d \in 0 .. Deadline : elapsed' = elapsed + d
    BY DEF ModelCallsTools, Passes
  <2> QED
    BY <1>1, <2>1
<1>3. PICK cs \in ToolCalls :
        LET ids == [k \in DOMAIN cs |-> <<chats, k>>] IN
        IF \E k \in DOMAIN cs : ToolThrows(cs[k])
        THEN Return(<<>>) /\ UNCHANGED dialogue
        ELSE /\ dialogue' = dialogue \o <<Said("assistant", 0, ids)>> \o Answers(cs)
             /\ chatState' = "turn" /\ UNCHANGED egress
  BY DEF ModelCallsTools
<1>4. UNCHANGED <<enabled, minRank, asking, chats>>
  BY DEF ModelCallsTools
<1>5. CASE Return(<<>>) /\ UNCHANGED dialogue
  BY <1>2, <1>4, <1>5, LeavesAsItCame
<1> DEFINE ids == [k \in DOMAIN cs |-> <<chats, k>>]
<1>6. CASE /\ dialogue' = dialogue \o <<Said("assistant", 0, ids)>> \o Answers(cs)
           /\ chatState' = "turn" /\ UNCHANGED egress
  <2>1. PICK n \in 1 .. MaxCalls : cs \in [1 .. n -> [tool : AgentTools, args : Arguments]]
    BY DEF ToolCalls
  <2>2. n \in Nat /\ DOMAIN cs = 1 .. n
    BY <2>1, PeerAgentAssumption
  <2>3. ids \in [1 .. n -> CallIds]
    BY <1>1, <2>2 DEF CallIds
  <2>4. \A k \in 1 .. n : Said("tool", <<chats, k>>, <<RunTool(cs[k])>>) \in Messages
    <3> SUFFICES ASSUME NEW k \in 1 .. n
                 PROVE  Said("tool", <<chats, k>>, <<RunTool(cs[k])>>) \in Messages
      OBVIOUS
    <3>1. RunTool(cs[k]) \in CallIds \cup Results /\ <<chats, k>> \in CallIds
      BY <1>1, <2>2, ResultsKnown DEF CallIds
    <3>2. <<RunTool(cs[k])>> \in Seq(CallIds \cup Results)
      BY <3>1
    <3> QED
      BY <3>1, <3>2 DEF Said, Messages
  <2>5. Answers(cs) \in [1 .. n -> Messages]
    BY <2>2, <2>4 DEF Answers
  <2>6. /\ ids \in Seq(CallIds) /\ Len(ids) = n
        /\ Answers(cs) \in Seq(Messages) /\ Len(Answers(cs)) = n
    BY <2>2, <2>3, <2>5, FunctionIsSeq
  <2>7. \A k \in DOMAIN ids : /\ Answers(cs)[k].role = "tool" /\ Answers(cs)[k].id = ids[k]
                              /\ Answers(cs)[k].calls # <<>>
    BY <2>2 DEF Answers, Said
  <2> HIDE DEF ids
  <2>8. dialogue' \in Seq(Messages) /\ \A m \in DOMAIN dialogue' : AnsweredAt(dialogue', m)
    BY <1>1, <1>6, <2>6, <2>7, Answered
  <2>9. AgentTypeOK'
    BY <1>2, <1>4, <1>6 DEF AgentInv, AgentTypeOK
  <2>10. EventLeaves'
    BY <1>1, <1>2, <1>4, <1>6 DEF AgentInv, EventLeaves
  <2>11. \A m \in DOMAIN dialogue' : AnsweredAt(dialogue, m)'
    BY <2>8 DEF AnsweredAt
  <2> QED
    BY <1>1, <1>4, <1>6, <2>8, <2>9, <2>10, <2>11 DEF AgentInv
<1> QED
  BY <1>3, <1>5, <1>6

LEMMA AgentKept == AgentInv /\ AgentNext => AgentInv'
<1> SUFFICES ASSUME AgentInv, AgentNext PROVE AgentInv'
  OBVIOUS
<1>1. /\ elapsed \in Nat /\ elapsed < 2 * Deadline /\ Deadline \in Nat \ {0}
      /\ MinLeft \in Nat \ {0} /\ MAX_TOOL_ITERATIONS \in Nat \ {0}
      /\ chats \in 0 .. MAX_TOOL_ITERATIONS
  BY PeerAgentAssumption DEF AgentInv, AgentTypeOK, EventLeaves
<1>2. chatState = "out" /\ Passes => elapsed' \in Nat /\ elapsed' < 2 * Deadline
  <2> SUFFICES ASSUME chatState = "out", Passes PROVE elapsed' \in Nat /\ elapsed' < 2 * Deadline
    OBVIOUS
  <2>1. PICK d \in 0 .. Deadline : elapsed' = elapsed + d
    BY DEF Passes
  <2>2. elapsed + MinLeft <= Deadline
    BY DEF AgentInv
  <2> QED
    BY <1>1, <2>1, <2>2
<1>3. CASE PassThrough
  BY <1>1, <1>3, LeavesAsItCame DEF PassThrough
<1>4. CASE GiveUp
  BY <1>1, <1>4, LeavesAsItCame DEF GiveUp
<1>5. CASE ChatFails
  BY <1>2, <1>5, LeavesAsItCame DEF ChatFails
<1>6. CASE ModelCallsTools
  BY <1>6, ToolsCalled
<1>7. CASE ModelAnswers
  <2>1. PICK n \in 0 .. MaxEntries :
          \E answer \in [1 .. n -> Entries] : Return(ParseHypotheses(answer))
    BY <1>7 DEF ModelAnswers
  <2>2. n \in Nat
    BY PeerAgentAssumption
  <2>4. PICK answer \in [1 .. n -> Entries] : Return(ParseHypotheses(answer))
    BY <2>1
  <2> DEFINE parsed == ParseHypotheses(answer)
  <2>3. /\ parsed \in Seq({"good"}) /\ Len(parsed) <= MaxHypotheses
        /\ parsed # <<>> => ToSet(parsed) = {"good"}
    BY <2>2, Parsed
  <2> HIDE DEF parsed
  <2> QED
    BY <1>2, <1>7, <2>3, <2>4, Returned DEF ModelAnswers, parsed
<1>8. CASE Diagnose
  <2>1. /\ dialogue' = <<Said("system", 0, <<>>), Said("user", 0, <<>>)>>
        /\ chatState = "given" /\ enabled /\ asking.rank >= minRank /\ ~asking.known
        /\ chatState' = "turn" /\ UNCHANGED <<enabled, minRank, asking, elapsed, chats, egress>>
    BY <1>8 DEF Diagnose
  <2>2. Said("system", 0, <<>>) \in Messages /\ Said("user", 0, <<>>) \in Messages
    BY EmptySeq DEF Said, Messages
  <2>3. dialogue' \in Seq(Messages) /\ DOMAIN dialogue' = {1, 2}
    BY <2>1, <2>2
  <2>4. \A n \in DOMAIN dialogue' : AnsweredAt(dialogue, n)'
    BY <2>1, <2>3 DEF AnsweredAt, Said
  <2>5. AgentTypeOK' /\ EventLeaves'
    BY <2>1 DEF AgentInv, AgentTypeOK, EventLeaves, NotYet
  <2> QED
    BY <2>1, <2>3, <2>4, <2>5 DEF AgentInv
<1>9. CASE ChatBegins
  <2>1. /\ chatState = "turn" /\ chats < MAX_TOOL_ITERATIONS /\ Remaining >= MinLeft
        /\ chats' = chats + 1 /\ chatState' = "out"
        /\ UNCHANGED <<enabled, minRank, asking, elapsed, dialogue, egress>>
    BY <1>9 DEF ChatBegins
  <2>2. elapsed + MinLeft <= Deadline
    BY <1>1, <2>1 DEF Remaining
  <2>3. AgentTypeOK'
    BY <1>1, <2>1 DEF AgentInv, AgentTypeOK
  <2>4. EventLeaves'
    BY <2>1 DEF AgentInv, EventLeaves, NotYet
  <2> QED
    BY <2>1, <2>2, <2>3, <2>4 DEF AgentInv, AnsweredAt
<1> QED
  BY <1>3, <1>4, <1>5, <1>6, <1>7, <1>8, <1>9 DEF AgentNext

LEMMA AgentRests == AgentInv /\ UNCHANGED agentVars => AgentInv'
<1> SUFFICES ASSUME AgentInv, UNCHANGED agentVars PROVE AgentInv'
  OBVIOUS
<1> QED
  BY DEF agentVars, AgentInv, AgentTypeOK, EventLeaves, AnsweredAt

LEMMA CallsAnswered == AgentInv => EveryCallAnswered /\ EventLeaves
  BY DEF AgentInv, AnsweredAt, EveryCallAnswered

-----------------------------------------------------------------------------
(* What the fleet client has contributed *)

\* A fingerprint is posted when it is noted, by an event that asked about it.
FleetTold ==
  /\ FleetTypeOK
  /\ \A p \in Fingerprints : posts[p] = IF p \in contributions THEN 1 ELSE 0
  /\ \A p \in Fingerprints : posts[p] <= asked[p]

\* Nothing is contributed yet.
LEMMA FleetTellsNothing == FleetInit => FleetTold
<1> SUFFICES ASSUME FleetInit PROVE FleetTold
  OBVIOUS
<1>1. FleetInv
  BY FleetStarts
<1>2. /\ built = [v \in Versions |-> {}] /\ observed = {} /\ contributions = {} /\ posting = {}
      /\ posts = [p \in Fingerprints |-> 0] /\ asked = posts
  BY DEF FleetInit
<1>3. {posts, asked} \subseteq [Fingerprints -> 0 .. MaxAsked]
  BY <1>2, FleetBloomAssumption
<1>4. built \in [Versions -> SUBSET Fingerprints]
  BY <1>2
<1>5. UNION {observed, contributions, posting} \subseteq Fingerprints
  BY <1>2
<1>6. FleetTypeOK
  BY <1>1, <1>3, <1>4, <1>5 DEF FleetInv, FleetTypeOK
<1> QED
  BY <1>2, <1>6 DEF FleetTold

\* Every step of the fleet client keeps what is told.
LEMMA FleetTells == FleetInv /\ FleetTold /\ FleetNext => FleetTold'
<1> SUFFICES ASSUME FleetInv, FleetTold, FleetNext PROVE FleetTold'
  OBVIOUS
<1>1. FleetInv'
  BY FleetKept
<1>2. /\ built \in [Versions -> SUBSET Fingerprints]
      /\ observed \subseteq Fingerprints /\ contributions \subseteq Fingerprints
      /\ posting \subseteq Fingerprints
      /\ posts \in [Fingerprints -> 0 .. MaxAsked] /\ asked \in [Fingerprints -> 0 .. MaxAsked]
  BY DEF FleetTold, FleetTypeOK
<1> DEFINE Told ==
        /\ built' \in [Versions -> SUBSET Fingerprints]
        /\ observed' \subseteq Fingerprints /\ contributions' \subseteq Fingerprints
        /\ posting' \subseteq Fingerprints
        /\ posts' \in [Fingerprints -> 0 .. MaxAsked] /\ asked' \in [Fingerprints -> 0 .. MaxAsked]
        /\ \A p \in Fingerprints : posts'[p] = IF p \in contributions' THEN 1 ELSE 0
        /\ \A p \in Fingerprints : posts'[p] <= asked'[p]
<1>3. Told => FleetTold'
  BY <1>1 DEF FleetTold, FleetTypeOK, FleetInv
<1>4. /\ \A p \in Fingerprints : posts[p] = IF p \in contributions THEN 1 ELSE 0
      /\ \A p \in Fingerprints : posts[p] <= asked[p]
  BY DEF FleetTold
<1>5. CASE ServerBuilds
  <2>1. /\ UNCHANGED <<observed, contributions, posting, posts, asked>>
        /\ built' = [built EXCEPT ![serverVersion + 1] = observed]
    BY <1>5 DEF ServerBuilds, contributing
  <2> QED
    BY <1>2, <1>3, <1>4, <2>1
<1>6. CASE Close \/ \E f \in Fetches : SendFetch(f) \/ ServerAnswers(f) \/ Kept(f) \/ Loaded(f)
  <2>1. UNCHANGED <<built, observed, contributions, posting, posts, asked>>
    BY <1>6 DEF Close, SendFetch, ServerAnswers, Kept, Loaded, FetchReturns, server, contributing
  <2> QED
    BY <1>2, <1>3, <1>4, <2>1
<1>7. ASSUME NEW p \in Fingerprints, NEW b \in BOOLEAN, FleetOnBeforeSend(p, b)
      PROVE  Told
  <2>1. /\ UNCHANGED <<built, observed>> /\ asked[p] < MaxAsked
        /\ asked' = [asked EXCEPT ![p] = @ + 1]
    BY <1>7 DEF FleetOnBeforeSend, server
  <2>2. /\ asked' \in [Fingerprints -> 0 .. MaxAsked]
        /\ \A f \in Fingerprints : asked[f] <= asked'[f] /\ posts[f] \in Nat /\ asked[f] \in Nat
        /\ asked[p] + 1 = asked'[p]
    <3>1. asked[p] \in 0 .. MaxAsked /\ MaxAsked \in Nat
      BY <1>2, FleetBloomAssumption
    <3>2. asked[p] + 1 \in 0 .. MaxAsked
      BY <2>1, <3>1
    <3> QED
      BY <1>2, <2>1, <3>1, <3>2
  <2>3. CASE Contribute(p)
    <3>1. /\ p \notin contributions /\ contributions' = contributions \cup {p}
          /\ posting' = posting \cup {p} /\ posts' = [posts EXCEPT ![p] = @ + 1]
      BY <2>3 DEF Contribute, Noted
    <3>2. posts[p] = 0 /\ posts' = [posts EXCEPT ![p] = 1]
      <4>1. posts[p] = 0
        BY <1>4, <3>1
      <4>2. posts[p] + 1 = 1
        BY <4>1
      <4> QED
        BY <3>1, <4>1, <4>2
    <3>3. 1 \in 0 .. MaxAsked /\ 1 <= asked'[p]
      <4>1. asked[p] \in Nat /\ asked[p] < MaxAsked /\ MaxAsked \in Nat
        BY <2>1, <2>2, FleetBloomAssumption
      <4> QED
        BY <2>2, <4>1
    <3>4. \A f \in Fingerprints : f # p => posts'[f] = posts[f]
      BY <1>2, <3>2
    <3>5. \A f \in Fingerprints : posts'[f] <= asked'[f]
      BY <1>2, <1>4, <2>2, <3>2, <3>3, <3>4
    <3> QED
      BY <1>2, <1>4, <2>1, <2>2, <3>1, <3>2, <3>3, <3>4, <3>5
  <2>4. CASE UNCHANGED <<contributions, posting, posts>>
    BY <1>2, <1>4, <2>1, <2>2, <2>4
  <2> QED
    BY <1>7, <2>3, <2>4 DEF FleetOnBeforeSend
<1>8. ASSUME NEW p \in Fingerprints, NEW b \in BOOLEAN, PostSettles(p, b)
      PROVE  Told
  <2>1. /\ UNCHANGED <<built, contributions, posts, asked>>
        /\ posting' = posting \ {p} /\ observed' \subseteq observed \cup {p}
    BY <1>8 DEF PostSettles
  <2> QED
    BY <1>2, <1>4, <2>1
<1> QED
  BY <1>3, <1>5, <1>6, <1>7, <1>8 DEF FleetNext

-----------------------------------------------------------------------------
(* The types of the session file and of a trace *)

\* The session file and its handle stay of their types.
LEMMA SessionTyped ==
  /\ SessionInit => SessionTypeOK
  /\ SessionTypeOK /\ SessionNext => SessionTypeOK'
<1>1. SessionInit => SessionTypeOK
  BY DEF SessionInit, SessionTypeOK
<1>2. ASSUME SessionTypeOK, SessionNext PROVE SessionTypeOK'
  <2> USE <1>2 DEF SessionTypeOK
  <2>1. ASSUME NEW s \in Sessions, NEW ok \in BOOLEAN, InstallSessionFile(s, ok)
        PROVE  SessionTypeOK'
    BY <2>1 DEF InstallSessionFile, Written, FileContents
  <2>2. ASSUME NEW r \in Requests, NEW ok \in BOOLEAN, UpdateRequestContext(r, ok)
        PROVE  SessionTypeOK'
    BY <2>2 DEF UpdateRequestContext, Written, FileContents
  <2>3. CASE UninstallSessionFile
    BY <2>3 DEF UninstallSessionFile, RemovedIfActive
  <2>4. CASE Exit
    BY <2>4 DEF Exit, RemovedIfActive
  <2> QED
    BY <2>1, <2>2, <2>3, <2>4 DEF SessionNext
<1> QED
  BY <1>1, <1>2

\* So do the ids of a trace.
LEMMA TraceTyped ==
  /\ TraceInit => TraceTypeOK
  /\ TraceInv /\ TraceTypeOK /\ TraceNext => TraceTypeOK'
<1>1. TraceInit => TraceTypeOK
  BY TraceStarts DEF TraceInit, TraceInv, TraceTypes, TraceTypeOK
<1>2. ASSUME TraceInv, TraceTypeOK, TraceNext PROVE TraceTypeOK'
  <2>1. TraceTypes'
    BY <1>2, TraceKept DEF TraceInv
  <2>2. generated' \subseteq FreshIds
    BY <1>2 DEF TraceTypeOK, TraceNext, ReadSessionId, WriteSessionId, SendRequest, Reload,
                SetSessionId, ReplayStarts, CookieExpires
  <2> QED
    BY <2>1, <2>2 DEF TraceTypes, TraceTypeOK
<1> QED
  BY <1>1, <1>2

-----------------------------------------------------------------------------
(* What the Python hook has told *)

\* An exception reaches the hook through _seen_exceptions, where its id stays while
\* it lives, unless it is dropped.
PyTold ==
  /\ PyTypeOK
  /\ \A e, f \in Alive : idOf[e] = idOf[f] => e = f
  /\ dispatching \subseteq Alive /\ Alive \subseteq raised
  /\ \A e \in Exceptions \ raised : times[e] = 0
  /\ \A e \in Exceptions \ dropped : times[e] <= IF e \in dispatching THEN 0 ELSE 1
  /\ \A e \in Alive \ dropped : times[e] # 0 \/ e \in dispatching => idOf[e] \in Range(seen)

\* No exception is raised yet.
LEMMA PyTellsNothing == PyInit => PyTold
<1> SUFFICES ASSUME PyInit PROVE PyTold
  OBVIOUS
<1>1. Alive = {}
  BY DEF PyInit, Alive
<1>2. seen \in Seq(ObjectIds) /\ Len(seen) = 0 /\ DOMAIN seen = {}
  BY EmptySeq DEF PyInit
<1>3. IsInjective(seen)
  BY <1>2 DEF IsInjective
<1>4. PyTypeOK
  <2>1. Len(seen) <= SEEN_CAP
    BY <1>2, PyForensicHookAssumption
  <2>2. times \in [Exceptions -> Nat] /\ idOf \in [Exceptions -> ObjectIds \cup {Nobody}]
    BY DEF PyInit
  <2> QED
    BY PyForensicHookAssumption, <1>2, <1>3, <2>1, <2>2 DEF PyInit, PyTypeOK
<1> QED
  BY <1>1, <1>4 DEF PyInit, PyTold

\* The newest id comes in, and the oldest goes when there is no room.
LEMMA SeenNewest ==
  ASSUME PyTypeOK, NEW id \in ObjectIds, id \notin Range(seen)
  PROVE  /\ Seen(id) \in Seq(ObjectIds) /\ Len(Seen(id)) <= SEEN_CAP /\ IsInjective(Seen(id))
         /\ id \in Range(Seen(id))
<1> USE PyForensicHookAssumption
<1>1. seen \in Seq(ObjectIds) /\ Len(seen) <= SEEN_CAP /\ IsInjective(seen) /\ Len(seen) \in Nat
  BY LenProperties DEF PyTypeOK
<1>2. CASE Len(seen) >= SEEN_CAP
  <2>1. seen # <<>>
    BY <1>1, <1>2, EmptySeq
  <2>2. Tail(seen) \in Seq(ObjectIds) /\ IsInjective(Tail(seen)) /\ Len(Tail(seen)) = Len(seen) - 1
        /\ id \notin Range(Tail(seen))
    BY <1>1, <2>1, TailRemovesHead, TailRange
  <2>3. Seen(id) = Append(Tail(seen), id)
    BY <1>2 DEF Seen
  <2>4. Len(Seen(id)) = Len(Tail(seen)) + 1
    BY <2>2, <2>3, AppendProperties
  <2>5. /\ Seen(id) \in Seq(ObjectIds) /\ IsInjective(Seen(id))
        /\ Range(Seen(id)) = Range(Tail(seen)) \cup {id}
    <3> DEFINE rest == Tail(seen)
    <3>1. rest \in Seq(ObjectIds) /\ IsInjective(rest) /\ id \notin Range(rest)
      BY <2>2
    <3> HIDE DEF rest
    <3>2. /\ Append(rest, id) \in Seq(ObjectIds) /\ IsInjective(Append(rest, id))
          /\ Range(Append(rest, id)) = Range(rest) \cup {id}
      BY <3>1, AppendNew
    <3> QED
      BY <2>3, <3>2 DEF rest
  <2>6. Len(Seen(id)) <= SEEN_CAP
    BY <1>1, <2>2, <2>4
  <2> QED
    BY <2>5, <2>6
<1>3. CASE ~(Len(seen) >= SEEN_CAP)
  <2>1. Seen(id) = Append(seen, id) /\ Len(Seen(id)) = Len(seen) + 1
    BY <1>1, <1>3, AppendProperties DEF Seen
  <2> QED
    BY <1>1, <1>3, <2>1, AppendNew
<1> QED
  BY <1>2, <1>3

\* A registration, or the end of one, tells nothing.
LEMMA PyRegistrationTyped ==
  ASSUME PyInv, PyTold, NEW t \in Threads,
         CheckMode(t) \/ InstallPep669(t) \/ InstallSettrace(t) \/ UnregisterPy(t)
  PROVE  PyTold'
<1> USE PyForensicHookAssumption
<1>1. PyInv' /\ spreading' \in BOOLEAN
  BY PyRegistrationKept DEF PyInv
<1>2. UNCHANGED exceptionVars /\ Alive' = Alive
  BY DEF CheckMode, InstallPep669, InstallSettrace, Claims, UnregisterPy, exceptionVars, Alive
<1>3. CASE CheckMode(t)
  BY <1>1, <1>2, <1>3 DEF CheckMode, PyTold, PyTypeOK, PyInv, exceptionVars, threadVars
<1>4. CASE InstallPep669(t)
  <2> DEFINE free == {i \in DOMAIN ToolIds : ToolIds[i] \notin callbacks}
             first == CHOOSE i \in free : \A j \in free : i <= j
             id == IF free = {} THEN toolId ELSE ToolIds[first]
  <2>1. free # {} => first \in DOMAIN ToolIds
    <3>1. free \in SUBSET Nat
      BY LenProperties
    <3> HIDE DEF free
    <3>2. free # {} => first \in free
      BY <3>1, LeastExists
    <3> QED
      BY <3>2 DEF free
  <2>2. id # Nobody /\ toolId' = id /\ callbacks' = callbacks \cup {id}
        /\ UNCHANGED <<threadVars, previous, seen, dropped, raced, elsewhere>>
        /\ registering' = registering \ {t} /\ pyHook' = t /\ pyMode' = "pep669"
    BY <1>4 DEF InstallPep669, Claims
  <2>3. id \in Range(ToolIds)
    BY <2>1, <2>2 DEF PyTold, PyTypeOK, Range
  <2> HIDE DEF id
  <2> QED
    BY <1>2, <2>2, <2>3 DEF PyTold, PyTypeOK, exceptionVars, threadVars
<1>5. CASE InstallSettrace(t)
  BY <1>1, <1>2, <1>5 DEF InstallSettrace, Claims, PyTold, PyTypeOK, PyInv, exceptionVars
<1>6. CASE UnregisterPy(t)
  <2>1. /\ pyMode' = Nobody /\ pyHook' = Nobody /\ seen' = <<>>
        /\ dropped' = dropped \cup Alive /\ registering' = registering
        /\ callbacks' \subseteq callbacks /\ tracing' \subseteq tracing \cup {t}
        /\ UNCHANGED <<running, inherited>>
        /\ toolId' \in {toolId, Nobody}
    BY <1>6 DEF UnregisterPy, Freed, threadVars
  <2>2. seen' \in Seq(ObjectIds) /\ Len(seen') = 0 /\ DOMAIN seen' = {}
    BY <2>1, EmptySeq
  <2>3. IsInjective(seen')
    BY <2>2 DEF IsInjective
  <2>4. PyTypeOK'
    BY <1>1, <1>2, <2>1, <2>2, <2>3 DEF PyTold, PyTypeOK, PyInv, exceptionVars, Alive
  <2> QED
    BY <1>2, <2>1, <2>4 DEF PyTold, exceptionVars
<1> QED
  BY <1>3, <1>4, <1>5, <1>6

\* Every step of the Python hook keeps what is told.
LEMMA PyTells == PyInv /\ PyTold /\ PyNext => PyTold'
<1> SUFFICES ASSUME PyInv, PyTold, PyNext PROVE PyTold'
  OBVIOUS
<1> USE PyForensicHookAssumption
<1>1. ASSUME NEW t \in Threads,
             CheckMode(t) \/ InstallPep669(t) \/ InstallSettrace(t) \/ UnregisterPy(t)
      PROVE  PyTold'
  BY <1>1, PyRegistrationTyped
<1>0. ASSUME NEW t \in Threads, StartThread(t) PROVE PyTold'
  <2>1. /\ running' = running \cup {t}
        /\ spreading' = spreading /\ tracing' \subseteq tracing \cup {t}
        /\ inherited' \subseteq inherited \cup {t}
        /\ UNCHANGED <<pyMode, pyHook, toolId, callbacks, previous, registering, seen, dropped,
                       raced, elsewhere, dispatching, idOf, raised, times>>
    BY <1>0 DEF StartThread, exceptionVars
  <2>2. PyTypeOK'
    BY <2>1 DEF PyTold, PyTypeOK
  <2> QED
    BY <2>1, <2>2 DEF PyTold, Alive
<1>2. ASSUME NEW e \in Exceptions, RaiseException(e) PROVE PyTold'
  <2>1. PICK i \in ObjectIds \ {idOf[f] : f \in Alive} : idOf' = [idOf EXCEPT ![e] = i]
    BY <1>2 DEF RaiseException
  <2>2. Alive' = Alive \cup {e} /\ e \notin Alive /\ e \notin raised
    BY <1>2, <2>1 DEF RaiseException, Alive, PyTold, PyTypeOK
  <2>3. \A f, g \in Alive' : idOf'[f] = idOf'[g] => f = g
    BY <2>1, <2>2 DEF PyTold, PyTypeOK, Alive
  <2>4. PyTypeOK'
    BY <1>2, <2>1 DEF RaiseException, PyTold, PyTypeOK, threadVars
  <2> QED
    BY <1>2, <2>1, <2>2, <2>3, <2>4 DEF RaiseException, PyTold, PyTypeOK, Alive
<1>3. ASSUME NEW e \in Exceptions, Collected(e) PROVE PyTold'
  <2>1. Alive' = Alive \ {e} /\ e \notin dispatching /\ idOf' = [idOf EXCEPT ![e] = Nobody]
    BY <1>3 DEF Collected, Alive, PyTold, PyTypeOK
  <2>2. \A f \in Alive' : idOf'[f] = idOf[f] /\ f \in Alive
    BY <2>1 DEF PyTold, PyTypeOK, Alive
  <2>3. PyTypeOK'
    BY <1>3 DEF Collected, PyTold, PyTypeOK, threadVars
  <2> QED
    BY <1>3, <2>1, <2>2, <2>3 DEF Collected, PyTold
<1>4. ASSUME NEW e \in Exceptions, Dispatch(e) PROVE PyTold'
  <2>1. /\ e \in Alive \ dispatching /\ idOf[e] \notin Range(seen) /\ seen' = Seen(idOf[e])
        /\ dropped' = dropped \cup {f \in Alive : idOf[f] \in Range(seen) \ Range(seen')}
        /\ dispatching' = dispatching \cup {e}
        /\ UNCHANGED <<pyMode, pyHook, toolId, callbacks, threadVars, previous, registering, idOf,
                       raised, times, raced, elsewhere>>
    BY <1>4 DEF Dispatch
  <2>2. idOf[e] \in ObjectIds /\ Alive' = Alive /\ Alive \subseteq Exceptions
    BY <2>1 DEF Alive, PyTold, PyTypeOK
  <2>3. /\ seen' \in Seq(ObjectIds) /\ Len(seen') <= SEEN_CAP /\ IsInjective(seen')
        /\ idOf[e] \in Range(seen')
    BY <2>1, <2>2, SeenNewest DEF PyTold
  <2>4. PyTypeOK'
    BY <2>1, <2>2, <2>3 DEF PyTold, PyTypeOK, threadVars
  <2>5. e \notin dropped => times[e] = 0
    BY <2>1, <2>2 DEF PyTold
  <2>6. \A f \in Exceptions \ dropped' : times'[f] <= IF f \in dispatching' THEN 0 ELSE 1
    BY <2>1, <2>5 DEF PyTold
  <2>7. \A f \in Alive' \ dropped' : times'[f] # 0 \/ f \in dispatching' => idOf'[f] \in Range(seen')
    BY <2>1, <2>2, <2>3 DEF PyTold
  <2> QED
    BY <2>1, <2>2, <2>4, <2>6, <2>7 DEF PyTold
<1>5. ASSUME NEW e \in Exceptions, CallHook(e) PROVE PyTold'
  <2>1. /\ e \in dispatching /\ dispatching' = dispatching \ {e}
        /\ times' = IF pyHook = Nobody THEN times ELSE [times EXCEPT ![e] = @ + 1]
        /\ UNCHANGED <<pyMode, pyHook, toolId, callbacks, threadVars, previous, registering, seen,
                       idOf, raised, dropped, raced, elsewhere>>
    BY <1>5 DEF CallHook
  <2>2. Alive' = Alive /\ e \in Alive /\ e \in raised /\ times \in [Exceptions -> Nat]
    BY <2>1 DEF Alive, PyTold, PyTypeOK
  <2>3. /\ times' \in [Exceptions -> Nat] /\ \A f \in Exceptions : f # e => times'[f] = times[f]
        /\ times'[e] \in {times[e], times[e] + 1}
    BY <2>1, <2>2
  <2>4. PyTypeOK'
    BY <2>1, <2>3 DEF PyTold, PyTypeOK, threadVars
  <2>5. e \notin dropped => times[e] = 0 /\ times'[e] <= 1 /\ idOf[e] \in Range(seen)
    <3>1. e \notin dropped => times[e] <= 0 /\ idOf[e] \in Range(seen)
      BY <2>1, <2>2 DEF PyTold
    <3> QED
      BY <2>2, <2>3, <3>1
  <2>6. \A f \in Exceptions \ dropped' : times'[f] <= IF f \in dispatching' THEN 0 ELSE 1
    BY <2>1, <2>3, <2>5 DEF PyTold
  <2>7. \A f \in Alive' \ dropped' : times'[f] # 0 \/ f \in dispatching' => idOf'[f] \in Range(seen')
    BY <2>1, <2>2, <2>3, <2>5 DEF PyTold
  <2> QED
    BY <2>1, <2>2, <2>3, <2>4, <2>6, <2>7 DEF PyTold
<1> QED
  BY <1>0, <1>1, <1>2, <1>3, <1>4, <1>5 DEF PyNext

\* No exception is captured twice.
LEMMA PyOnce == PyTold => OneCapturePerException
<1> SUFFICES ASSUME PyTold, NEW e \in Exceptions \ dropped PROVE times[e] <= 1
  BY DEF OneCapturePerException
<1>1. times[e] \in Nat /\ times[e] <= IF e \in dispatching THEN 0 ELSE 1
  BY DEF PyTold, PyTypeOK
<1> QED
  BY <1>1

-----------------------------------------------------------------------------
(* What the Node hook has told *)

\* While registrations do not overlap, one session listens, so one capture of a throw is
\* under way, or has been heard, and then is in one place at most.
HookTold ==
  /\ HookTypeOK
  /\ ~overlapped =>
       /\ \A c, d \in Callers, t \in Throws :
            <<c, t>> \in walks /\ <<d, t>> \in walks => c = d /\ heard[t] = 0
       /\ \A c \in Callers, t \in Throws : <<c, t>> \in walks => t \in thrown
       /\ \A t \in Throws : heard[t] <= IF t \in thrown THEN 1 ELSE 0
       /\ IsInjective(buffered) /\ \A t \in Range(buffered) : heard[t] = 1
       /\ \A e, f \in Events : attached[e] = attached[f] /\ attached[e] # NoOne => e = f
       /\ \A e \in Events : attached[e] # NoOne =>
            heard[attached[e]] = 1 /\ attached[e] \notin Range(buffered)

\* Nothing is thrown yet.
LEMMA HookTellsNothing == HookInit => HookTold
<1> SUFFICES ASSUME HookInit PROVE HookTold
  OBVIOUS
<1>1. buffered \in Seq(Throws) /\ Len(buffered) = 0 /\ DOMAIN buffered = {}
  BY EmptySeq DEF HookInit
<1>2. Len(buffered) <= BufferSize
  BY <1>1, ForensicHookAssumption
<1>3. HookTypeOK
  BY <1>1, <1>2 DEF HookInit, HookTypeOK
<1>4. IsInjective(buffered) /\ Range(buffered) = {}
  BY <1>1 DEF IsInjective, Range
<1> QED
  BY <1>3, <1>4 DEF HookInit, HookTold

\* What registrations leave alone.
LEMMA HookRegistrationTells ==
  ASSUME HookInv, HookTold, HookInv',
         \/ \E c \in Callers :
              RegisterRefused(c) \/ Register(c) \/ Installed(c) \/ InstallFails(c)
         \/ \E u \in Undoers : UnregisterAtOnce(u) \/ Unregister(u) \/ Uninstalled(u)
  PROVE  HookTold'
<1>1. UNCHANGED capturing /\ (~overlapped' => ~overlapped)
  <2>1. UNCHANGED capturing
    BY DEF RegisterRefused, Register, Installed, InstallFails, UnregisterAtOnce, Unregister, Uninstalled
  <2>2. overlapped' \in {overlapped, overlapped \/ Installing # {}}
    BY DEF RegisterRefused, Register, Installed, InstallFails, UnregisterAtOnce, Unregister, Uninstalled
  <2> QED
    BY <2>1, <2>2
<1>2. undoing' \in [Undoers -> Callers \cup {NoOne}] /\ undone' \subseteq Undoers
      /\ listening' \subseteq Callers
  <2>1. CASE \E c \in Callers :
              RegisterRefused(c) \/ Register(c) \/ Installed(c) \/ InstallFails(c)
    BY <2>1 DEF RegisterRefused, Register, Installed, InstallFails, HookTold, HookTypeOK
  <2>2. CASE \E u \in Undoers : UnregisterAtOnce(u) \/ Unregister(u) \/ Uninstalled(u)
    <3>1. PICK u \in Undoers : UnregisterAtOnce(u) \/ Unregister(u) \/ Uninstalled(u)
      BY <2>2
    <3>2. /\ undoing \in [Undoers -> Callers \cup {NoOne}] /\ undone \subseteq Undoers
          /\ listening \subseteq Callers /\ session \in Callers \cup {NoOne}
      BY DEF HookTold, HookTypeOK
    <3>3. CASE UnregisterAtOnce(u)
      BY <3>2, <3>3 DEF UnregisterAtOnce
    <3>4. CASE Unregister(u)
      BY <3>2, <3>4 DEF Unregister
    <3>5. CASE Uninstalled(u)
      <4>1. /\ undoing' = [undoing EXCEPT ![u] = NoOne] /\ undone' = undone
            /\ listening' \subseteq listening
        BY <3>5 DEF Uninstalled, Disconnected
      <4> QED
        BY <3>2, <4>1
    <3> QED
      BY <3>1, <3>3, <3>4, <3>5
  <2> QED
    BY <2>1, <2>2
<1>3. HookTypeOK'
  BY <1>1, <1>2 DEF HookTold, HookTypeOK, HookInv, capturing
<1> QED
  BY <1>1, <1>3 DEF HookTold, capturing

\* The best match is one of the buffer.
LEMMA BestIsOne ==
  ASSUME buffered \in Seq(Throws), buffered # <<>>, NEW e \in Events
  PROVE  Best(e) \in DOMAIN buffered
<1> DEFINE D == DOMAIN buffered
           score(i) == MatchScore(buffered[i], e)
           Of(n) == {i \in D : score(i) = n}
<1>1. D \in SUBSET Nat /\ D # {}
  <2>1. DOMAIN buffered = 1 .. Len(buffered) /\ Len(buffered) \in Nat \ {0}
    BY LenProperties, EmptySeq
  <2> QED
    BY <2>1
<1>2. \A i \in D : score(i) \in {1, 50, 100}
  BY DEF MatchScore
<1>3. PICK n \in {1, 50, 100} : Of(n) # {} /\ \A m \in {1, 50, 100} : m > n => Of(m) = {}
  BY <1>1, <1>2
<1>4. PICK i \in Of(n) : \A j \in Of(n) : i <= j
  <2>1. Of(n) \in SUBSET Nat /\ Of(n) # {}
    BY <1>1, <1>3
  <2> HIDE DEF Of
  <2> QED
    BY <2>1, LeastExists
<1>5. i \in D /\ \A j \in D : score(i) > score(j) \/ (score(i) = score(j) /\ i <= j)
  BY <1>1, <1>2, <1>3, <1>4
<1> HIDE DEF D
<1>6. \E k \in DOMAIN buffered : \A j \in DOMAIN buffered :
        LET si == MatchScore(buffered[k], e)
            sj == MatchScore(buffered[j], e)
        IN  si > sj \/ (si = sj /\ k <= j)
  BY <1>5 DEF D
<1> QED
  BY <1>6 DEF Best

\* The newest capture comes in, and the oldest goes when there is no room.
LEMMA BufferedNewest ==
  ASSUME HookTypeOK, NEW t \in Throws
  PROVE  /\ Buffered(t) \in Seq(Throws) /\ Len(Buffered(t)) <= BufferSize
         /\ IsInjective(buffered) /\ t \notin Range(buffered) =>
              IsInjective(Buffered(t)) /\ Range(Buffered(t)) \subseteq Range(buffered) \cup {t}
<1> USE ForensicHookAssumption
<1>1. buffered \in Seq(Throws) /\ Len(buffered) <= BufferSize /\ Len(buffered) \in Nat
  BY LenProperties DEF HookTypeOK
<1>2. CASE Len(buffered) < BufferSize
  <2>1. Buffered(t) = Append(buffered, t) /\ Len(Buffered(t)) = Len(buffered) + 1
    BY <1>1, <1>2, AppendProperties DEF Buffered
  <2>2. Len(Buffered(t)) <= BufferSize
    BY <1>1, <1>2, <2>1
  <2> QED
    BY <1>1, <2>1, <2>2, AppendNew
<1>3. CASE ~(Len(buffered) < BufferSize)
  <2> DEFINE rest == Tail(buffered)
  <2>1. buffered # <<>>
    BY <1>1, <1>3, EmptySeq
  <2>2. rest \in Seq(Throws) /\ Len(rest) = Len(buffered) - 1 /\ Range(rest) \subseteq Range(buffered)
        /\ (IsInjective(buffered) => IsInjective(rest))
    BY <1>1, <2>1, TailRemovesHead, TailRange
  <2>3. Buffered(t) = Append(rest, t)
    BY <1>3 DEF Buffered
  <2> HIDE DEF rest
  <2>4. /\ Append(rest, t) \in Seq(Throws) /\ Len(Append(rest, t)) = Len(rest) + 1
        /\ Range(Append(rest, t)) = Range(rest) \cup {t}
        /\ IsInjective(rest) /\ t \notin Range(rest) => IsInjective(Append(rest, t))
    BY <2>2, AppendNew, AppendProperties
  <2>5. Len(Buffered(t)) <= BufferSize
    BY <1>1, <2>2, <2>3, <2>4
  <2> QED
    BY <2>2, <2>3, <2>4, <2>5
<1> QED
  BY <1>2, <1>3

\* A throw starts the walks of those who listen.
LEMMA ThrowTells ==
  ASSUME HookInv, HookTold, NEW t \in Throws, Throw(t)
  PROVE  HookTold'
<1>1. /\ t \notin thrown /\ thrown' = thrown \cup {t} /\ walks' = walks \cup (listening \X {t})
      /\ UNCHANGED <<mode, session, hook, calls, undoing, undone, listening, buffered, attached,
                     passed, heard, overlapped>>
  BY DEF Throw
<1>2. HookTypeOK'
  BY <1>1 DEF HookTold, HookTypeOK
<1>3. ~overlapped => \A c, d \in listening : c = d
  BY DEF HookInv
<1>4. ~overlapped => \A c \in Callers : <<c, t>> \notin walks
  BY <1>1 DEF HookTold
<1>5. ~overlapped => heard[t] = 0
  BY <1>1 DEF HookTold, HookTypeOK
<1>6. ~overlapped => \A c, d \in Callers, u \in Throws :
        <<c, u>> \in walks' /\ <<d, u>> \in walks' => c = d /\ heard'[u] = 0
  <2> SUFFICES ASSUME ~overlapped, NEW c \in Callers, NEW d \in Callers, NEW u \in Throws,
                      <<c, u>> \in walks', <<d, u>> \in walks'
               PROVE  c = d /\ heard'[u] = 0
    OBVIOUS
  <2>1. CASE u = t
    BY <1>1, <1>3, <1>4, <1>5, <2>1
  <2>2. CASE u # t
    BY <1>1, <2>2 DEF HookTold
  <2> QED
    BY <2>1, <2>2
<1>7. ~overlapped => \A c \in Callers, u \in Throws : <<c, u>> \in walks' => u \in thrown'
  BY <1>1 DEF HookTold
<1>8. ~overlapped => \A u \in Throws : heard'[u] <= IF u \in thrown' THEN 1 ELSE 0
  <2>1. ASSUME ~overlapped, NEW u \in Throws PROVE heard[u] <= IF u \in thrown' THEN 1 ELSE 0
    <3>1. heard[u] \in Nat /\ heard[u] <= IF u \in thrown THEN 1 ELSE 0
      BY <2>1 DEF HookTold, HookTypeOK
    <3> QED
      BY <1>1, <3>1
  <2> QED
    BY <1>1, <2>1
<1> QED
  BY <1>1, <1>2, <1>6, <1>7, <1>8 DEF HookTold

\* A walk ends in a capture that is put in the buffer.
LEMMA CapturedTells ==
  ASSUME HookInv, HookTold, NEW c \in Callers, NEW t \in Throws, Captured(c, t)
  PROVE  HookTold'
<1>1. /\ <<c, t>> \in walks /\ walks' = walks \ {<<c, t>>}
      /\ heard' = IF hook = NoOne THEN heard ELSE [heard EXCEPT ![t] = @ + 1]
      /\ buffered' = IF hook = Integration THEN Buffered(t) ELSE buffered
      /\ UNCHANGED <<mode, session, hook, calls, undoing, undone, listening, attached, passed,
                     thrown, overlapped>>
  BY DEF Captured
<1>2. heard \in [Throws -> Nat] /\ HookTypeOK
  BY DEF HookTold, HookTypeOK
<1>3. /\ heard' \in [Throws -> Nat] /\ \A u \in Throws : u # t => heard'[u] = heard[u]
      /\ heard'[t] = IF hook = NoOne THEN heard[t] ELSE heard[t] + 1
  BY <1>1, <1>2
<1>4. /\ buffered' \in Seq(Throws) /\ Len(buffered') <= BufferSize
      /\ IsInjective(buffered) /\ t \notin Range(buffered) =>
           IsInjective(buffered') /\ Range(buffered') \subseteq Range(buffered) \cup {t}
      /\ hook # Integration => Range(buffered') = Range(buffered)
  BY <1>1, <1>2, BufferedNewest DEF HookTypeOK
<1>5. HookTypeOK'
  BY <1>1, <1>3, <1>4 DEF HookTold, HookTypeOK
<1> SUFFICES ASSUME ~overlapped PROVE HookTold'
  BY <1>1, <1>5 DEF HookTold
<1>6. heard[t] = 0 /\ t \in thrown /\ \A d \in Callers : <<d, t>> \in walks => d = c
  BY <1>1 DEF HookTold
<1>7. t \notin Range(buffered) /\ \A e \in Events : attached[e] # t
  BY <1>6, ForensicHookAssumption DEF HookTold
<1>8. IsInjective(buffered') /\ Range(buffered') \subseteq Range(buffered) \cup {t}
  BY <1>4, <1>7 DEF HookTold
<1>9. \A d \in Callers : <<d, t>> \notin walks'
  BY <1>1, <1>6
<1>10. hook = Integration => heard'[t] = 1
  BY <1>3, <1>6, ForensicHookAssumption
<1>11. heard'[t] <= 1
  BY <1>3, <1>6
<1>12. \A u \in Range(buffered') : heard'[u] = 1
  <2>1. ASSUME NEW u \in Range(buffered') PROVE heard'[u] = 1
    <3>1. CASE u = t
      BY <1>4, <1>7, <1>10, <2>1, <3>1
    <3>2. CASE u # t
      <4>1. u \in Range(buffered)
        BY <1>8, <2>1, <3>2
      <4>2. u \in Throws
        BY <1>2, <4>1 DEF HookTypeOK, Range
      <4> QED
        BY <1>3, <3>2, <4>1, <4>2 DEF HookTold
    <3> QED
      BY <3>1, <3>2
  <2> QED
    BY <2>1
<1>13. \A e \in Events : attached'[e] # NoOne =>
         heard'[attached'[e]] = 1 /\ attached'[e] \notin Range(buffered')
  BY <1>1, <1>3, <1>7, <1>8 DEF HookTold, HookTypeOK
<1>14. \A u \in Throws : heard'[u] <= IF u \in thrown' THEN 1 ELSE 0
  BY <1>1, <1>3, <1>6, <1>11 DEF HookTold
<1>15. \A a, d \in Callers, u \in Throws :
         <<a, u>> \in walks' /\ <<d, u>> \in walks' => a = d /\ heard'[u] = 0
  BY <1>1, <1>3, <1>9 DEF HookTold
<1>16. \A a \in Callers, u \in Throws : <<a, u>> \in walks' => u \in thrown'
  BY <1>1 DEF HookTold
<1>17. \A e, f \in Events : attached'[e] = attached'[f] /\ attached'[e] # NoOne => e = f
  BY <1>1 DEF HookTold
<1> QED
  BY <1>5, <1>8, <1>12, <1>13, <1>14, <1>15, <1>16, <1>17 DEF HookTold

\* An event takes its capture out of the buffer.
LEMMA SendTells ==
  ASSUME HookInv, HookTold, NEW e \in Events, OnBeforeSend(e)
  PROVE  HookTold'
<1>1. /\ passed' = passed \cup {e}
      /\ UNCHANGED <<mode, session, hook, calls, undoing, undone, listening, walks, thrown,
                     heard, overlapped>>
  BY DEF OnBeforeSend
<1>2. HookTypeOK /\ buffered \in Seq(Throws) /\ Len(buffered) <= BufferSize
  BY DEF HookTold, HookTypeOK
<1>3. CASE buffered = <<>>
  <2>1. UNCHANGED <<buffered, attached>>
    BY <1>3 DEF OnBeforeSend
  <2>2. HookTypeOK'
    BY <1>1, <1>2, <2>1 DEF HookTypeOK
  <2> QED
    BY <1>1, <2>1, <2>2 DEF HookTold
<1>4. CASE buffered # <<>>
  <2> DEFINE k == Best(e)
             x == buffered[k]
  <2>1. k \in DOMAIN buffered
    BY <1>2, <1>4, BestIsOne
  <2>2. attached' = [attached EXCEPT ![e] = x] /\ buffered' = RemoveAt(buffered, k)
    BY <1>4 DEF OnBeforeSend, Picked
  <2> HIDE DEF k
  <2>3. x \in Throws /\ x \in Range(buffered)
    BY <1>2, <2>1, ElementOfSeq, LenProperties DEF Range
  <2> HIDE DEF x
  <2>4. /\ buffered' \in Seq(Throws) /\ Len(buffered') = Len(buffered) - 1
        /\ IsInjective(buffered) => IsInjective(buffered') /\ Range(buffered') = Range(buffered) \ {x}
    BY <1>2, <2>1, <2>2, RemovedAt DEF x
  <2>5. Len(buffered') <= BufferSize
    <3>1. Len(buffered) \in Nat /\ BufferSize \in Nat
      BY <1>2, LenProperties, ForensicHookAssumption
    <3> QED
      BY <1>2, <2>4, <3>1
  <2>6. HookTypeOK'
    BY <1>1, <1>2, <2>2, <2>3, <2>4, <2>5 DEF HookTypeOK
  <2>7. attached' = [attached EXCEPT ![e] = x] /\ attached \in [Events -> Throws \cup {NoOne}]
    BY <1>2, <2>2 DEF HookTypeOK
  <2> SUFFICES ASSUME ~overlapped PROVE HookTold'
    BY <1>1, <2>6 DEF HookTold
  <2>8. heard[x] = 1 /\ \A f \in Events : attached[f] # x
    BY <2>3, ForensicHookAssumption DEF HookTold
  <2>9. IsInjective(buffered') /\ Range(buffered') = Range(buffered) \ {x}
    BY <2>4 DEF HookTold
  <2>10. \A f, g \in Events : attached'[f] = attached'[g] /\ attached'[f] # NoOne => f = g
    BY <2>7, <2>8 DEF HookTold
  <2>11. \A f \in Events : attached'[f] # NoOne =>
           heard'[attached'[f]] = 1 /\ attached'[f] \notin Range(buffered')
    BY <1>1, <2>7, <2>8, <2>9 DEF HookTold
  <2> QED
    BY <1>1, <2>6, <2>9, <2>10, <2>11 DEF HookTold
<1> QED
  BY <1>3, <1>4

\* Every step of the Node hook keeps what is told.
LEMMA HookTells == HookInv /\ HookTold /\ HookNext => HookTold'
  BY HookKept, HookRegistrationTells, ThrowTells, CapturedTells, SendTells DEF HookNext

\* No throw is captured twice while registrations do not overlap.
LEMMA HookOnce == HookTold => OneCapturePerThrow
<1> SUFFICES ASSUME HookTold, ~overlapped, NEW t \in Throws
             PROVE  /\ heard[t] <= 1
                    /\ Cardinality({i \in DOMAIN buffered : buffered[i] = t})
                         + Cardinality({e \in Events : attached[e] = t}) <= heard[t]
  BY DEF OneCapturePerThrow
<1> DEFINE I == {i \in DOMAIN buffered : buffered[i] = t}
           E == {e \in Events : attached[e] = t}
<1>1. heard[t] \in Nat /\ heard[t] <= 1
  BY DEF HookTold, HookTypeOK
<1>2. Cardinality({}) = 0
  BY FS_EmptySet
<1>3. \/ I = {} \/ \E i \in I : I = {i}
  BY DEF HookTold, IsInjective
<1>4. \/ E = {} \/ \E e \in E : E = {e}
  BY ForensicHookAssumption DEF HookTold
<1>5. I # {} => E = {} /\ heard[t] = 1
  BY ForensicHookAssumption DEF HookTold, Range
<1>6. E # {} => heard[t] = 1
  BY ForensicHookAssumption DEF HookTold
<1> HIDE DEF I, E
<1>7. Cardinality(I) \in {0, 1} /\ (I = {} => Cardinality(I) = 0)
  BY <1>2, <1>3, FS_Singleton
<1>8. Cardinality(E) \in {0, 1} /\ (E = {} => Cardinality(E) = 0)
  BY <1>2, <1>4, FS_Singleton
<1>9. Cardinality(I) + Cardinality(E) <= heard[t]
  BY <1>1, <1>5, <1>6, <1>7, <1>8
<1> QED
  BY <1>1, <1>9 DEF I, E

-----------------------------------------------------------------------------
(* What the sampler has told *)

\* The head moves on by one, around the ring.
LEMMA NextHead ==
  ASSUME NEW n \in Nat \ {0}, NEW h \in 0 .. n - 1
  PROVE  (h + 1) % n = (IF h + 1 = n THEN 0 ELSE h + 1) /\ (h + 1) % n \in 0 .. n - 1
<1>1. CASE h + 1 = n
  BY <1>1
<1>2. CASE h + 1 # n
  BY <1>2
<1> QED
  BY <1>1, <1>2

\* What a sample holds of the channels.
Counts == [Channels -> 0 .. MaxSignals]

\* Where the n-th oldest sample is.
PlaceInRing(n) == IF Len(ring) < WINDOW THEN n ELSE IF n <= WINDOW - head THEN head + n
                  ELSE n - (WINDOW - head)

\* A counter moved between two samples if and only if something signalled between them.
Signalled(c, from, to) == \E s \in signalled : s[1] = c /\ from <= s[2] /\ s[2] < to

\* The number of the n-th oldest sample.
Nth(n) == (sampled - Len(ring)) + n

\* The ring holds the last samples, which do not fall, and a count rises from one
\* sample to a later one just where its channel signalled in between.
SamplerTold ==
  /\ SamplerTypeOK
  /\ Len(ring) <= sampled /\ (Len(ring) < WINDOW => head = Len(ring) /\ sampled = Len(ring))
  /\ \A s \in signalled : s[2] <= sampled
  /\ \A c \in Channels : \A m, n \in 1 .. Len(ring) : m < n =>
       /\ ring[PlaceInRing(m)][c] <= ring[PlaceInRing(n)][c]
       /\ ring[PlaceInRing(m)][c] < ring[PlaceInRing(n)][c] <=> Signalled(c, Nth(m), Nth(n))
  /\ \A c \in Channels : \A n \in 1 .. Len(ring) :
       /\ ring[PlaceInRing(n)][c] <= counters[c]
       /\ ring[PlaceInRing(n)][c] < counters[c] <=> Signalled(c, Nth(n), sampled + 1)

\* Nothing is sampled yet.
LEMMA SamplerTellsNothing == SamplerInit => SamplerTold
<1> SUFFICES ASSUME SamplerInit PROVE SamplerTold
  OBVIOUS
<1> USE PrecursorsAssumption
<1>1. /\ ring \in Seq(Counts) /\ Len(ring) = 0 /\ head = 0 /\ sampled = 0 /\ signalled = {}
      /\ counters \in Counts
  BY EmptySeq DEF SamplerInit, Counts
<1>2. /\ Len(ring) <= WINDOW /\ head \in 0 .. WINDOW - 1 /\ sampled \in 0 .. MaxSamples
  BY <1>1
<1>3. SamplerTypeOK
  BY <1>1, <1>2, SamplerStarts DEF SamplerInit, SamplerInv, SamplerTypeOK, Counts
<1>4. 1 .. Len(ring) = {}
  BY <1>1
<1> QED
  BY <1>1, <1>2, <1>3, <1>4 DEF SamplerTold

\* What a new sample leaves of the ring.
LEMMA SamplePushed ==
  ASSUME SamplerTold, Sample
  PROVE  /\ ring' \in Seq(Counts) /\ Len(ring') \in 1 .. WINDOW /\ head' \in 0 .. WINDOW - 1
         /\ Len(ring') <= Len(ring) + 1 /\ Len(ring) <= Len(ring')
         /\ Len(ring') < WINDOW => head' = Len(ring') /\ Len(ring') = Len(ring) + 1
         /\ ring'[PlaceInRing(Len(ring))'] = counters
         /\ \A n \in 1 .. Len(ring') - 1 :
              /\ n + ((Len(ring) + 1) - Len(ring')) \in 1 .. Len(ring)
              /\ ring'[PlaceInRing(n)'] = ring[PlaceInRing(n + ((Len(ring) + 1) - Len(ring')))]
<1> USE PrecursorsAssumption
<1>1. /\ ring' = PushSample(counters) /\ head' = (head + 1) % WINDOW
  BY DEF Sample
<1>2. /\ ring \in Seq(Counts) /\ counters \in Counts /\ head \in 0 .. WINDOW - 1
      /\ Len(ring) \in Nat /\ Len(ring) <= WINDOW /\ DOMAIN ring = 1 .. Len(ring)
      /\ Len(ring) < WINDOW => head = Len(ring)
  BY LenProperties DEF SamplerTold, SamplerTypeOK, Counts
<1>3. head' = (IF head + 1 = WINDOW THEN 0 ELSE head + 1) /\ head' \in 0 .. WINDOW - 1
  BY <1>1, <1>2, NextHead
<1> DEFINE size == Len(ring)
<1>6. size \in Nat /\ size <= WINDOW /\ WINDOW \in Nat
  BY <1>2
<1>4. CASE Len(ring) < WINDOW
  <2>1. ring' = Append(ring, counters)
    BY <1>1, <1>4 DEF PushSample
  <2>2. /\ ring' \in Seq(Counts) /\ Len(ring') = Len(ring) + 1
        /\ \A n \in 1 .. Len(ring) : ring'[n] = ring[n]
        /\ ring'[Len(ring) + 1] = counters
    <3>1. ring \in Seq(Counts) /\ counters \in Counts
      BY <1>2
    <3>2. /\ Append(ring, counters) \in Seq(Counts) /\ Len(Append(ring, counters)) = Len(ring) + 1
          /\ \A n \in 1 .. Len(ring) : Append(ring, counters)[n] = ring[n]
          /\ Append(ring, counters)[Len(ring) + 1] = counters
      BY <3>1, AppendProperties
    <3> QED
      BY <2>1, <3>2
  <2>3. \A n \in 1 .. Len(ring') : PlaceInRing(n)' = n
    BY <1>2, <1>3, <1>4, <2>2 DEF PlaceInRing
  <2>4. \A n \in 1 .. Len(ring) : PlaceInRing(n) = n
    BY <1>2, <1>4 DEF PlaceInRing
  <2>5. (Len(ring) + 1) - Len(ring') = 0 /\ Len(ring') \in 1 .. WINDOW
    BY <1>2, <1>4, <2>2
  <2>6. ring'[PlaceInRing(Len(ring))'] = counters
    <3>1. Len(ring') \in 1 .. Len(ring')
      BY <2>5
    <3>2. PlaceInRing(Len(ring))' = Len(ring')
      BY <2>3, <3>1
    <3> QED
      BY <2>2, <3>2
  <2>7. Len(ring') < WINDOW => head' = Len(ring')
    BY <1>2, <1>3, <1>4, <2>2
  <2>9. ASSUME NEW n \in 1 .. Len(ring') - 1
        PROVE  /\ n + ((Len(ring) + 1) - Len(ring')) \in 1 .. Len(ring)
               /\ ring'[PlaceInRing(n)'] = ring[PlaceInRing(n + ((Len(ring) + 1) - Len(ring')))]
    <3>1. n \in 1 .. Len(ring) /\ n \in 1 .. Len(ring') /\ n \in Int
      <4> DEFINE more == Len(ring')
      <4>1. more = size + 1 /\ n \in 1 .. more - 1
        BY <2>2
      <4> HIDE DEF more, size
      <4>2. n \in 1 .. size /\ n \in 1 .. more /\ n \in Int
        BY <1>6, <4>1
      <4> QED
        BY <4>2 DEF more, size
    <3>2. n + ((Len(ring) + 1) - Len(ring')) = n
      BY <2>5, <3>1
    <3> QED
      BY <2>2, <2>3, <2>4, <3>1, <3>2
  <2>10. Len(ring') <= Len(ring) + 1 /\ Len(ring) <= Len(ring')
    <3> HIDE DEF size
    <3>1. Len(ring') = size + 1
      BY <2>2 DEF size
    <3>2. Len(ring') <= size + 1 /\ size <= Len(ring')
      BY <1>6, <3>1
    <3> QED
      BY <3>2 DEF size
  <2> QED
    BY <1>3, <2>2, <2>5, <2>6, <2>7, <2>9, <2>10, Zenon
<1>5. CASE ~(Len(ring) < WINDOW)
  <2>1. ring' = [ring EXCEPT ![head + 1] = counters] /\ Len(ring) = WINDOW
    <3>1. ring' = [ring EXCEPT ![head + 1] = counters]
      BY <1>1, <1>5 DEF PushSample
    <3>2. Len(ring) = WINDOW
      <4>1. ~(size < WINDOW)
        BY <1>5
      <4> HIDE DEF size
      <4>2. size = WINDOW
        BY <1>6, <4>1
      <4> QED
        BY <4>2 DEF size
    <3> QED
      BY <3>1, <3>2
  <2>2. ring' \in Seq(Counts) /\ Len(ring') = WINDOW
    <3>1. head + 1 \in 1 .. Len(ring)
      BY <1>2, <2>1
    <3> QED
      BY <1>2, <2>1, <3>1, ExceptSeq
  <2>3. /\ ring'[head + 1] = counters
        /\ \A n \in 1 .. WINDOW : n # head + 1 => ring'[n] = ring[n]
    BY <1>2, <2>1
  <2>4. PlaceInRing(Len(ring))' = head + 1
    BY <1>2, <1>3, <2>1, <2>2 DEF PlaceInRing
  <2>5. ASSUME NEW n \in 1 .. WINDOW - 1
        PROVE  /\ PlaceInRing(n)' = PlaceInRing(n + 1)
               /\ PlaceInRing(n)' \in 1 .. WINDOW /\ PlaceInRing(n)' # head + 1
    BY <1>2, <1>3, <2>1, <2>2 DEF PlaceInRing
  <2>6. (Len(ring) + 1) - Len(ring') = 1
    BY <2>1, <2>2
  <2>8. ASSUME NEW n \in 1 .. Len(ring') - 1
        PROVE  /\ n + ((Len(ring) + 1) - Len(ring')) \in 1 .. Len(ring)
               /\ ring'[PlaceInRing(n)'] = ring[PlaceInRing(n + ((Len(ring) + 1) - Len(ring')))]
    <3>1. n + ((Len(ring) + 1) - Len(ring')) = n + 1 /\ n + 1 \in 1 .. Len(ring)
          /\ n \in 1 .. WINDOW - 1
      BY <2>1, <2>2, <2>6
    <3> QED
      BY <2>3, <2>5, <3>1
  <2> QED
    BY <1>3, <2>1, <2>2, <2>3, <2>4, <2>6, <2>8
<1> QED
  BY <1>4, <1>5

\* A sample takes the place of the oldest.
LEMMA SampleTells == ASSUME SamplerInv, SamplerTold, Sample PROVE SamplerTold'
<1> USE PrecursorsAssumption
<1>1. /\ sampled < MaxSamples /\ sampled' = sampled + 1
      /\ UNCHANGED <<sampler, created, imports, intervals, jitters, monitors, handlers,
                     cleanups, counters, signalled>>
  BY DEF Sample
<1> DEFINE d == (Len(ring) + 1) - Len(ring')
<1>2. /\ ring' \in Seq(Counts) /\ Len(ring') \in 1 .. WINDOW /\ head' \in 0 .. WINDOW - 1
      /\ Len(ring') <= Len(ring) + 1 /\ Len(ring) <= Len(ring')
      /\ Len(ring') < WINDOW => head' = Len(ring') /\ Len(ring') = Len(ring) + 1
      /\ ring'[PlaceInRing(Len(ring))'] = counters
      /\ \A n \in 1 .. Len(ring') - 1 :
           n + d \in 1 .. Len(ring) /\ ring'[PlaceInRing(n)'] = ring[PlaceInRing(n + d)]
  BY SamplePushed
<1>3. /\ sampled \in Nat /\ Len(ring) \in Nat /\ Len(ring) <= sampled /\ Len(ring) <= WINDOW
      /\ (Len(ring) < WINDOW => sampled = Len(ring)) /\ sampled \in 0 .. MaxSamples
      /\ counters \in Counts /\ ring \in Seq(Counts)
  BY LenProperties DEF SamplerTold, SamplerTypeOK, Counts
<1>4. Len(ring') \in Nat /\ d \in Int
  BY <1>2, <1>3
<1>5. SamplerTypeOK'
  <2>1. sampled' \in 0 .. MaxSamples
    BY <1>1, <1>3
  <2> QED
    BY <1>1, <1>2, <2>1 DEF SamplerTold, SamplerTypeOK, Counts
<1>6. Len(ring') <= sampled' /\ (Len(ring') < WINDOW => head' = Len(ring') /\ sampled' = Len(ring'))
  BY <1>1, <1>2, <1>3, <1>4
<1>7. \A s \in signalled : s[2] \in Nat /\ s[2] <= sampled
  BY DEF SamplerTold, SamplerTypeOK
<1>8. \A n \in 1 .. Len(ring') - 1 : Nth(n)' = Nth(n + d) /\ Nth(n)' \in Int
  BY <1>1, <1>3, <1>4 DEF Nth
<1>9. Nth(Len(ring))' = sampled + 1
  BY <1>1, <1>3, <1>4 DEF Nth
<1>10. \A c, m, n : Signalled(c, m, n)' <=> Signalled(c, m, n)
  BY <1>1 DEF Signalled
<1>11. ASSUME NEW c \in Channels, NEW n \in 1 .. Len(ring') - 1
       PROVE  /\ ring'[PlaceInRing(n)'][c] <= counters[c]
              /\ ring'[PlaceInRing(n)'][c] < counters[c] <=> Signalled(c, Nth(n)', sampled + 1)
  <2>1. n + d \in 1 .. Len(ring) /\ ring'[PlaceInRing(n)'] = ring[PlaceInRing(n + d)]
        /\ Nth(n)' = Nth(n + d)
    BY <1>2, <1>8
  <2> QED
    BY <2>1 DEF SamplerTold
<1>12. ASSUME NEW c \in Channels, NEW m \in 1 .. Len(ring'), NEW n \in 1 .. Len(ring'), m < n
       PROVE  /\ ring'[PlaceInRing(m)'][c] <= ring'[PlaceInRing(n)'][c]
              /\ ring'[PlaceInRing(m)'][c] < ring'[PlaceInRing(n)'][c] <=>
                   Signalled(c, Nth(m)', Nth(n)')
  <2>1. m \in 1 .. Len(ring') - 1
    BY <1>4, <1>12
  <2>2. CASE n = Len(ring')
    <3>1. ring'[PlaceInRing(n)'] = counters /\ Nth(n)' = sampled + 1
      BY <1>2, <1>9, <2>2
    <3> QED
      BY <1>11, <2>1, <3>1
  <2>3. CASE n # Len(ring')
    <3>1. n \in 1 .. Len(ring') - 1
      BY <1>4, <2>3
    <3>2. /\ m + d \in 1 .. Len(ring) /\ ring'[PlaceInRing(m)'] = ring[PlaceInRing(m + d)]
          /\ Nth(m)' = Nth(m + d)
      BY <1>2, <1>8, <2>1
    <3>3. /\ n + d \in 1 .. Len(ring) /\ ring'[PlaceInRing(n)'] = ring[PlaceInRing(n + d)]
          /\ Nth(n)' = Nth(n + d)
      BY <1>2, <1>8, <3>1
    <3>4. m + d < n + d
      BY <1>4, <1>12
    <3> QED
      BY <3>2, <3>3, <3>4 DEF SamplerTold
  <2> QED
    BY <2>2, <2>3
<1>13. ASSUME NEW c \in Channels, NEW n \in 1 .. Len(ring')
       PROVE  /\ ring'[PlaceInRing(n)'][c] <= counters'[c]
              /\ ring'[PlaceInRing(n)'][c] < counters'[c] <=>
                   Signalled(c, Nth(n)', sampled' + 1)
  <2>1. counters[c] \in Nat
    BY <1>3 DEF Counts
  <2>2. CASE n = Len(ring')
    <3>1. ring'[PlaceInRing(n)'] = counters /\ Nth(n)' = sampled + 1
      BY <1>2, <1>9, <2>2
    <3>2. ~Signalled(c, sampled + 1, sampled' + 1)
      BY <1>3, <1>7 DEF Signalled
    <3> QED
      BY <1>1, <2>1, <3>1, <3>2
  <2>3. CASE n # Len(ring')
    <3>1. n \in 1 .. Len(ring') - 1
      BY <1>4, <2>3
    <3>2. Signalled(c, Nth(n)', sampled + 1) <=> Signalled(c, Nth(n)', sampled' + 1)
      BY <1>1, <1>3, <1>7 DEF Signalled
    <3> QED
      BY <1>1, <1>11, <3>1, <3>2
  <2> QED
    BY <2>2, <2>3
<1>14. \A s \in signalled' : s[2] <= sampled'
  BY <1>1, <1>3, <1>7
<1> QED
  BY <1>5, <1>6, <1>10, <1>12, <1>13, <1>14 DEF SamplerTold

\* A signal counts for every sample taken before it.
LEMMA SignalTells ==
  ASSUME SamplerInv, SamplerTold, NEW c \in Channels, Signal(c)
  PROVE  SamplerTold'
<1> USE PrecursorsAssumption
<1>1. /\ counters[c] < MaxSignals /\ counters' = [counters EXCEPT ![c] = @ + 1]
      /\ signalled' = signalled \cup {<<c, sampled>>}
      /\ UNCHANGED <<sampler, created, imports, intervals, jitters, monitors, handlers,
                     cleanups, ring, head, sampled>>
  BY DEF Signal
<1>2. /\ sampled \in Nat /\ Len(ring) \in Nat /\ sampled \in 0 .. MaxSamples
      /\ counters \in Counts
  BY LenProperties DEF SamplerTold, SamplerTypeOK, Counts
<1>3. counters' \in Counts /\ counters'[c] = counters[c] + 1 /\ counters[c] \in Nat
      /\ \A b \in Channels : b # c => counters'[b] = counters[b]
  <2>1. counters[c] \in 0 .. MaxSignals /\ counters[c] + 1 \in 0 .. MaxSignals
    BY <1>1, <1>2 DEF Counts
  <2> QED
    BY <1>1, <1>2, <2>1 DEF Counts
<1>4. SamplerTypeOK'
  BY <1>1, <1>2, <1>3 DEF SamplerTold, SamplerTypeOK, Counts
<1>5. \A n \in 1 .. Len(ring) : Nth(n)' = Nth(n) /\ Nth(n) \in Int /\ Nth(n) <= sampled
      /\ PlaceInRing(n)' = PlaceInRing(n)
  BY <1>1, <1>2 DEF Nth, PlaceInRing
<1>6. \A b \in Channels : \A m, n \in 1 .. Len(ring) :
        Signalled(b, Nth(m), Nth(n))' <=> Signalled(b, Nth(m), Nth(n))
  <2> SUFFICES ASSUME NEW b \in Channels, NEW m \in 1 .. Len(ring), NEW n \in 1 .. Len(ring)
               PROVE  Signalled(b, Nth(m), Nth(n))' <=> Signalled(b, Nth(m), Nth(n))
    OBVIOUS
  <2> DEFINE i == Nth(m)
             j == Nth(n)
  <2>1. i' = i /\ j' = j /\ j <= sampled /\ i \in Int /\ j \in Int
    BY <1>5
  <2>2. <<c, sampled>>[2] = sampled /\ ~(sampled < j)
    BY <1>2, <2>1
  <2> HIDE DEF i, j
  <2> QED
    BY <1>1, <2>1, <2>2 DEF Signalled, i, j
<1>7. \A b \in Channels : \A n \in 1 .. Len(ring) :
        Signalled(b, Nth(n), sampled + 1)' <=> b = c \/ Signalled(b, Nth(n), sampled + 1)
  <2> SUFFICES ASSUME NEW b \in Channels, NEW n \in 1 .. Len(ring)
               PROVE  Signalled(b, Nth(n), sampled + 1)' <=> b = c \/ Signalled(b, Nth(n), sampled + 1)
    OBVIOUS
  <2> DEFINE i == Nth(n)
  <2>1. i' = i /\ i <= sampled /\ sampled' = sampled
    BY <1>1, <1>5
  <2>2. <<c, sampled>>[2] = sampled /\ <<c, sampled>>[1] = c /\ sampled < sampled + 1
    BY <1>2
  <2> HIDE DEF i
  <2> QED
    BY <1>1, <2>1, <2>2 DEF Signalled, i
<1>8. ASSUME NEW b \in Channels, NEW n \in 1 .. Len(ring)
      PROVE  /\ ring[PlaceInRing(n)][b] <= counters'[b]
             /\ ring[PlaceInRing(n)][b] < counters'[b] <=> Signalled(b, Nth(n), sampled + 1)'
  <2>1. /\ ring[PlaceInRing(n)][b] <= counters[b]
        /\ ring[PlaceInRing(n)][b] < counters[b] <=> Signalled(b, Nth(n), sampled + 1)
    BY DEF SamplerTold
  <2>2. PlaceInRing(n) \in 1 .. Len(ring)
    BY <1>2 DEF PlaceInRing, SamplerTold, SamplerTypeOK
  <2>3. ring[PlaceInRing(n)][b] \in Nat
    <3>1. ring[PlaceInRing(n)] \in Counts
      BY <2>2, ElementOfSeq DEF SamplerTold, SamplerTypeOK, Counts
    <3> QED
      BY <3>1 DEF Counts
  <2>4. CASE b = c
    BY <1>3, <1>7, <2>1, <2>3, <2>4
  <2>5. CASE b # c
    BY <1>3, <1>7, <2>1, <2>5
  <2> QED
    BY <2>4, <2>5
<1>9. \A s \in signalled' : s[2] <= sampled'
  BY <1>1, <1>2 DEF SamplerTold
<1>10. \A b \in Channels : \A m, n \in 1 .. Len(ring') : m < n =>
         /\ ring'[PlaceInRing(m)'][b] <= ring'[PlaceInRing(n)'][b]
         /\ ring'[PlaceInRing(m)'][b] < ring'[PlaceInRing(n)'][b] <=>
              Signalled(b, Nth(m), Nth(n))'
  BY <1>1, <1>5, <1>6 DEF SamplerTold
<1>11. \A b \in Channels : \A n \in 1 .. Len(ring') :
         /\ ring'[PlaceInRing(n)'][b] <= counters'[b]
         /\ ring'[PlaceInRing(n)'][b] < counters'[b] <=> Signalled(b, Nth(n), sampled + 1)'
  BY <1>1, <1>5, <1>8
<1> QED
  BY <1>1, <1>4, <1>9, <1>10, <1>11 DEF SamplerTold

\* Every step of the sampler keeps what is told.
LEMMA SamplerTells == SamplerInv /\ SamplerTold /\ SamplerNext => SamplerTold'
<1> SUFFICES ASSUME SamplerInv, SamplerTold, SamplerNext PROVE SamplerTold'
  OBVIOUS
<1>1. SamplerInv'
  BY SamplerKept
<1>2. ASSUME NEW s \in SamplerStates, InitPrecursors(s) PROVE SamplerTold'
  <2>1. /\ ring' = <<>> /\ head' = 0 /\ sampled' = 0 /\ signalled' = {}
        /\ created' = created \cup {s} /\ imports' = imports \cup ({s} \X Modules)
        /\ counters' = [c \in Channels |-> 0]
    BY <1>2 DEF InitPrecursors
  <2>2. /\ ring' \in Seq(Counts) /\ Len(ring') = 0 /\ counters' \in Counts
    BY <2>1, EmptySeq, PrecursorsAssumption DEF Counts
  <2>3. /\ Len(ring') <= WINDOW /\ head' \in 0 .. WINDOW - 1 /\ sampled' \in 0 .. MaxSamples
    BY <2>1, <2>2, PrecursorsAssumption
  <2>4. SamplerTypeOK'
    BY <1>1, <2>1, <2>2, <2>3 DEF SamplerTold, SamplerTypeOK, SamplerInv, Counts
  <2>5. 1 .. Len(ring') = {}
    BY <2>2
  <2> QED
    BY <2>1, <2>2, <2>4, <2>5 DEF SamplerTold
<1>3. CASE \/ \E s \in SamplerStates : PerfAttached(s) \/ UndiciAttached(s)
           \/ \E s \in SamplerStates, m \in Modules : NotAttached(s, m)
           \/ StopPrecursors
  <2>1. /\ UNCHANGED <<created, counters, ring, head, sampled, signalled>> /\ imports' \subseteq imports
    BY <1>3 DEF PerfAttached, UndiciAttached, NotAttached, ImportSettles, StopPrecursors
  <2>2. SamplerTypeOK'
    BY <1>1, <2>1 DEF SamplerTold, SamplerTypeOK, SamplerInv
  <2> QED
    BY <2>1, <2>2 DEF SamplerTold, PlaceInRing, Signalled, Nth
<1> QED
  BY <1>2, <1>3, SampleTells, SignalTells DEF SamplerNext

\* The ring is read in the order of its samples.
LEMMA ReadInOrder ==
  ASSUME SamplerTypeOK, (Len(ring) < WINDOW => head = Len(ring))
  PROVE  /\ Len(ReadRingOrdered) = Len(ring)
         /\ \A n \in 1 .. Len(ring) : ReadRingOrdered[n] = ring[PlaceInRing(n)]
<1> USE PrecursorsAssumption
<1>1. /\ ring \in Seq(Counts) /\ head \in 0 .. WINDOW - 1 /\ Len(ring) \in Nat /\ Len(ring) <= WINDOW
      /\ \A n \in 1 .. Len(ring) : ring[n] \in Counts
  BY LenProperties, ElementOfSeq DEF SamplerTypeOK, Counts
<1>2. CASE Len(ring) < WINDOW
  BY <1>1, <1>2 DEF ReadRingOrdered, PlaceInRing
<1>3. CASE ~(Len(ring) < WINDOW)
  <2> DEFINE a == SubSeq(ring, head + 1, WINDOW)
             b == SubSeq(ring, 1, head)
  <2>1. Len(ring) = WINDOW
    BY <1>1, <1>3
  <2>2. /\ a \in Seq(Counts) /\ Len(a) = WINDOW - head
        /\ \A n \in 1 .. WINDOW - head : a[n] = ring[head + n]
    <3>1. \A n \in head + 1 .. WINDOW : ring[n] \in Counts
      BY <1>1, <2>1
    <3>2. /\ a \in Seq(Counts)
          /\ Len(a) = IF head + 1 <= WINDOW THEN WINDOW - (head + 1) + 1 ELSE 0
          /\ \A n \in 1 .. WINDOW - (head + 1) + 1 : a[n] = ring[(head + 1) + n - 1]
      BY <1>1, <3>1, SubSeqProperties
    <3> HIDE DEF a
    <3>3. \A n \in 1 .. WINDOW - head :
            n \in 1 .. WINDOW - (head + 1) + 1 /\ (head + 1) + n - 1 = head + n
      BY <1>1
    <3>4. Len(a) = WINDOW - head
      BY <1>1, <3>2
    <3> QED
      BY <3>2, <3>3, <3>4
  <2>3. /\ b \in Seq(Counts) /\ Len(b) = head /\ \A n \in 1 .. head : b[n] = ring[n]
    <3>1. \A n \in 1 .. head : ring[n] \in Counts
      BY <1>1, <2>1
    <3>2. /\ b \in Seq(Counts)
          /\ Len(b) = IF 1 <= head THEN head - 1 + 1 ELSE 0
          /\ \A n \in 1 .. head - 1 + 1 : b[n] = ring[1 + n - 1]
      BY <1>1, <3>1, SubSeqProperties
    <3> HIDE DEF b
    <3> QED
      BY <1>1, <3>2
  <2>4. ReadRingOrdered = a \o b
    BY <1>3 DEF ReadRingOrdered
  <2> HIDE DEF a, b
  <2>5. /\ Len(a \o b) = Len(a) + Len(b)
        /\ \A n \in 1 .. Len(a) + Len(b) : (a \o b)[n] = IF n <= Len(a) THEN a[n] ELSE b[n - Len(a)]
    <3>1. a \in Seq(Counts) /\ b \in Seq(Counts)
      BY <2>2, <2>3
    <3> QED
      BY <3>1, ConcatProperties
  <2>6. Len(a) + Len(b) = WINDOW
    BY <1>1, <2>2, <2>3
  <2>7. ASSUME NEW n \in 1 .. WINDOW PROVE (a \o b)[n] = ring[PlaceInRing(n)]
    <3>1. CASE n <= WINDOW - head
      BY <1>1, <1>3, <2>2, <2>5, <2>6, <3>1 DEF PlaceInRing
    <3>2. CASE ~(n <= WINDOW - head)
      <4>1. n - (WINDOW - head) \in 1 .. head
        BY <1>1, <3>2
      <4> QED
        BY <1>1, <1>3, <2>2, <2>3, <2>5, <2>6, <3>2, <4>1 DEF PlaceInRing
    <3> QED
      BY <3>1, <3>2
  <2> QED
    BY <2>1, <2>4, <2>5, <2>6, <2>7
<1> QED
  BY <1>2, <1>3

\* The signals read are those of the window.
LEMMA SignalsAreOfTheWindow == SamplerTold => SignalsOfTheWindow
<1> SUFFICES ASSUME SamplerTold PROVE SignalsOfTheWindow
  OBVIOUS
<1> DEFINE shown == ReadRingOrdered
<1>1. /\ Len(shown) = Len(ring) /\ Len(ring) \in Nat /\ sampled \in Nat
      /\ \A n \in 1 .. Len(ring) : shown[n] = ring[PlaceInRing(n)]
  BY ReadInOrder, LenProperties DEF SamplerTold, SamplerTypeOK
<1>2. \A s \in signalled : s[2] \in Nat
  BY DEF SamplerTold, SamplerTypeOK
<1> HIDE DEF shown
<1>3. CASE sampler = Stopped
  BY <1>3 DEF SignalsOfTheWindow, SnapshotPrecursors
<1>4. CASE sampler # Stopped /\ Len(ring) < 2
  <2>1. SnapshotPrecursors = {}
    BY <1>1, <1>4 DEF SnapshotPrecursors, shown
  <2>2. \A s \in signalled : ~(s[2] < sampled /\ s[2] > sampled - Len(ring))
    BY <1>1, <1>2, <1>4
  <2> QED
    BY <2>1, <2>2 DEF SignalsOfTheWindow
<1>5. CASE sampler # Stopped /\ ~(Len(ring) < 2)
  <2>1. SnapshotPrecursors = {c \in Channels : Last(shown)[c] - shown[1][c] > 0}
    BY <1>1, <1>5 DEF SnapshotPrecursors, shown
  <2>2. Last(shown) = shown[Len(ring)] /\ 1 \in 1 .. Len(ring) /\ Len(ring) \in 1 .. Len(ring)
    BY <1>1, <1>5 DEF Last
  <2>3. ASSUME NEW c \in Channels
        PROVE  Last(shown)[c] - shown[1][c] > 0 <=>
                 \E s \in signalled : s[1] = c /\ s[2] < sampled /\ s[2] > sampled - Len(ring)
    <3>1. shown[1][c] < shown[Len(ring)][c] <=> Signalled(c, Nth(1), Nth(Len(ring)))
      BY <1>1, <1>5, <2>2 DEF SamplerTold
    <3>2. Nth(1) = (sampled - Len(ring)) + 1 /\ Nth(Len(ring)) = sampled
      BY <1>1 DEF Nth
    <3>3. Signalled(c, Nth(1), Nth(Len(ring))) <=>
            \E s \in signalled : s[1] = c /\ s[2] < sampled /\ s[2] > sampled - Len(ring)
      BY <1>1, <1>2, <3>2 DEF Signalled
    <3>4. \A n \in 1 .. Len(ring) : shown[n][c] \in Nat
      <4>1. \A n \in 1 .. Len(ring) : PlaceInRing(n) \in 1 .. Len(ring)
        BY <1>1, PrecursorsAssumption DEF PlaceInRing, SamplerTold, SamplerTypeOK
      <4>2. \A n \in 1 .. Len(ring) : ring[n] \in Counts
        BY ElementOfSeq DEF SamplerTold, SamplerTypeOK, Counts
      <4> QED
        BY <1>1, <4>1, <4>2 DEF Counts
    <3>5. shown[1][c] \in Nat /\ shown[Len(ring)][c] \in Nat
      BY <2>2, <3>4
    <3>6. Last(shown)[c] - shown[1][c] > 0 <=> shown[1][c] < shown[Len(ring)][c]
      BY <2>2, <3>5
    <3> QED
      BY <3>1, <3>3, <3>6
  <2> QED
    BY <1>5, <2>1, <2>3 DEF SignalsOfTheWindow
<1> QED
  BY <1>3, <1>4, <1>5

-----------------------------------------------------------------------------
(* What the breadcrumbs tell *)

\* A fold over one element is one step.
LEMMA FoldOne ==
  ASSUME NEW ring0, NEW c
  PROVE  FoldLeft(AddBreadcrumb, ring0, [k \in 1..1 |-> c]) = AddBreadcrumb(ring0, c)
<1> DEFINE seq == [k \in 1..1 |-> c]
           Folds(iter) == iter = [s \in SUBSET DOMAIN seq |->
                                    IF s = {} THEN ring0
                                    ELSE AddBreadcrumb(iter[s \ {Max(s)}], seq[Max(s)])]
           f == [s \in SUBSET {1} |-> IF s = {} THEN ring0 ELSE AddBreadcrumb(ring0, c)]
<1>1. FoldLeft(AddBreadcrumb, ring0, seq) = (CHOOSE iter : Folds(iter))[DOMAIN seq]
  BY Zenon DEF FoldLeft, MapThenFoldSet
<1>2. DOMAIN seq = {1} /\ seq[1] = c
  OBVIOUS
<1>3. Max({1}) = 1
  BY DEF Max
<1>4. SUBSET {1} = {{}, {1}}
  OBVIOUS
<1>5. Folds(f)
  BY <1>2, <1>3, <1>4
<1>6. Folds(CHOOSE iter : Folds(iter))
  BY <1>5
<1>7. ASSUME NEW iter, Folds(iter)
      PROVE  iter[{1}] = AddBreadcrumb(ring0, c)
  <2>1. {1} \ {1} = {} /\ {1} # {} /\ {} \in SUBSET {1} /\ {1} \in SUBSET {1}
    OBVIOUS
  <2>2. \A s \in SUBSET {1} : iter[s] = IF s = {} THEN ring0
                                       ELSE AddBreadcrumb(iter[s \ {Max(s)}], seq[Max(s)])
    BY <1>2, <1>7
  <2>3. iter[{}] = ring0
    BY <2>1, <2>2
  <2>4. iter[{1}] = AddBreadcrumb(iter[{1} \ {Max({1})}], seq[Max({1})])
    BY <2>1, <2>2
  <2> QED
    BY <1>2, <1>3, <2>1, <2>3, <2>4
<1> QED
  <2> HIDE DEF Folds
  <2> QED
    BY <1>1, <1>2, <1>6, <1>7

\* r is the end of s, and all of s up to a length of max.
EndOf(r, s, max) ==
  /\ Len(r) <= max /\ Len(r) <= Len(s) /\ (Len(r) < max => Len(r) = Len(s))
  /\ \A k \in 1 .. Len(r) : r[k] = s[(Len(s) - Len(r)) + k]

\* A crumb is one of the crumbs there are, the ring holds the newest of them.
CrumbsTold ==
  /\ CrumbsTypeOK /\ wrapped \in 0 .. 1 /\ (settling # {} => wrapped = 1)
  /\ EndOf(crumbs, everything, MAX_BREADCRUMBS)

\* No breadcrumb is left yet.
LEMMA CrumbsTellNothing == CrumbsInit => CrumbsTold
<1> SUFFICES ASSUME CrumbsInit PROVE CrumbsTold
  OBVIOUS
<1>1. crumbs = <<>> /\ everything = <<>> /\ Len(crumbs) = 0 /\ Len(everything) = 0
  BY DEF CrumbsInit
<1>2. CrumbsTypeOK
  BY <1>1, BreadcrumbsAssumption, EmptySeq DEF CrumbsInit, CrumbsTypeOK
<1> QED
  BY <1>1, <1>2, BreadcrumbsAssumption DEF CrumbsInit, CrumbsTold, EndOf

\* What one crumb more does to the end of a sequence.
LEMMA RingFollows ==
  ASSUME NEW S, NEW r \in Seq(S), NEW s \in Seq(S), NEW c \in S, EndOf(r, s, MAX_BREADCRUMBS)
  PROVE  /\ AddBreadcrumb(r, c) \in Seq(S) /\ Append(s, c) \in Seq(S)
         /\ EndOf(AddBreadcrumb(r, c), Append(s, c), MAX_BREADCRUMBS)
<1> DEFINE n == Len(r)
           e == Len(s)
           max == MAX_BREADCRUMBS
           rr == AddBreadcrumb(r, c)
           ss == Append(s, c)
           rest == Tail(r)
<1>1. n \in Nat /\ e \in Nat /\ max \in Nat \ {0} /\ n <= max /\ n <= e /\ (n < max => n = e)
  BY BreadcrumbsAssumption DEF EndOf
<1>2. \A k \in 1 .. n : r[k] = s[(e - n) + k]
  BY DEF EndOf
<1>3. ss \in Seq(S) /\ Len(ss) = e + 1 /\ ss[e + 1] = c /\ \A k \in 1 .. e : ss[k] = s[k]
  OBVIOUS
<1>4. CASE n < max
  <2>1. rr = Append(r, c)
    BY <1>4 DEF AddBreadcrumb
  <2>2. rr \in Seq(S) /\ Len(rr) = n + 1 /\ rr[n + 1] = c /\ \A k \in 1 .. n : rr[k] = r[k]
    <3> DEFINE a == Append(r, c)
    <3>1. a \in Seq(S) /\ Len(a) = n + 1 /\ a[n + 1] = c /\ \A k \in 1 .. n : a[k] = r[k]
      OBVIOUS
    <3> QED
      BY <2>1, <3>1
  <2> HIDE DEF n, e, max, rr, ss
  <2>3. n = e /\ e - n = 0 /\ \A k \in 1 .. n : 0 + k = k
    BY <1>1, <1>4
  <2>4. \A k \in 1 .. n + 1 : rr[k] = ss[k]
    BY <1>1, <1>2, <1>3, <2>2, <2>3
  <2>5. (Len(ss) - Len(rr)) = 0 /\ \A k \in 1 .. n + 1 : 0 + k = k
    BY <1>1, <1>3, <2>2, <2>3
  <2>6. EndOf(rr, ss, max)
    BY <1>1, <1>3, <1>4, <2>2, <2>3, <2>4, <2>5 DEF EndOf
  <2> QED
    BY <1>3, <2>2, <2>6 DEF rr, ss, max
<1>5. CASE n = max
  <2>1. n >= 1
    BY <1>1, <1>5
  <2>2. rr = Append(rest, c) /\ r # <<>>
    BY <1>1, <1>5, <2>1 DEF AddBreadcrumb
  <2>3. rest \in Seq(S) /\ Len(rest) = n - 1 /\ \A k \in 1 .. n - 1 : rest[k] = r[k + 1]
    BY <2>2
  <2> HIDE DEF n, rest
  <2>4. /\ Append(rest, c) \in Seq(S) /\ Len(Append(rest, c)) = n /\ Append(rest, c)[n] = c
        /\ \A k \in 1 .. n - 1 : Append(rest, c)[k] = rest[k]
    BY <1>1, <2>1, <2>3
  <2>5. rr \in Seq(S) /\ Len(rr) = n /\ rr[n] = c /\ \A k \in 1 .. n - 1 : rr[k] = rest[k]
    BY <2>2, <2>4
  <2> HIDE DEF e, max, rr, ss
  <2>6. ASSUME NEW k \in 1 .. n - 1
        PROVE  rr[k] = ss[(e - n) + (k + 1)]
    <3>1. k + 1 \in 1 .. n /\ (e - n) + (k + 1) \in 1 .. e
      BY <1>1, <2>1
    <3>2. r[k + 1] = s[(e - n) + (k + 1)]
      BY <1>2, <3>1
    <3> QED
      BY <1>3, <2>3, <2>5, <3>1, <3>2
  <2>7. ASSUME NEW k \in 1 .. n
        PROVE  rr[k] = ss[(Len(ss) - Len(rr)) + k]
    <3>1. (Len(ss) - Len(rr)) + k = (e - n) + (k + 1)
      BY <1>1, <1>3, <2>5
    <3>2. CASE k = n
      <4>1. (e - n) + (k + 1) = e + 1
        BY <1>1, <3>2
      <4> QED
        BY <1>3, <2>5, <3>1, <3>2, <4>1
    <3>3. CASE k # n
      <4>1. k \in 1 .. n - 1
        BY <1>1, <3>3
      <4> QED
        BY <2>6, <3>1, <4>1
    <3> QED
      BY <3>2, <3>3
  <2>8. EndOf(rr, ss, max)
    BY <1>1, <1>3, <1>5, <2>5, <2>7 DEF EndOf
  <2> QED
    BY <1>3, <2>5, <2>8 DEF rr, ss, max
<1> QED
  <2>1. n < max \/ n = max
    <3> HIDE DEF n, max, e
    <3> QED
      BY <1>1
  <2> QED
    BY <1>4, <1>5, <2>1

\* A crumb left while console and fetch are wrapped goes into the ring once.
LEMMA CrumbLeft ==
  ASSUME CrumbsTold, wrapped = 1, NEW c \in Crumbs, Left(c)
  PROVE  /\ crumbs' \in Seq(Crumbs) /\ everything' \in Seq(Crumbs)
         /\ EndOf(crumbs, everything, MAX_BREADCRUMBS)'
<1>1. crumbs' = AddBreadcrumb(crumbs, c) /\ everything' = Append(everything, c)
  BY FoldOne DEF Left
<1>2. crumbs \in Seq(Crumbs) /\ everything \in Seq(Crumbs) /\ EndOf(crumbs, everything, MAX_BREADCRUMBS)
  BY DEF CrumbsTold, CrumbsTypeOK
<1>3. /\ AddBreadcrumb(crumbs, c) \in Seq(Crumbs) /\ Append(everything, c) \in Seq(Crumbs)
      /\ EndOf(AddBreadcrumb(crumbs, c), Append(everything, c), MAX_BREADCRUMBS)
  BY <1>2, RingFollows
<1>4. EndOf(crumbs, everything, MAX_BREADCRUMBS)' <=> EndOf(crumbs', everything', MAX_BREADCRUMBS)
  BY DEF EndOf
<1> QED
  BY <1>1, <1>3, <1>4

\* Every step keeps the ring the end of all that was left.
LEMMA CrumbsTell == CrumbsTold /\ CrumbsNext => CrumbsTold'
<1> SUFFICES ASSUME CrumbsTold, CrumbsNext PROVE CrumbsTold'
  OBVIOUS
<1> USE BreadcrumbsAssumption
<1>1. CASE InitBreadcrumbs
  <2>1. 1 \in 0 .. MaxInits
    BY <1>1 DEF InitBreadcrumbs, CrumbsTold, CrumbsTypeOK
  <2>2. wrapped' = 1 /\ UNCHANGED <<crumbs, settling, fetched, everything, logs>>
    BY <1>1 DEF InitBreadcrumbs, WrapOnce
  <2>3. CrumbsTypeOK'
    BY <2>1, <2>2 DEF CrumbsTold, CrumbsTypeOK
  <2>4. EndOf(crumbs, everything, MAX_BREADCRUMBS)'
    BY <2>2, Zenon DEF CrumbsTold, EndOf
  <2>5. wrapped' \in 0 .. 1 /\ (settling' # {} => wrapped' = 1)
    BY <2>2
  <2> QED
    BY <2>3, <2>4, <2>5 DEF CrumbsTold
<1>2. CASE ConsoleCall
  <2>1. [of |-> "log", n |-> logs + 1] \in Crumbs /\ logs + 1 \in 0 .. MaxLogs /\ wrapped = 1
    BY <1>2 DEF ConsoleCall, CrumbsTold, CrumbsTypeOK, Crumbs
  <2>2. Left([of |-> "log", n |-> logs + 1])
    BY <1>2 DEF ConsoleCall
  <2>3. CrumbsTypeOK'
    BY <1>2, <2>1, <2>2, CrumbLeft DEF ConsoleCall, CrumbsTold, CrumbsTypeOK
  <2> QED
    BY <1>2, <2>1, <2>2, <2>3, CrumbLeft DEF ConsoleCall, CrumbsTold
<1>3. ASSUME NEW f \in Requested, FetchStarts(f)
      PROVE  CrumbsTold'
  <2>1. [of |-> "fetch", n |-> f] \in Crumbs /\ wrapped = 1
    BY <1>3 DEF FetchStarts, CrumbsTold, CrumbsTypeOK, Crumbs
  <2>2. Left([of |-> "fetch", n |-> f])
    BY <1>3 DEF FetchStarts
  <2>3. CrumbsTypeOK'
    BY <1>3, <2>1, <2>2, CrumbLeft DEF FetchStarts, CrumbsTold, CrumbsTypeOK
  <2> QED
    BY <1>3, <2>1, <2>2, <2>3, CrumbLeft DEF FetchStarts, CrumbsTold
<1>4. ASSUME NEW f \in Requested, FetchFails(f)
      PROVE  CrumbsTold'
  <2>1. [of |-> "failed", n |-> f] \in Crumbs /\ wrapped = 1
    BY <1>4 DEF FetchFails, CrumbsTold, Crumbs
  <2>2. Left([of |-> "failed", n |-> f])
    BY <1>4 DEF FetchFails
  <2>3. CrumbsTypeOK'
    BY <1>4, <2>1, <2>2, CrumbLeft DEF FetchFails, CrumbsTold, CrumbsTypeOK
  <2> QED
    BY <1>4, <2>1, <2>2, <2>3, CrumbLeft DEF FetchFails, CrumbsTold
<1>5. ASSUME NEW f \in Requested, FetchSucceeds(f)
      PROVE  CrumbsTold'
  BY <1>5 DEF FetchSucceeds, CrumbsTold, CrumbsTypeOK, EndOf
<1> QED
  BY <1>1, <1>2, <1>3, <1>4, <1>5 DEF CrumbsNext

\* The ring is the end of all crumbs.
LEMMA RingIsNewest == CrumbsTold => NewestCrumbs
<1> SUFFICES ASSUME CrumbsTold PROVE NewestCrumbs
  OBVIOUS
<1> DEFINE e == Len(everything)
           n == Len(crumbs)
           from == 1 + (IF e > MAX_BREADCRUMBS THEN e - MAX_BREADCRUMBS ELSE 0)
           lastFew == SubSeq(everything, from, e)
<1>1. crumbs \in Seq(Crumbs) /\ everything \in Seq(Crumbs)
  BY DEF CrumbsTold, CrumbsTypeOK
<1>2. /\ MAX_BREADCRUMBS \in Nat \ {0} /\ n \in Nat /\ e \in Nat
      /\ n <= MAX_BREADCRUMBS /\ n <= e /\ (n < MAX_BREADCRUMBS => n = e)
  BY <1>1, BreadcrumbsAssumption DEF CrumbsTold, EndOf
<1>3. \A k \in 1 .. n : crumbs[k] = everything[(e - n) + k]
  BY DEF CrumbsTold, EndOf
<1> HIDE DEF n
<1>4. from \in 1 .. e + 1 /\ from = (e - n) + 1
  <2> HIDE DEF e
  <2> QED
    BY <1>2
<1> HIDE DEF from
<1>5. /\ lastFew \in Seq(Crumbs)
      /\ Len(lastFew) = IF from <= e THEN (e - from) + 1 ELSE 0
      /\ \A k \in 1 .. (e - from) + 1 : lastFew[k] = everything[(from + k) - 1]
  BY <1>1, <1>4, SubSeqProperties
<1> HIDE DEF lastFew, e
<1>6. Len(lastFew) = n
  BY <1>2, <1>4, <1>5
<1>7. ASSUME NEW k \in 1 .. n
      PROVE  lastFew[k] = crumbs[k]
  <2>1. (from + k) - 1 = (e - n) + k /\ k \in 1 .. (e - from) + 1
    BY <1>2, <1>4
  <2> QED
    BY <1>3, <1>5, <2>1
<1>8. lastFew = crumbs
  BY <1>1, <1>5, <1>6, <1>7, SeqEqual DEF n
<1> QED
  BY <1>8 DEF lastFew, e, from, NewestCrumbs

-----------------------------------------------------------------------------
(* What the session recorder has told *)

\* What is there after each of a list of n events was pushed.
Pushes(after, base, list, n) ==
  /\ after[0] = base /\ FoldLeft(PushEvent, base, list) = after[n]
  /\ \A k \in 1 .. n : after[k] = PushEvent(after[k - 1], list[k])

\* A list of events is pushed one by one, each into what the one before it left.
LEMMA PushedOneByOne ==
  ASSUME NEW base, NEW n \in Nat, NEW list, DOMAIN list = 1 .. n
  PROVE  \E after : Pushes(after, base, list, n)
<1> DEFINE Folds(m, f) ==
             f = [s \in SUBSET (1 .. m) |->
                    IF s = {} THEN base ELSE PushEvent(f[s \ {Max(s)}], list[Max(s)])]
<1>1. ASSUME NEW m \in 0 .. n, NEW s \in SUBSET (1 .. m), s # {}
      PROVE  Max(s) \in s /\ \A k \in s : k <= Max(s)
  <2>1. s \in SUBSET (0 .. m) /\ m \in Nat
    OBVIOUS
  <2>2. \E i \in s : \A k \in s : k <= i
    BY <1>1, <2>1, GreatestExists
  <2>3. \E i \in s : \A k \in s : i >= k
    BY <2>1, <2>2
  <2> QED
    BY <2>1, <2>3 DEF Max
<1> DEFINE There == {m \in 0 .. n : \E f : Folds(m, f)}
<1>2. 0 \in There
  <2>1. Folds(0, [s \in {{}} |-> base])
    <3>1. SUBSET (1 .. 0) = {{}}
      OBVIOUS
    <3> QED
      BY <3>1
  <2> HIDE DEF Folds
  <2>2. 0 \in 0 .. n
    OBVIOUS
  <2> QED
    BY <2>1, <2>2
<1>3. ASSUME NEW m \in 0 .. n - 1, m \in There
      PROVE  m + 1 \in There
  <2>1. PICK f : Folds(m, f)
    BY <1>3
  <2> DEFINE g == [s \in SUBSET (1 .. m + 1) |->
                     IF m + 1 \in s THEN PushEvent(f[s \ {m + 1}], list[m + 1]) ELSE f[s]]
  <2>2. ASSUME NEW s \in SUBSET (1 .. m + 1)
        PROVE  g[s] = IF s = {} THEN base ELSE PushEvent(g[s \ {Max(s)}], list[Max(s)])
    <3>1. CASE m + 1 \in s
      <4>1. Max(s) = m + 1
        <5>1. m + 1 \in 0 .. n /\ s # {}
          BY <3>1
        <5>2. Max(s) \in s /\ \A k \in s : k <= Max(s)
          BY <1>1, <5>1
        <5> DEFINE top == Max(s)
        <5> HIDE DEF top
        <5>3. top \in 1 .. m + 1 /\ m + 1 <= top
          BY <3>1, <5>2 DEF top
        <5> QED
          BY <5>3 DEF top
      <4>2. s \ {m + 1} \in SUBSET (1 .. m) /\ m + 1 \notin s \ {m + 1}
        OBVIOUS
      <4>3. g[s \ {m + 1}] = f[s \ {m + 1}]
        BY <4>2
      <4> QED
        BY <3>1, <4>1, <4>3
    <3>2. CASE m + 1 \notin s
      <4>1. s \in SUBSET (1 .. m) /\ g[s] = f[s]
        BY <3>2
      <4>2. f[s] = IF s = {} THEN base ELSE PushEvent(f[s \ {Max(s)}], list[Max(s)])
        BY <2>1, <4>1
      <4>3. s \ {Max(s)} \in SUBSET (1 .. m + 1) /\ m + 1 \notin s \ {Max(s)}
        BY <3>2
      <4>4. g[s \ {Max(s)}] = f[s \ {Max(s)}]
        BY <4>3
      <4> QED
        BY <4>1, <4>2, <4>4
    <3> QED
      BY <3>1, <3>2
  <2>3. g = [s \in SUBSET (1 .. m + 1) |-> g[s]]
    OBVIOUS
  <2> HIDE DEF g
  <2>4. Folds(m + 1, g)
    BY <2>2, <2>3
  <2>5. m + 1 \in 0 .. n
    OBVIOUS
  <2> HIDE DEF Folds
  <2> QED
    BY <2>4, <2>5
<1>4. n \in There
  <2> HIDE DEF There
  <2>1. 0 .. n \subseteq There
    BY <1>2, <1>3, IndexInduction
  <2>2. n \in 0 .. n
    OBVIOUS
  <2> QED
    BY <2>1, <2>2
<1> DEFINE iter == CHOOSE f : Folds(n, f)
<1>5. FoldLeft(PushEvent, base, list) = iter[1 .. n]
  BY Zenon DEF FoldLeft, MapThenFoldSet
<1>6. Folds(n, iter)
  BY <1>4
<1> HIDE DEF iter, There
<1> DEFINE after == [k \in 0 .. n |-> iter[1 .. k]]
<1>7. ASSUME NEW s \in SUBSET (1 .. n)
      PROVE  iter[s] = IF s = {} THEN base ELSE PushEvent(iter[s \ {Max(s)}], list[Max(s)])
  BY <1>6
<1>8. after[0] = base
  <2>1. 1 .. 0 = {} /\ {} \in SUBSET (1 .. n) /\ 0 \in 0 .. n
    OBVIOUS
  <2>2. iter[{}] = base
    BY <1>7, <2>1
  <2> QED
    BY <2>1, <2>2
<1>9. ASSUME NEW k \in 1 .. n
      PROVE  after[k] = PushEvent(after[k - 1], list[k])
  <2>1. 1 .. k \in SUBSET (1 .. n) /\ 1 .. k # {} /\ k \in 1 .. k /\ k \in 0 .. n
    <3>1. \A j \in 1 .. k : j \in 1 .. n
      OBVIOUS
    <3>2. k \in 1 .. k /\ k \in 0 .. n
      OBVIOUS
    <3> QED
      BY <3>1, <3>2
  <2>2. Max(1 .. k) = k
    <3>1. 1 .. k \in SUBSET (1 .. k)
      OBVIOUS
    <3>2. Max(1 .. k) \in 1 .. k /\ k <= Max(1 .. k)
      BY <1>1, <2>1, <3>1
    <3> QED
      BY <3>2
  <2>3. (1 .. k) \ {k} = 1 .. k - 1 /\ k - 1 \in 0 .. n
    OBVIOUS
  <2>4. iter[1 .. k] = PushEvent(iter[1 .. k - 1], list[k])
    BY <1>7, <2>1, <2>2, <2>3
  <2> QED
    BY <2>3, <2>4
<1>10. after[n] = FoldLeft(PushEvent, base, list)
  BY <1>5
<1> QED
  <2> HIDE DEF after
  <2> QED
    BY <1>8, <1>9, <1>10 DEF Pushes

\* In the order of the timestamps, none later than now, each event once per recorder.
InTime(b) ==
  /\ \A n \in 1 .. Len(b) : b[n].timestamp <= clock
  /\ \A m, n \in 1 .. Len(b) : m < n =>
       /\ b[m].timestamp <= b[n].timestamp
       /\ b[m].what # b[n].what \/ b[m].by # b[n].by

\* Clicks and inputs are in the order of h.
InStep(b, h) ==
  \A m, n \in 1 .. Len(b) : \A p, q \in 1 .. Len(h) :
    m < n /\ h[p] \in Interactions /\ h[q] \in Interactions /\ b[m].what = h[p] /\ b[n].what = h[q]
      => p <= q

\* Of the clicks and inputs since one that is there none up to top is missing.
NoneMissing(b, h, top) ==
  \A m \in 1 .. Len(b) : \A p \in 1 .. Len(h) : \A k \in p .. top :
    h[p] \in Interactions /\ h[k] \in Interactions /\ b[m].what = h[p]
      => \E l \in 1 .. Len(b) : b[l].what = h[k]

\* What the buffer holds of the interactions h.
RecordKept(b, h, top) ==
  /\ b \in Seq(SessionEvents) /\ Len(b) <= MaxEvents
  /\ \A n \in 1 .. Len(b) : b[n].what \in Range(h)
  /\ \A m, n \in 1 .. Len(b) : m < n => b[n].timestamp <= b[m].timestamp + MaxSeconds
  /\ InTime(b) /\ InStep(b, h) /\ NoneMissing(b, h, top)

\* A push drops a prefix of the buffer: what is too much, and what is too old.
LEMMA PushCuts ==
  ASSUME NEW b \in Seq(SessionEvents), NEW x \in SessionEvents, InTime(b),
         clock \in 0 .. MaxClock, x.timestamp = clock
  PROVE  \E d \in 0 .. Len(b) :
           /\ PushEvent(b, x) \in Seq(SessionEvents)
           /\ Len(PushEvent(b, x)) = (Len(b) + 1) - d /\ Len(PushEvent(b, x)) <= MaxEvents
           /\ \A k \in 1 .. (Len(b) + 1) - d :
                /\ PushEvent(b, x)[k] = Append(b, x)[d + k]
                /\ clock <= PushEvent(b, x)[k].timestamp + MaxSeconds
<1> USE SessionRecorderAssumption
<1> DEFINE n == Len(b)
           a == Append(b, x)
           few == IF Len(a) > MaxEvents THEN SubSeq(a, (Len(a) - MaxEvents) + 1, Len(a)) ELSE a
           fresh == {i \in DOMAIN few : few[i].timestamp + MaxSeconds >= clock}
           first == CHOOSE i \in fresh : \A k \in fresh : i <= k
           r == SubSeq(few, first, Len(few))
           over == IF n + 1 > MaxEvents THEN (n + 1) - MaxEvents ELSE 0
<1>0. \A e \in SessionEvents : e.timestamp \in Nat
  BY DEF SessionEvents
<1>1. /\ n \in Nat /\ a \in Seq(SessionEvents) /\ Len(a) = n + 1 /\ a[n + 1] = x
      /\ \A k \in 1 .. n : a[k] = b[k]
  OBVIOUS
<1>2. PushEvent(b, x) = r
  BY DEF PushEvent, Evicted
<1> HIDE DEF a
<1>3. \A i \in 1 .. n : b[i].timestamp <= clock /\ b[i].timestamp \in Nat
  <2>1. \A i \in 1 .. n : b[i] \in SessionEvents
    OBVIOUS
  <2> QED
    BY <1>0, <2>1 DEF InTime
<1>4. \A i, k \in 1 .. n + 1 : i <= k => a[i].timestamp <= a[k].timestamp
  <2>1. \A i, k \in 1 .. n : i < k => b[i].timestamp <= b[k].timestamp
    BY DEF InTime
  <2> HIDE DEF n
  <2>2. ASSUME NEW i \in 1 .. n + 1, NEW k \in 1 .. n + 1, i < k
        PROVE  a[i].timestamp <= a[k].timestamp
    <3>1. i \in 1 .. n /\ (k \in 1 .. n \/ k = n + 1)
      BY <1>1, <2>2
    <3> QED
      BY <1>1, <1>3, <2>1, <2>2, <3>1
  <2>3. ASSUME NEW i \in 1 .. n + 1
        PROVE  a[i].timestamp <= a[i].timestamp
    <3>1. a[i] \in SessionEvents
      BY <1>1
    <3>2. a[i].timestamp \in Nat
      BY <1>0, <3>1
    <3> QED
      BY <3>2
  <2> QED
    BY <1>1, <2>2, <2>3
<1> HIDE DEF n
<1>5. over \in 0 .. n /\ (n + 1) - over <= MaxEvents
  BY <1>1
<1>6. /\ few \in Seq(SessionEvents) /\ Len(few) = (n + 1) - over
      /\ \A k \in 1 .. (n + 1) - over : few[k] = a[over + k]
  <2>1. CASE n + 1 > MaxEvents
    <3> DEFINE from == ((n + 1) - MaxEvents) + 1
    <3>1. from \in 1 .. n + 1 /\ ((n + 1) - from) + 1 = (n + 1) - over /\ from = over + 1
      BY <1>1, <2>1
    <3>2. few = SubSeq(a, from, n + 1)
      BY <1>1, <2>1
    <3> HIDE DEF from, few, over
    <3>3. /\ SubSeq(a, from, n + 1) \in Seq(SessionEvents)
          /\ Len(SubSeq(a, from, n + 1)) = ((n + 1) - from) + 1
          /\ \A k \in 1 .. ((n + 1) - from) + 1 : SubSeq(a, from, n + 1)[k] = a[(from + k) - 1]
      BY <1>1, <3>1, SubSeqProperties
    <3>4. \A k \in 1 .. (n + 1) - over : (from + k) - 1 = over + k
      BY <1>1, <1>5, <3>1
    <3> QED
      BY <3>1, <3>2, <3>3, <3>4
  <2>2. CASE ~(n + 1 > MaxEvents)
    <3>1. few = a /\ over = 0 /\ \A k \in 1 .. n + 1 : 0 + k = k
      BY <1>1, <2>2
    <3> HIDE DEF few, over
    <3> QED
      BY <1>1, <3>1
  <2> QED
    BY <2>1, <2>2
<1> HIDE DEF few, over
<1> DEFINE N == (n + 1) - over
<1>7. N \in Nat \ {0} /\ N <= MaxEvents /\ over + N = n + 1
  BY <1>1, <1>5
<1>8. few[N] = x /\ N \in fresh
  <2>1. N \in 1 .. N
    BY <1>7
  <2>2. few[N] = x
    BY <1>1, <1>6, <1>7, <2>1
  <2>3. N \in DOMAIN few
    BY <1>6, <2>1
  <2>4. x.timestamp + MaxSeconds >= clock
    OBVIOUS
  <2> QED
    BY <2>2, <2>3, <2>4
<1>9. first \in fresh /\ first \in 1 .. N
  <2>1. fresh \in SUBSET Nat /\ fresh \in SUBSET (1 .. N)
    BY <1>6, <1>7
  <2> HIDE DEF fresh
  <2>2. \E i \in fresh : \A k \in fresh : i <= k
    BY <1>8, <2>1, LeastExists
  <2> QED
    BY <2>1, <2>2
<1>10. few[first].timestamp + MaxSeconds >= clock
  BY <1>9
<1> HIDE DEF first, fresh
<1> DEFINE d == (over + first) - 1
<1>11. d \in 0 .. n /\ (N - first) + 1 = (n + 1) - d
  BY <1>1, <1>5, <1>7, <1>9
<1>12. /\ r \in Seq(SessionEvents) /\ Len(r) = (N - first) + 1
       /\ \A k \in 1 .. (N - first) + 1 : r[k] = few[(first + k) - 1]
  BY <1>6, <1>7, <1>9, SubSeqProperties
<1> HIDE DEF r
<1>13. (N - first) + 1 <= MaxEvents
  BY <1>7, <1>9
<1>14. ASSUME NEW k \in 1 .. (n + 1) - d
       PROVE  r[k] = a[d + k] /\ clock <= r[k].timestamp + MaxSeconds
  <2>1. k \in 1 .. (N - first) + 1 /\ (first + k) - 1 \in 1 .. N /\ over + ((first + k) - 1) = d + k
        /\ d + k \in 1 .. n + 1 /\ over + first \in 1 .. n + 1 /\ over + first <= d + k
    BY <1>1, <1>5, <1>7, <1>9, <1>11
  <2>2. r[k] = a[d + k]
    BY <1>6, <1>12, <2>1
  <2>3. few[first] = a[over + first]
    BY <1>6, <1>9
  <2>4. a[over + first].timestamp <= a[d + k].timestamp
    BY <1>4, <2>1
  <2>5. a[over + first].timestamp \in Nat /\ a[d + k].timestamp \in Nat
    <3>1. a[over + first] \in SessionEvents /\ a[d + k] \in SessionEvents
      BY <1>1, <2>1
    <3> QED
      BY <1>0, <3>1
  <2> QED
    BY <1>10, <2>2, <2>3, <2>4, <2>5
<1> HIDE DEF d
<1> QED
  BY <1>2, <1>11, <1>12, <1>13, <1>14 DEF a, n

\* An event is new to the buffer, and a navigation or the newest of the interactions h:
\* then it may be pushed, and after it none is missing up to next.
MayPush(b, x, h, top, next) ==
  /\ x \in SessionEvents /\ x.timestamp = clock /\ x.what \in Range(h)
  /\ \A n \in 1 .. Len(b) : b[n].what # x.what \/ b[n].by # x.by
  /\ \/ x.what \in Navigations /\ next = top
     \/ x.what \in Interactions /\ next = Len(h) /\ Len(h) > 0 /\ x.what = h[Len(h)] /\ top + 1 >= next

\* r holds nothing but x and what is in b.
AddsOnly(r, b, x) ==
  \A k \in 1 .. Len(r) : r[k] = x \/ \E n \in 1 .. Len(b) : r[k] = b[n]

\* A push keeps what the buffer holds of the interactions: a navigation may be any
\* one, a click or an input is the newest one.
LEMMA PushKeeps ==
  ASSUME NEW h \in Seq(Interactions \cup Navigations), IsInjective(h),
         NEW top \in 0 .. Len(h), NEW next \in 0 .. Len(h), NEW b, RecordKept(b, h, top),
         NEW x, clock \in 0 .. MaxClock, MayPush(b, x, h, top, next)
  PROVE  RecordKept(PushEvent(b, x), h, next) /\ AddsOnly(PushEvent(b, x), b, x)
<1> USE SessionRecorderAssumption
<1> DEFINE n == Len(b)
           H == Len(h)
           r == PushEvent(b, x)
           a == Append(b, x)
           Clicking(e) == e \in Interactions
<1>0. x \in SessionEvents /\ x.timestamp = clock /\ x.what \in Range(h)
  BY DEF MayPush
<1>1. b \in Seq(SessionEvents) /\ InTime(b) /\ InStep(b, h) /\ NoneMissing(b, h, top)
  BY DEF RecordKept
<1>2. /\ n \in Nat /\ H \in Nat /\ a \in Seq(SessionEvents) /\ a[n + 1] = x
      /\ \A k \in 1 .. n : a[k] = b[k]
  BY <1>0, <1>1
<1>3. PICK d \in 0 .. n :
        /\ r \in Seq(SessionEvents) /\ Len(r) = (n + 1) - d /\ Len(r) <= MaxEvents
        /\ \A k \in 1 .. (n + 1) - d : r[k] = a[d + k] /\ clock <= r[k].timestamp + MaxSeconds
  BY <1>0, <1>1, PushCuts
<1>4. \A e \in SessionEvents : e.timestamp \in Nat
  BY DEF SessionEvents
<1>5. /\ \A k \in 1 .. n : b[k].timestamp <= clock /\ b[k].what \in Range(h)
      /\ \A i, k \in 1 .. n : i < k =>
           /\ b[i].timestamp <= b[k].timestamp
           /\ b[i].what # b[k].what \/ b[i].by # b[k].by
  BY DEF RecordKept, InTime
<1>6. \A k \in 1 .. n : b[k].what # x.what \/ b[k].by # x.by
  BY DEF MayPush
<1>7. \A i, k \in 1 .. n : \A p, q \in 1 .. H :
        i < k /\ Clicking(h[p]) /\ Clicking(h[q]) /\ b[i].what = h[p] /\ b[k].what = h[q] => p <= q
  BY <1>1 DEF InStep
<1>8. \A i \in 1 .. n : \A p \in 1 .. H : \A k \in p .. top :
        Clicking(h[p]) /\ Clicking(h[k]) /\ b[i].what = h[p] => \E l \in 1 .. n : b[l].what = h[k]
  BY <1>1 DEF NoneMissing
<1>9. \A p, q \in 1 .. H : h[p] = h[q] => p = q
  BY DEF IsInjective
<1>10. /\ top \in 0 .. H /\ next \in 0 .. H
       /\ \/ ~Clicking(x.what) /\ next = top
          \/ next = H /\ H > 0 /\ x.what = h[H] /\ top + 1 >= next
  BY DEF MayPush
<1> HIDE DEF n, H, r, a
\* What the pushed event adds to the end.
<1>11. \A k \in 1 .. n + 1 : a[k].timestamp <= clock /\ a[k].what \in Range(h)
  <2>1. a[n + 1].timestamp <= clock /\ a[n + 1].what \in Range(h)
    BY <1>0, <1>2
  <2>2. \A k \in 1 .. n : a[k].timestamp <= clock /\ a[k].what \in Range(h)
    BY <1>2, <1>5
  <2> QED
    BY <1>2, <2>1, <2>2
<1>12. ASSUME NEW i \in 1 .. n + 1, NEW k \in 1 .. n + 1, i < k
       PROVE  /\ a[i].timestamp <= a[k].timestamp
              /\ a[i].what # a[k].what \/ a[i].by # a[k].by
  <2>0. n \in Nat /\ i \in 1 .. n /\ (k \in 1 .. n \/ k = n + 1)
    <3>1. n \in Nat
      BY <1>2
    <3> QED
      BY <1>12, <3>1
  <2>1. i \in 1 .. n /\ a[i] = b[i] /\ (k \in 1 .. n \/ k = n + 1)
    BY <1>2, <2>0
  <2>2. CASE k = n + 1
    BY <1>0, <1>2, <1>5, <1>6, <2>1, <2>2
  <2>3. CASE k \in 1 .. n
    BY <1>2, <1>5, <1>12, <2>1, <2>3
  <2> QED
    BY <2>1, <2>2, <2>3
<1>13. ASSUME NEW i \in 1 .. n + 1, NEW k \in 1 .. n + 1, NEW p \in 1 .. H, NEW q \in 1 .. H,
              i < k, Clicking(h[p]), Clicking(h[q]), a[i].what = h[p], a[k].what = h[q]
       PROVE  p <= q
  <2>1. i \in 1 .. n /\ a[i] = b[i] /\ (k \in 1 .. n \/ k = n + 1)
    BY <1>2, <1>13
  <2>2. CASE k = n + 1
    <3>1. x.what = h[q]
      BY <1>2, <1>13, <2>2
    <3>2. x.what = h[H]
      BY <1>10, <1>13, <3>1
    <3>3. q = H
      <4>1. H \in 1 .. H
        BY <1>2, <1>13
      <4> QED
        BY <1>9, <3>1, <3>2, <4>1
    <3> QED
      BY <1>2, <3>3
  <2>3. CASE k \in 1 .. n
    <3>1. b[i].what = h[p] /\ b[k].what = h[q]
      BY <1>2, <1>13, <2>1, <2>3
    <3> QED
      BY <1>7, <1>13, <2>1, <2>3, <3>1
  <2> QED
    BY <2>1, <2>2, <2>3
\* The rest of it after the cut.
<1> DEFINE R == (n + 1) - d
<1>14. R \in 1 .. n + 1 /\ \A k \in 1 .. R : d + k \in 1 .. n + 1 /\ r[k] = a[d + k]
  BY <1>2, <1>3
<1>15. \A k \in 1 .. R : clock <= r[k].timestamp + MaxSeconds
  BY <1>3
<1>16. Len(r) = R
  BY <1>3
<1>17. \A i, k \in 1 .. R : i < k => d + i < d + k
  BY <1>2
<1>18. d \in 0 .. n /\ d + R = n + 1
  BY <1>2
<1> HIDE DEF R
<1>19. InTime(r)
  <2>1. \A k \in 1 .. R : r[k].timestamp <= clock
    BY <1>11, <1>14
  <2>2. ASSUME NEW i \in 1 .. R, NEW k \in 1 .. R, i < k
        PROVE  /\ r[i].timestamp <= r[k].timestamp
               /\ r[i].what # r[k].what \/ r[i].by # r[k].by
    <3>1. d + i \in 1 .. n + 1 /\ d + k \in 1 .. n + 1 /\ d + i < d + k
      BY <1>14, <1>17, <2>2
    <3> QED
      BY <1>12, <1>14, <3>1
  <2> QED
    BY <1>16, <2>1, <2>2 DEF InTime
<1>20. InStep(r, h)
  <2>1. ASSUME NEW i \in 1 .. R, NEW k \in 1 .. R, NEW p \in 1 .. H, NEW q \in 1 .. H,
               i < k, Clicking(h[p]), Clicking(h[q]), r[i].what = h[p], r[k].what = h[q]
        PROVE  p <= q
    <3>1. d + i \in 1 .. n + 1 /\ d + k \in 1 .. n + 1 /\ d + i < d + k
      BY <1>14, <1>17, <2>1
    <3>2. a[d + i].what = h[p] /\ a[d + k].what = h[q]
      BY <1>14, <2>1
    <3> QED
      BY <1>13, <2>1, <3>1, <3>2
  <2> QED
    BY <1>16, <2>1 DEF InStep, H
<1>21. NoneMissing(r, h, next)
  <2>1. ASSUME NEW i \in 1 .. R, NEW p \in 1 .. H, NEW k \in p .. next,
               Clicking(h[p]), Clicking(h[k]), r[i].what = h[p]
        PROVE  \E l \in 1 .. R : r[l].what = h[k]
    <3>1. a[d + i].what = h[p] /\ d + i \in 1 .. n + 1 /\ k \in 1 .. H
      BY <1>2, <1>10, <1>14, <2>1
    <3>2. CASE k = p
      BY <2>1, <3>2
    <3>3. CASE k > top /\ k # p
      <4>1. next = H /\ k = H /\ x.what = h[H]
        BY <1>2, <1>10, <3>1, <3>3
      <4>2. R \in 1 .. R
        BY <1>2, <1>14
      <4>3. r[R] = a[d + R]
        BY <1>14, <4>2
      <4>4. r[R] = x
        BY <1>2, <1>18, <4>3
      <4> QED
        BY <4>1, <4>2, <4>4
    <3>4. CASE k <= top /\ k # p
      <4>1. k \in p .. top /\ k > p
        BY <1>2, <3>1, <3>4
      <4>2. d + i \in 1 .. n
        <5>1. CASE d + i = n + 1
          <6>1. x.what = h[p]
            BY <1>2, <3>1, <5>1
          <6>2. H \in 1 .. H /\ h[H] = x.what
            BY <1>2, <1>10, <2>1, <6>1
          <6>3. p = H
            BY <1>9, <6>1, <6>2
          <6> QED
            BY <1>2, <3>1, <4>1, <6>3
        <5>2. CASE d + i # n + 1
          BY <1>2, <3>1, <5>2
        <5> QED
          BY <5>1, <5>2
      <4>3. b[d + i].what = h[p]
        BY <1>2, <3>1, <4>2
      <4>4. PICK l \in 1 .. n : b[l].what = h[k]
        BY <1>8, <2>1, <4>1, <4>2, <4>3
      <4>5. ~(l < d + i)
        BY <1>2, <1>7, <2>1, <3>1, <4>1, <4>2, <4>3, <4>4
      <4>6. l >= d + i /\ l - d \in 1 .. R /\ d + (l - d) = l
        BY <1>2, <1>14, <1>18, <4>2, <4>5
      <4>7. r[l - d].what = h[k]
        BY <1>2, <1>14, <4>4, <4>6
      <4> QED
        BY <4>6, <4>7
    <3> QED
      BY <1>2, <1>10, <3>1, <3>2, <3>3, <3>4
  <2> QED
    BY <1>16, <2>1 DEF NoneMissing, H
<1>22. \A k \in 1 .. R : r[k].what \in Range(h)
  BY <1>11, <1>14
<1>23. ASSUME NEW i \in 1 .. R, NEW k \in 1 .. R
       PROVE  r[k].timestamp <= r[i].timestamp + MaxSeconds
  <2>1. r[k] \in SessionEvents /\ r[i] \in SessionEvents
    BY <1>3, <1>16
  <2>2. r[k].timestamp <= clock /\ clock <= r[i].timestamp + MaxSeconds
    BY <1>11, <1>14, <1>15
  <2> QED
    BY <1>4, <2>1, <2>2
<1>24. RecordKept(r, h, next)
  BY <1>3, <1>16, <1>19, <1>20, <1>21, <1>22, <1>23 DEF RecordKept
<1>25. ASSUME NEW k \in 1 .. R
       PROVE  r[k] = x \/ \E i \in 1 .. n : r[k] = b[i]
  <2>1. d + k \in 1 .. n \/ d + k = n + 1
    <3> DEFINE j == d + k
    <3>1. j \in 1 .. n + 1
      BY <1>14
    <3> HIDE DEF j
    <3>2. j \in 1 .. n \/ j = n + 1
      BY <1>2, <3>1
    <3> QED
      BY <3>2 DEF j
  <2> QED
    BY <1>2, <1>14, <2>1
<1> QED
  BY <1>16, <1>24, <1>25 DEF r, n, AddsOnly

\* At most one of the calls that do not overlap has or awaits a recorder; an event of a
\* recorder is pushed once, a navigation when its import is there.
RecorderTold ==
  /\ RecorderTypeOK /\ IsInjective(happened)
  /\ (Recorders # {} => sessionActive)
  /\ ~initsOverlapped =>
       \A i, j \in SessionInits :
         initStage[i] \in {"importing", "recording"} /\ initStage[j] \in {"importing", "recording"} => i = j
  /\ \A n \in 1 .. Len(sessionBuffer) : sessionBuffer[n].by \in Recorders
  /\ \A s \in scrubbing :
       /\ s[1] \in Recorders /\ s[2] \in Range(happened)
       /\ \A n \in 1 .. Len(sessionBuffer) : sessionBuffer[n].what # s[2] \/ sessionBuffer[n].by # s[1]
  /\ RecordKept(sessionBuffer, happened, Len(happened))

\* Nothing is recorded yet.
LEMMA RecorderTellsNothing == RecorderInit => RecorderTold
<1> SUFFICES ASSUME RecorderInit PROVE RecorderTold
  OBVIOUS
<1> USE SessionRecorderAssumption
<1>1. /\ sessionBuffer = <<>> /\ happened = <<>> /\ scrubbing = {} /\ Recorders = {}
      /\ initStage = [i \in SessionInits |-> "new"]
  BY DEF RecorderInit, Recorders
<1>2. RecorderTypeOK
  <2>1. <<>> \in Seq(SessionEvents) /\ <<>> \in Seq(Interactions \cup Navigations) /\ 0 \in 0 .. MaxClock
    BY EmptySeq
  <2> QED
    BY <1>1, <2>1 DEF RecorderInit, RecorderTypeOK
<1>3. Len(sessionBuffer) = 0 /\ Len(happened) = 0 /\ sessionBuffer \in Seq(SessionEvents)
  BY <1>1, EmptySeq
<1>4. IsInjective(happened)
  BY <1>1 DEF IsInjective
<1>5. RecordKept(sessionBuffer, happened, Len(happened))
  BY <1>3 DEF RecordKept, InTime, InStep, NoneMissing
<1> QED
  BY <1>1, <1>2, <1>3, <1>4, <1>5 DEF RecorderTold

\* What a further interaction changes while no recorder has been called.
LEMMA KeptOnward ==
  ASSUME NEW h \in Seq(Interactions \cup Navigations), NEW b, RecordKept(b, h, Len(h)),
         NEW e \in Interactions \cup Navigations, e \notin Range(h)
  PROVE  /\ RecordKept(b, Append(h, e), Len(h))
         /\ e \in Navigations \/ Len(b) = 0 => RecordKept(b, Append(h, e), Len(h) + 1)
<1> USE SessionRecorderAssumption
<1> DEFINE n == Len(b)
           H == Len(h)
           hh == Append(h, e)
<1>1. /\ n \in Nat /\ H \in Nat /\ Len(hh) = H + 1 /\ hh[H + 1] = e
      /\ \A k \in 1 .. H : hh[k] = h[k] /\ h[k] \in Range(h)
  BY DEF RecordKept, Range
<1>2. Range(h) \subseteq Range(hh)
  BY <1>1, AppendNew
<1>3. \A k \in 1 .. n : b[k].what \in Range(h)
  BY DEF RecordKept
<1>4. InStep(b, h) /\ NoneMissing(b, h, H) /\ InTime(b)
  BY DEF RecordKept
<1> HIDE DEF H, hh
<1>5. ASSUME NEW k \in 1 .. n, NEW p \in 1 .. H + 1, b[k].what = hh[p]
      PROVE  p \in 1 .. H /\ hh[p] = h[p]
  <2>1. hh[p] \in Range(h)
    BY <1>3, <1>5
  <2>2. p # H + 1
    BY <1>1, <2>1
  <2> QED
    BY <1>1, <2>2
<1>6. \A k, m \in 1 .. n : \A p, q \in 1 .. H :
        k < m /\ h[p] \in Interactions /\ h[q] \in Interactions /\ b[k].what = h[p] /\ b[m].what = h[q]
          => p <= q
  BY <1>4 DEF InStep, H
<1>7. \A m \in 1 .. n : \A p \in 1 .. H : \A k \in p .. H :
        h[p] \in Interactions /\ h[k] \in Interactions /\ b[m].what = h[p]
          => \E l \in 1 .. n : b[l].what = h[k]
  BY <1>4 DEF NoneMissing, H
<1> HIDE DEF n
<1>8. InStep(b, hh)
  <2>1. ASSUME NEW k \in 1 .. n, NEW m \in 1 .. n, NEW p \in 1 .. H + 1, NEW q \in 1 .. H + 1,
               k < m, hh[p] \in Interactions, hh[q] \in Interactions, b[k].what = hh[p], b[m].what = hh[q]
        PROVE  p <= q
    <3>1. p \in 1 .. H /\ hh[p] = h[p] /\ q \in 1 .. H /\ hh[q] = h[q]
      BY <1>5, <2>1
    <3> QED
      BY <1>6, <2>1, <3>1
  <2> QED
    BY <1>1, <2>1 DEF InStep, n
<1>9. NoneMissing(b, hh, H)
  <2>1. ASSUME NEW m \in 1 .. n, NEW p \in 1 .. H + 1, NEW k \in p .. H,
               hh[p] \in Interactions, hh[k] \in Interactions, b[m].what = hh[p]
        PROVE  \E l \in 1 .. n : b[l].what = hh[k]
    <3>1. p \in 1 .. H /\ hh[p] = h[p]
      BY <1>5, <2>1
    <3>2. k \in 1 .. H /\ hh[k] = h[k]
      BY <1>1, <3>1
    <3> QED
      BY <1>7, <2>1, <3>1, <3>2
  <2> QED
    BY <1>1, <2>1 DEF NoneMissing, n
<1>10. ASSUME e \in Navigations \/ n = 0
       PROVE  NoneMissing(b, hh, H + 1)
  <2>1. ASSUME NEW m \in 1 .. n, NEW p \in 1 .. H + 1, NEW k \in p .. H + 1,
               hh[p] \in Interactions, hh[k] \in Interactions, b[m].what = hh[p]
        PROVE  \E l \in 1 .. n : b[l].what = hh[k]
    <3>1. n # 0
      BY <1>1, <2>1
    <3>2. e \in Navigations /\ e \notin Interactions
      BY <1>10, <3>1
    <3>3. p \in 1 .. H /\ hh[p] = h[p]
      BY <1>5, <2>1
    <3>4. k # H + 1
      BY <1>1, <2>1, <3>2
    <3>5. k \in 1 .. H /\ hh[k] = h[k] /\ k \in p .. H
      BY <1>1, <3>3, <3>4
    <3> QED
      BY <1>7, <2>1, <3>3, <3>5
  <2> QED
    BY <1>1, <2>1 DEF NoneMissing, n
<1>11. RecordKept(b, hh, H)
  BY <1>2, <1>3, <1>4, <1>8, <1>9 DEF RecordKept, n
<1>12. e \in Navigations \/ n = 0 => RecordKept(b, hh, H + 1)
  BY <1>2, <1>3, <1>4, <1>8, <1>10 DEF RecordKept, n
<1> QED
  BY <1>11, <1>12 DEF n, H, hh

\* Every recorder pushes a click or an input, one after the other.
LEMMA InteractTells == \A e \in Interactions : RecorderTold /\ Interact(e) => RecorderTold'
<1> SUFFICES ASSUME NEW e \in Interactions, RecorderTold, Interact(e) PROVE RecorderTold'
  OBVIOUS
<1> USE SessionRecorderAssumption
<1> DEFINE b == sessionBuffer
           L == Len(happened)
           h == Append(happened, e)
           S == {Recorded(e, i) : i \in Recorders}
           list == SetToSeq(S)
           n == Len(list)
<1>1. /\ e \notin Range(happened) /\ happened' = h
      /\ sessionBuffer' = FoldLeft(PushEvent, b, list)
      /\ UNCHANGED <<sessionActive, initStage, scrubbing, clock, initsOverlapped>>
  BY DEF Interact
<1>2. /\ happened \in Seq(Interactions \cup Navigations) /\ IsInjective(happened)
      /\ clock \in 0 .. MaxClock /\ RecordKept(b, happened, L)
      /\ Recorders \subseteq SessionInits
  BY DEF RecorderTold, RecorderTypeOK, Recorders
<1>3. /\ h \in Seq(Interactions \cup Navigations) /\ IsInjective(h) /\ L \in Nat /\ Len(h) = L + 1
      /\ h[L + 1] = e /\ Range(h) = Range(happened) \cup {e}
  BY <1>1, <1>2, AppendNew
<1>4. S \subseteq SessionEvents /\ \A x \in S : x.what = e /\ x.timestamp = clock /\ x.by \in Recorders
  BY <1>2 DEF SessionEvents, Recorded
<1>5. IsFiniteSet(S)
  <2> DEFINE f == [i \in Recorders |-> Recorded(e, i)]
  <2>1. IsFiniteSet(Recorders)
    BY <1>2, FS_Subset
  <2>2. f \in Surjection(Recorders, S)
    BY DEF Surjection
  <2> QED
    BY <2>1, <2>2, FS_Surjection
<1>6. list \in Seq(S) /\ Range(list) = S /\ IsInjective(list)
  BY <1>5, ListedOnce
<1> HIDE DEF list
<1>7. n \in Nat /\ DOMAIN list = 1 .. n /\ \A j \in 1 .. n : list[j] \in S
  BY <1>6
<1>8. \A j, k \in 1 .. n : list[j].by = list[k].by => j = k
  <2>1. ASSUME NEW j \in 1 .. n, NEW k \in 1 .. n, list[j].by = list[k].by
        PROVE  j = k
    <3>1. list[j] \in S /\ list[k] \in S
      BY <1>7
    <3>2. list[j] = list[k]
      BY <1>4, <2>1, <3>1 DEF Recorded
    <3> QED
      BY <1>6, <1>7, <3>2 DEF IsInjective
  <2> QED
    BY <2>1
<1> HIDE DEF n
<1>9. PICK after : Pushes(after, b, list, n)
  BY <1>7, PushedOneByOne
<1>10. /\ after[0] = b
       /\ \A k \in 1 .. n : after[k] = PushEvent(after[k - 1], list[k])
       /\ FoldLeft(PushEvent, b, list) = after[n]
  BY <1>9, Zenon DEF Pushes
<1> HIDE DEF S, b, L, h
\* What the first k of them leave.
<1> DEFINE Top(k) == IF k = 0 THEN L ELSE L + 1
           Left1(k) == /\ RecordKept(after[k], h, Top(k))
                       /\ \A m \in 1 .. Len(after[k]) :
                            \/ \E l \in 1 .. Len(b) : after[k][m] = b[l]
                            \/ \E j \in 1 .. k : after[k][m] = list[j]
           Good == {k \in 0 .. n : Left1(k)}
<1>11. 0 \in Good
  <2>1. RecordKept(b, h, L)
    BY <1>1, <1>2, KeptOnward DEF h, L
  <2>2. RecordKept(after[0], h, Top(0))
    BY <1>10, <2>1
  <2>3. \A m \in 1 .. Len(after[0]) : \E l \in 1 .. Len(b) : after[0][m] = b[l]
    BY <1>10
  <2>4. 0 \in 0 .. n
    BY <1>7
  <2> QED
    BY <2>2, <2>3, <2>4
<1>12. ASSUME NEW k \in 0 .. n - 1, k \in Good
       PROVE  k + 1 \in Good
  <2> DEFINE c == after[k]
             x == list[k + 1]
  <2>1. k + 1 \in 1 .. n /\ k + 1 \in 0 .. n /\ (k + 1) - 1 = k
    BY <1>7
  <2>2. after[k + 1] = PushEvent(c, x) /\ x \in S
    BY <1>7, <1>10, <2>1
  <2>3. /\ RecordKept(c, h, Top(k))
        /\ \A m \in 1 .. Len(c) : \/ \E l \in 1 .. Len(b) : c[m] = b[l]
                                  \/ \E j \in 1 .. k : c[m] = list[j]
    BY <1>12
  <2>4. x \in SessionEvents /\ x.timestamp = clock /\ x.what = e
    BY <1>4, <2>2
  <2>5. ASSUME NEW m \in 1 .. Len(c)
        PROVE  c[m].what # x.what \/ c[m].by # x.by
    <3>1. CASE \E l \in 1 .. Len(b) : c[m] = b[l]
      <4>1. \A l \in 1 .. Len(b) : b[l].what \in Range(happened)
        BY <1>2 DEF RecordKept
      <4> QED
        BY <1>1, <2>4, <3>1, <4>1
    <3>2. CASE \E j \in 1 .. k : c[m] = list[j]
      <4>1. PICK j \in 1 .. k : c[m] = list[j]
        BY <3>2
      <4>2. j \in 1 .. n /\ j # k + 1
        BY <1>7, <2>1
      <4> QED
        BY <1>8, <2>1, <4>1, <4>2
    <3> QED
      BY <2>3, <3>1, <3>2
  <2>6. \A m \in 1 .. Len(c) : c[m].what # x.what \/ c[m].by # x.by
    BY <2>5
  <2>7. Top(k) \in 0 .. Len(h) /\ Len(h) \in 0 .. Len(h) /\ Len(h) > 0 /\ Top(k) + 1 >= Len(h)
        /\ x.what \in Interactions /\ x.what = h[Len(h)] /\ x.what \in Range(h) /\ Top(k + 1) = Len(h)
    BY <1>3, <2>1, <2>4
  <2> DEFINE next == Len(h)
  <2>8. MayPush(c, x, h, Top(k), next)
    BY <2>4, <2>7, <2>6 DEF MayPush
  <2>9. next \in 0 .. Len(h) /\ Top(k) \in 0 .. Len(h)
    BY <2>7
  <2> HIDE DEF Top, c, x, next
  <2>10. RecordKept(PushEvent(c, x), h, next) /\ AddsOnly(PushEvent(c, x), c, x)
    BY <1>2, <1>3, <2>3, <2>8, <2>9, PushKeeps
  <2>11. ASSUME NEW m \in 1 .. Len(after[k + 1])
        PROVE  \/ \E l \in 1 .. Len(b) : after[k + 1][m] = b[l]
               \/ \E j \in 1 .. k + 1 : after[k + 1][m] = list[j]
    <3>1. CASE after[k + 1][m] = x
      <4>1. k + 1 \in 1 .. k + 1
        BY <2>1
      <4> QED
        BY <3>1, <4>1 DEF x
    <3>2. CASE \E l \in 1 .. Len(c) : after[k + 1][m] = c[l]
      <4>1. \A j \in 1 .. k : j \in 1 .. k + 1
        BY <2>1
      <4> QED
        BY <2>3, <3>2, <4>1
    <3> QED
      BY <2>2, <2>10, <3>1, <3>2 DEF AddsOnly
  <2>12. Left1(k + 1)
    <3>1. RecordKept(after[k + 1], h, Top(k + 1))
      BY <2>2, <2>7, <2>10 DEF next
    <3> QED
      BY <2>11, <3>1
  <2> QED
    BY <2>1, <2>12
<1>13. n \in Good
  <2> HIDE DEF Good
  <2>1. 0 .. n \subseteq Good
    BY <1>7, <1>11, <1>12, IndexInduction
  <2> QED
    BY <1>7, <2>1
<1>14. sessionBuffer' = after[n] /\ Left1(n)
  <2>1. sessionBuffer' = after[n]
    BY <1>1, <1>10
  <2>2. Left1(n)
    BY <1>13
  <2> QED
    BY <2>1, <2>2
<1>15. RecordKept(after[n], h, L + 1)
  <2>1. CASE n = 0
    <3>1. S = {}
      BY <1>6, <1>7, <2>1 DEF Range
    <3>2. Recorders = {}
      BY <3>1 DEF S
    <3>3. Len(b) = 0
      <4>1. Len(b) \in Nat /\ \A m \in 1 .. Len(b) : b[m].by \in Recorders
        BY <1>2 DEF RecorderTold, RecordKept, b
      <4> QED
        BY <3>2, <4>1
    <3>4. RecordKept(b, h, L + 1)
      BY <1>1, <1>2, <3>3, KeptOnward DEF h, L
    <3> QED
      BY <1>10, <2>1, <3>4
  <2>2. CASE n # 0
    BY <1>14, <2>2
  <2> QED
    BY <2>1, <2>2
<1>16. RecordKept(sessionBuffer, happened, Len(happened))'
  <2>1. RecordKept(sessionBuffer', happened', Len(happened'))
    BY <1>1, <1>3, <1>14, <1>15
  <2>2. clock' = clock
    BY <1>1
  <2> QED
    BY <2>1, <2>2, Zenon DEF RecordKept, InTime, InStep, NoneMissing
<1>17. Recorders' = Recorders /\ scrubbing' = scrubbing
  BY <1>1 DEF Recorders
<1>18. ASSUME NEW m \in 1 .. Len(sessionBuffer')
       PROVE  /\ sessionBuffer'[m].by \in Recorders
              /\ sessionBuffer'[m].what = e \/ \E l \in 1 .. Len(b) : sessionBuffer'[m] = b[l]
  <2>1. \/ \E l \in 1 .. Len(b) : sessionBuffer'[m] = b[l]
        \/ \E j \in 1 .. n : sessionBuffer'[m] = list[j]
    BY <1>14
  <2>2. \A l \in 1 .. Len(b) : b[l].by \in Recorders
    BY DEF RecorderTold, b
  <2>3. \A j \in 1 .. n : list[j].what = e /\ list[j].by \in Recorders
    BY <1>4, <1>7
  <2> QED
    BY <2>1, <2>2, <2>3
<1>19. ASSUME NEW s \in scrubbing
       PROVE  /\ s[1] \in Recorders' /\ s[2] \in Range(happened')
              /\ \A m \in 1 .. Len(sessionBuffer') :
                   sessionBuffer'[m].what # s[2] \/ sessionBuffer'[m].by # s[1]
  <2>1. /\ s[1] \in Recorders /\ s[2] \in Range(happened)
        /\ \A m \in 1 .. Len(b) : b[m].what # s[2] \/ b[m].by # s[1]
    BY DEF RecorderTold, b
  <2> QED
    BY <1>1, <1>3, <1>17, <1>18, <2>1
<1>20. RecorderTypeOK'
  <2>1. sessionBuffer' \in Seq(SessionEvents)
    BY <1>14 DEF RecordKept
  <2> QED
    BY <1>1, <1>3, <2>1 DEF RecorderTold, RecorderTypeOK
<1>21. (Recorders' # {} => sessionActive') /\ IsInjective(happened')
  BY <1>1, <1>3, <1>17 DEF RecorderTold
<1>22. (~initsOverlapped =>
          \A i, j \in SessionInits :
            initStage[i] \in {"importing", "recording"} /\ initStage[j] \in {"importing", "recording"} => i = j)'
  BY <1>1 DEF RecorderTold
<1> QED
  BY <1>16, <1>17, <1>18, <1>19, <1>20, <1>21, <1>22 DEF RecorderTold

\* A call of initSession or a recorder that arrives leaves the buffer alone.
LEMMA InitTells ==
  RecorderTold /\ (\E i \in SessionInits, ok \in BOOLEAN : InitSession(i) \/ RrwebImported(i, ok))
    => RecorderTold'
<1> SUFFICES ASSUME RecorderTold, NEW i \in SessionInits, NEW ok \in BOOLEAN,
                    InitSession(i) \/ RrwebImported(i, ok)
             PROVE  RecorderTold'
  OBVIOUS
<1> DEFINE Waits(s, j) == s[j] \in {"importing", "recording"}
<1>1. /\ initStage \in [SessionInits -> {"new", "importing", "recording", "failed"}]
      /\ UNCHANGED <<sessionBuffer, scrubbing, happened, clock>>
  BY DEF RecorderTold, RecorderTypeOK, InitSession, RrwebImported
<1>2. /\ \A j \in SessionInits \ {i} : initStage'[j] = initStage[j]
      /\ initStage' \in [SessionInits -> {"new", "importing", "recording", "failed"}]
      /\ initStage[i] # "recording"
  BY <1>1 DEF InitSession, RrwebImported
<1>3. RecorderTypeOK'
  <2>1. sessionActive' \in BOOLEAN /\ initsOverlapped' \in BOOLEAN
    BY DEF RecorderTold, RecorderTypeOK, InitSession, RrwebImported
  <2> QED
    BY <1>1, <1>2, <2>1 DEF RecorderTold, RecorderTypeOK
<1>4. Recorders \subseteq Recorders'
  BY <1>2 DEF Recorders
<1>5. Recorders' # {} => sessionActive'
  <2>1. CASE InitSession(i)
    <3>1. Recorders' = Recorders
      BY <1>1, <2>1 DEF InitSession, Recorders
    <3> QED
      BY <2>1, <3>1 DEF InitSession, RecorderTold
  <2>2. CASE RrwebImported(i, ok)
    <3>1. CASE ok
      BY <2>2, <3>1 DEF RrwebImported
    <3>2. CASE ~ok
      <4>1. Recorders' = Recorders
        BY <1>1, <2>2, <3>2 DEF RrwebImported, Recorders
      <4> QED
        BY <2>2, <4>1 DEF RrwebImported, RecorderTold
    <3> QED
      BY <3>1, <3>2
  <2> QED
    BY <2>1, <2>2
<1>6. (~initsOverlapped =>
         \A j, k \in SessionInits :
           initStage[j] \in {"importing", "recording"} /\ initStage[k] \in {"importing", "recording"} => j = k)'
  <2>1. CASE InitSession(i)
    <3>1. ~initsOverlapped' => \A j \in SessionInits : ~Waits(initStage, j)
      <4>1. \A j \in SessionInits : initStage[j] # "recording"
        BY <2>1 DEF InitSession, MayInit, RecorderTold, Recorders
      <4> QED
        BY <2>1, <4>1 DEF InitSession
    <3> QED
      BY <1>2, <3>1
  <2>2. CASE RrwebImported(i, ok)
    <3>1. initStage[i] = "importing" /\ initsOverlapped' = initsOverlapped
      BY <2>2 DEF RrwebImported
    <3>2. ~initsOverlapped => \A j, k \in SessionInits : Waits(initStage, j) /\ Waits(initStage, k) => j = k
      BY DEF RecorderTold
    <3> QED
      BY <1>2, <3>1, <3>2
  <2> QED
    BY <2>1, <2>2
<1>7. RecordKept(sessionBuffer, happened, Len(happened))'
  <2>1. RecordKept(sessionBuffer, happened, Len(happened))
    BY DEF RecorderTold
  <2>2. RecordKept(sessionBuffer', happened', Len(happened'))
    BY <1>1, <2>1
  <2>3. clock' = clock
    BY <1>1
  <2> QED
    BY <2>2, <2>3, Zenon DEF RecordKept, InTime, InStep, NoneMissing
<1> QED
  BY <1>1, <1>3, <1>4, <1>5, <1>6, <1>7 DEF RecorderTold

\* A navigation scheduled is not recorded yet.
LEMMA NavigateTells == \A e \in Navigations : RecorderTold /\ Navigate(e) => RecorderTold'
<1> SUFFICES ASSUME NEW e \in Navigations, RecorderTold, Navigate(e) PROVE RecorderTold'
  OBVIOUS
<1> DEFINE h == Append(happened, e)
           L == Len(happened)
<1>1. /\ e \notin Range(happened) /\ happened' = h /\ scrubbing' = scrubbing \cup (Recorders \X {e})
      /\ UNCHANGED <<sessionActive, initStage, sessionBuffer, clock, initsOverlapped>>
  BY DEF Navigate
<1>2. /\ happened \in Seq(Interactions \cup Navigations) /\ IsInjective(happened)
      /\ RecordKept(sessionBuffer, happened, L) /\ Recorders \subseteq SessionInits
  BY DEF RecorderTold, RecorderTypeOK, Recorders
<1>3. /\ h \in Seq(Interactions \cup Navigations) /\ IsInjective(h) /\ Len(h) = L + 1
      /\ Range(h) = Range(happened) \cup {e}
  BY <1>1, <1>2, AppendNew
<1>4. RecordKept(sessionBuffer, happened, Len(happened))'
  <2>1. RecordKept(sessionBuffer, h, L + 1)
    BY <1>1, <1>2, KeptOnward
  <2>2. RecordKept(sessionBuffer', happened', Len(happened'))
    BY <1>1, <1>3, <2>1
  <2>3. clock' = clock
    BY <1>1
  <2> QED
    BY <2>2, <2>3, Zenon DEF RecordKept, InTime, InStep, NoneMissing
<1> HIDE DEF h, L
<1>5. Recorders' = Recorders
  BY <1>1 DEF Recorders
<1>6. RecorderTypeOK'
  <2>1. scrubbing' \subseteq SessionInits \X Navigations
    BY <1>1, <1>2 DEF RecorderTold, RecorderTypeOK
  <2> QED
    BY <1>1, <1>3, <2>1 DEF RecorderTold, RecorderTypeOK
<1>7. \A n \in 1 .. Len(sessionBuffer) : sessionBuffer[n].what \in Range(happened)
  BY <1>2 DEF RecordKept
<1>8. ASSUME NEW s \in scrubbing'
      PROVE  /\ s[1] \in Recorders /\ s[2] \in Range(h)
             /\ \A n \in 1 .. Len(sessionBuffer) : sessionBuffer[n].what # s[2] \/ sessionBuffer[n].by # s[1]
  <2>1. CASE s \in scrubbing
    BY <1>3, <2>1 DEF RecorderTold
  <2>2. CASE s \in Recorders \X {e}
    <3>1. s[1] \in Recorders /\ s[2] = e
      BY <2>2
    <3> QED
      BY <1>1, <1>3, <1>7, <3>1
  <2> QED
    BY <1>1, <2>1, <2>2
<1> QED
  BY <1>1, <1>3, <1>4, <1>5, <1>6, <1>8 DEF RecorderTold

\* A navigation is recorded when its text is scrubbed.
LEMMA NavigationTells ==
  \A i \in SessionInits, e \in Navigations : RecorderTold /\ NavigationPushed(i, e) => RecorderTold'
<1> SUFFICES ASSUME NEW i \in SessionInits, NEW e \in Navigations, RecorderTold, NavigationPushed(i, e)
             PROVE  RecorderTold'
  OBVIOUS
<1> DEFINE b == sessionBuffer
           h == happened
           L == Len(happened)
           x == Recorded(e, i)
<1>1. /\ <<i, e>> \in scrubbing /\ scrubbing' = scrubbing \ {<<i, e>>}
      /\ sessionBuffer' = PushEvent(b, x)
      /\ UNCHANGED <<sessionActive, initStage, happened, clock, initsOverlapped>>
  BY DEF NavigationPushed
<1>2. /\ h \in Seq(Interactions \cup Navigations) /\ IsInjective(h)
      /\ clock \in 0 .. MaxClock /\ RecordKept(b, h, L) /\ L \in 0 .. L
  BY DEF RecorderTold, RecorderTypeOK
<1>3. /\ i \in Recorders /\ e \in Range(h)
      /\ \A n \in 1 .. Len(b) : b[n].what # e \/ b[n].by # i
  BY <1>1 DEF RecorderTold
<1>4. x \in SessionEvents /\ x.timestamp = clock /\ x.what = e /\ x.by = i
  BY <1>2 DEF Recorded, SessionEvents
<1>5. MayPush(b, x, h, L, L)
  BY <1>3, <1>4 DEF MayPush
<1>6. RecordKept(PushEvent(b, x), h, L) /\ AddsOnly(PushEvent(b, x), b, x)
  BY <1>2, <1>5, PushKeeps
<1> HIDE DEF x
<1>7. RecordKept(sessionBuffer, happened, Len(happened))'
  <2>1. RecordKept(sessionBuffer', happened', Len(happened'))
    BY <1>1, <1>6
  <2>2. clock' = clock
    BY <1>1
  <2> QED
    BY <2>1, <2>2, Zenon DEF RecordKept, InTime, InStep, NoneMissing
<1>8. Recorders' = Recorders
  BY <1>1 DEF Recorders
<1>9. RecorderTypeOK'
  <2>1. sessionBuffer' \in Seq(SessionEvents)
    BY <1>1, <1>6 DEF RecordKept
  <2> QED
    BY <1>1, <2>1 DEF RecorderTold, RecorderTypeOK
<1>10. \A n \in 1 .. Len(sessionBuffer') : sessionBuffer'[n] = x \/ \E l \in 1 .. Len(b) : sessionBuffer'[n] = b[l]
  BY <1>1, <1>6 DEF AddsOnly
<1>11. \A n \in 1 .. Len(sessionBuffer') : sessionBuffer'[n].by \in Recorders
  <2>1. \A l \in 1 .. Len(b) : b[l].by \in Recorders
    BY DEF RecorderTold
  <2> QED
    BY <1>3, <1>4, <1>10, <2>1
<1>12. ASSUME NEW s \in scrubbing'
       PROVE  /\ s[1] \in Recorders /\ s[2] \in Range(h)
              /\ \A n \in 1 .. Len(sessionBuffer') :
                   sessionBuffer'[n].what # s[2] \/ sessionBuffer'[n].by # s[1]
  <2>1. /\ s \in scrubbing /\ s # <<i, e>> /\ s \in SessionInits \X Navigations
    BY <1>1 DEF RecorderTold, RecorderTypeOK
  <2>2. s[1] # i \/ s[2] # e
    BY <2>1
  <2>3. /\ s[1] \in Recorders /\ s[2] \in Range(h)
        /\ \A n \in 1 .. Len(b) : b[n].what # s[2] \/ b[n].by # s[1]
    BY <2>1 DEF RecorderTold
  <2> QED
    BY <1>4, <1>10, <2>2, <2>3
<1> QED
  BY <1>1, <1>7, <1>8, <1>9, <1>11, <1>12 DEF RecorderTold

\* The clock moves on, and nothing is recorded.
LEMMA SecondTells == RecorderTold /\ SecondPasses => RecorderTold'
<1> SUFFICES ASSUME RecorderTold, SecondPasses PROVE RecorderTold'
  OBVIOUS
<1> USE SessionRecorderAssumption
<1>1. /\ clock < MaxClock /\ clock' = clock + 1 /\ clock \in Nat
      /\ UNCHANGED <<sessionActive, initStage, sessionBuffer, scrubbing, happened, initsOverlapped>>
  BY DEF SecondPasses, RecorderTold, RecorderTypeOK
<1>2. RecorderTypeOK' /\ Recorders' = Recorders
  BY <1>1 DEF RecorderTold, RecorderTypeOK, Recorders
<1>3. RecordKept(sessionBuffer, happened, Len(happened))
  BY DEF RecorderTold
<1>4. InTime(sessionBuffer)'
  <2> DEFINE b == sessionBuffer
             n == Len(b)
  <2>1. /\ \A k \in 1 .. n : b[k].timestamp <= clock
        /\ \A m, k \in 1 .. n : m < k =>
             /\ b[m].timestamp <= b[k].timestamp
             /\ b[m].what # b[k].what \/ b[m].by # b[k].by
    BY <1>3 DEF RecordKept, InTime
  <2>2. \A k \in 1 .. n : b[k].timestamp \in Nat
    <3>1. \A k \in 1 .. n : b[k] \in SessionEvents
      BY <1>3 DEF RecordKept
    <3> QED
      BY <3>1 DEF SessionEvents
  <2> HIDE DEF n
  <2>3. \A k \in 1 .. n : b[k].timestamp <= clock + 1
    BY <1>1, <2>1, <2>2
  <2>4. b' = b /\ Len(b') = n
    BY <1>1 DEF n
  <2> QED
    BY <1>1, <2>1, <2>3, <2>4 DEF InTime
<1>5. RecordKept(sessionBuffer, happened, Len(happened))'
  <2>1. RecordKept(sessionBuffer', happened', Len(happened'))
    BY <1>1, <1>3
  <2> QED
    BY <1>4, <2>1, Zenon DEF RecordKept, InStep, NoneMissing
<1> QED
  BY <1>1, <1>2, <1>5 DEF RecorderTold

\* Every step of the recorder keeps what is told.
LEMMA RecorderTells == RecorderTold /\ RecorderNext => RecorderTold'
  BY InitTells, InteractTells, NavigateTells, NavigationTells, SecondTells, Zenon DEF RecorderNext

\* Recorders that do not overlap record every interaction once.
LEMMA RecordedOnce == RecorderTold => OneRecordPerInteraction
<1> SUFFICES ASSUME RecorderTold PROVE OneRecordPerInteraction
  OBVIOUS
<1> DEFINE b == sessionBuffer
           n == Len(b)
<1>1. /\ b \in Seq(SessionEvents) /\ n \in Nat /\ DOMAIN b = 1 .. n
      /\ \A k \in 1 .. n : b[k].by \in Recorders
  BY DEF RecorderTold, RecorderTypeOK
<1>2. \A m, k \in 1 .. n : m < k => b[m].what # b[k].what \/ b[m].by # b[k].by
  BY DEF RecorderTold, RecordKept, InTime
<1> HIDE DEF n
<1>3. \A m, k \in 1 .. n : m # k => b[m].what # b[k].what \/ b[m].by # b[k].by
  <2>1. \A m, k \in 1 .. n : m # k => m < k \/ k < m
    BY <1>1
  <2> QED
    BY <1>2, <2>1
<1>4. ~initsOverlapped => \A m, k \in 1 .. n : b[m].by = b[k].by
  BY <1>1 DEF RecorderTold, Recorders
<1>5. ~initsOverlapped => IsInjective([k \in DOMAIN b |-> b[k].what])
  BY <1>1, <1>3, <1>4 DEF IsInjective
<1>6. IsInjective([k \in DOMAIN b |-> <<b[k].what, b[k].by>>])
  BY <1>1, <1>3 DEF IsInjective
<1> QED
  BY <1>5, <1>6 DEF OneRecordPerInteraction

\* The buffer is in order and within its bounds, and misses nothing in between.
LEMMA SessionKeepsOrder == RecorderTold => SessionInOrder
<1> SUFFICES ASSUME RecorderTold PROVE SessionInOrder
  OBVIOUS
<1> DEFINE b == sessionBuffer
           n == Len(b)
           h == happened
           H == Len(h)
           at(m) == CHOOSE k \in DOMAIN h : h[k] = b[m].what
           clicks == {m \in DOMAIN b : b[m].what \in Interactions}
<1>1. /\ DOMAIN b = 1 .. n /\ n \in Nat /\ DOMAIN h = 1 .. H /\ H \in Nat /\ n <= MaxEvents
      /\ \A m \in 1 .. n : b[m].what \in Range(h)
  BY DEF RecorderTold, RecorderTypeOK, RecordKept
<1>2. /\ InTime(b) /\ InStep(b, h) /\ NoneMissing(b, h, H)
      /\ \A m, k \in 1 .. n : m < k => b[k].timestamp <= b[m].timestamp + MaxSeconds
  BY DEF RecorderTold, RecordKept
<1>3. \A m \in 1 .. n : at(m) \in 1 .. H /\ h[at(m)] = b[m].what
  <2>1. \A m \in 1 .. n : \E k \in DOMAIN h : h[k] = b[m].what
    BY <1>1 DEF Range
  <2> QED
    BY <1>1, <2>1
<1> HIDE DEF at
<1>4. \A m, k \in DOMAIN b : m < k => /\ b[m].timestamp <= b[k].timestamp
                                      /\ b[k].timestamp <= b[m].timestamp + MaxSeconds
  BY <1>1, <1>2 DEF InTime
<1>5. \A m, k \in clicks : m < k => at(m) <= at(k)
  <2>1. ASSUME NEW m \in clicks, NEW k \in clicks, m < k
        PROVE  at(m) <= at(k)
    <3>1. /\ m \in 1 .. n /\ k \in 1 .. n /\ at(m) \in 1 .. H /\ at(k) \in 1 .. H
          /\ h[at(m)] = b[m].what /\ h[at(k)] = b[k].what
          /\ h[at(m)] \in Interactions /\ h[at(k)] \in Interactions
      BY <1>1, <1>3
    <3> QED
      BY <1>2, <2>1, <3>1 DEF InStep
  <2> QED
    BY <2>1
<1>6. \A m, k \in clicks : \A j \in at(m) .. at(k) :
        h[j] \in Interactions => \E l \in clicks : b[l].what = h[j]
  <2>1. ASSUME NEW m \in clicks, NEW k \in clicks, NEW j \in at(m) .. at(k), h[j] \in Interactions
        PROVE  \E l \in clicks : b[l].what = h[j]
    <3>1. m \in 1 .. n /\ at(m) \in 1 .. H /\ at(k) \in 1 .. H /\ b[m].what = h[at(m)] /\ h[at(m)] \in Interactions
      BY <1>1, <1>3
    <3>2. j \in at(m) .. H
      BY <1>1, <3>1
    <3>3. \E l \in 1 .. n : b[l].what = h[j]
      BY <1>2, <2>1, <3>1, <3>2 DEF NoneMissing
    <3> QED
      BY <1>1, <2>1, <3>3
  <2> QED
    BY <2>1
<1> QED
  BY <1>1, <1>4, <1>5, <1>6 DEF SessionInOrder, at

-----------------------------------------------------------------------------
(* What a client of the other SDKs has told *)

\* How often y is in s.
Count(s, y) == Cardinality({k \in DOMAIN s : s[k] = y})

\* An element more, and how often y is in it.
LEMMA CountAppend ==
  ASSUME NEW S, NEW s \in Seq(S), NEW x \in S, NEW y
  PROVE  /\ Count(s, y) \in Nat
         /\ Count(Append(s, x), y) = Count(s, y) + (IF x = y THEN 1 ELSE 0)
<1> DEFINE n == Len(s)
           t == Append(s, x)
           A == {k \in DOMAIN s : s[k] = y}
           B == {k \in DOMAIN t : t[k] = y}
<1>1. n \in Nat /\ DOMAIN s = 1 .. n /\ DOMAIN t = 1 .. n + 1 /\ t[n + 1] = x
      /\ \A k \in 1 .. n : t[k] = s[k]
  OBVIOUS
<1> HIDE DEF n, t
<1>2. IsFiniteSet(A)
  <2>1. IsFiniteSet(1 .. n)
    BY <1>1, FS_Interval
  <2>2. A \subseteq 1 .. n
    BY <1>1
  <2> QED
    BY <2>1, <2>2, FS_Subset
<1>3. Cardinality(A) \in Nat
  BY <1>2, FS_CardinalityType
<1>4. CASE x = y
  <2>1. B = A \cup {n + 1} /\ n + 1 \notin A
    BY <1>1, <1>4
  <2>2. Cardinality(B) = Cardinality(A) + 1
    BY <1>2, <2>1, FS_AddElement
  <2> QED
    BY <1>3, <1>4, <2>2 DEF Count, t
<1>5. CASE x # y
  <2>1. B = A
    BY <1>1, <1>5
  <2> QED
    <3>1. Cardinality(B) = Cardinality(A)
      BY <2>1
    <3> HIDE DEF A, B
    <3>2. Cardinality(B) = Cardinality(A) + (IF x = y THEN 1 ELSE 0)
      BY <1>3, <1>5, <3>1
    <3> QED
      BY <1>3, <3>2 DEF Count, t, A, B
<1> QED
  BY <1>4, <1>5

\* Why a capture ended the way it did.
Reason(c, how) ==
  /\ how = "refused" => NoInit \in c.met \/ c.reinit
  /\ how = "dropped" => \E i \in c.met : HookOf(i) = "drop"
  /\ how = "raised" => \/ sdk # "python" /\ \E i \in c.met : HookOf(i) = "fail"
                       \/ c.reinit /\ sdk \in {"java", "csharp"}
  /\ how = "sent" => \E i \in c.met : HookOf(i) # "drop"

\* Of the calls of the handlers of a panic, those behind have ended; what a capture
\* read was in force while it ran, and the hook it found can be gone only after an init.
CallTold(c, told) ==
  /\ c.pc = "idle" => c.ends = <<>>
  /\ told = Count(c.ends, "sent")
  /\ c.pc # "idle" =>
       /\ Config \in c.met /\ (c.chain = 0) = (program.kind # "panic") /\ c.chain <= installed
       /\ Len(c.ends) = (IF program.kind = "panic" THEN installed - c.chain ELSE 0)
                        + (IF c.pc = "over" THEN 1 ELSE 0)
  /\ c.pc = "hooked" => c.hook \in c.met /\ HookOf(c.hook) # "none" /\ (~c.reinit => c.hook = Config)
  /\ c.pc = "built" /\ sdk = "go" => c.hook \in c.met
  /\ c.pc = "filtered" => \E i \in c.met : HookOf(i) # "drop"
  /\ c.pc = "over" /\ sdk # "rust" => Reason(c, Last(c.ends))

\* The inits that announced or will.
Announced == {i \in Inits : initPc[i] = "announcing"} \cup {markers[k].init : k \in DOMAIN markers}

\* The release in force is announced, and another one was in force in between where the
\* same is announced again.
ReleasesTold ==
  /\ \A i \in Announced : ReleaseOf(i) # "" /\ lastRelease # ""
  /\ lastRelease # "" => \E i \in Announced : ReleaseOf(i) = lastRelease
  /\ \A i, j \in Announced : i # j /\ ReleaseOf(i) = ReleaseOf(j) =>
       \E m \in Inits : ReleaseOf(m) \notin {"", ReleaseOf(i)}

\* An init is announced once.
DeployTold ==
  /\ \A k \in DOMAIN markers : initPc[markers[k].init] = "done"
  /\ \A j, k \in DOMAIN markers : j # k => markers[j].init # markers[k].init
  /\ ReleasesTold

\* What a client has told of its capture, its deploys and its handlers.
ClientTold ==
  /\ CallTold(call, Len(events)) /\ DeployTold
  /\ installed > 0 => program.kind = "panic"

\* Nothing is captured or announced yet.
LEMMA ClientTellsNothing == ClientInit => ClientTold
<1> SUFFICES ASSUME ClientInit PROVE ClientTold
  OBVIOUS
<1>1. call = IdleCall /\ events = <<>> /\ markers = <<>> /\ installed = 0 /\ lastRelease = ""
      /\ initPc = [i \in Inits |-> "new"]
  BY DEF ClientInit
<1>2. call.pc = "idle" /\ call.ends = <<>> /\ Len(events) = 0 /\ DOMAIN markers = {} /\ DOMAIN call.ends = {}
  <2>1. DOMAIN <<>> = {} /\ Len(<<>>) = 0
    OBVIOUS
  <2> QED
    BY <1>1, <2>1 DEF IdleCall
<1>3. Count(call.ends, "sent") = 0
  <2>1. {k \in DOMAIN call.ends : call.ends[k] = "sent"} = {}
    BY <1>2
  <2> QED
    BY <2>1, FS_EmptySet DEF Count
<1>4. CallTold(call, Len(events))
  BY <1>2, <1>3 DEF CallTold
<1>5. Announced = {}
  BY <1>1, <1>2 DEF Announced
<1>6. DeployTold
  BY <1>1, <1>2, <1>5 DEF DeployTold, ReleasesTold
<1>7. ~(installed > 0)
  <2>1. installed = 0
    BY <1>1
  <2> QED
    BY <2>1
<1> QED
  BY <1>4, <1>6, <1>7 DEF ClientTold

\* A capture that ends for a reason.
LEMMA OverTells ==
  ASSUME NEW c \in FollowedCalls, NEW told \in Nat, CallTold(c, told), installed \in Nat,
         c.pc \notin {"idle", "over"}, NEW how \in EndKinds, sdk = "rust" \/ Reason(c, how)
  PROVE  CallTold(Over(c, how), told + (IF how = "sent" THEN 1 ELSE 0))
<1> DEFINE d == Over(c, how)
<1>1. /\ d.pc = "over" /\ d.ends = Append(c.ends, how) /\ d.reinit = c.reinit
      /\ d.met = c.met /\ d.chain = c.chain
  BY Overs
<1>2. c.ends \in Seq(EndKinds) /\ c.chain \in Nat
  BY SdkClientsAssumption DEF FollowedCalls
<1> HIDE DEF d
<1>3. Len(d.ends) = Len(c.ends) + 1 /\ Last(d.ends) = how /\ Len(c.ends) \in Nat
  <2>1. /\ Len(Append(c.ends, how)) = Len(c.ends) + 1 /\ Len(c.ends) \in Nat
        /\ Append(c.ends, how)[Len(c.ends) + 1] = how
    BY <1>2
  <2> QED
    BY <1>1, <2>1 DEF Last
<1>4. Count(d.ends, "sent") = told + (IF how = "sent" THEN 1 ELSE 0)
  BY <1>1, <1>2, CountAppend DEF CallTold
<1>5. sdk # "rust" => Reason(d, Last(d.ends))
  BY <1>1, <1>3 DEF Reason
<1>6. /\ Config \in d.met /\ (d.chain = 0) = (program.kind # "panic") /\ d.chain <= installed
      /\ Len(d.ends) = (IF program.kind = "panic" THEN installed - d.chain ELSE 0) + 1
  BY <1>1, <1>2, <1>3 DEF CallTold
<1> QED
  BY <1>1, <1>4, <1>5, <1>6 DEF CallTold, d

\* What does not change of a configuration that rests.
LEMMA CallRests ==
  ASSUME UNCHANGED <<setup, inForce, installed>>, CallTold(call', Len(events'))
  PROVE  CallTold(call, Len(events))'
<1>1. sdk' = sdk /\ program' = program /\ installed' = installed
  BY DEF setup
<1>2. Config' = Config
  BY DEF Config
<1> QED
  BY <1>1, <1>2 DEF CallTold, Reason, HookOf

\* An init that a running capture notices.
LEMMA NoticedTells ==
  ASSUME ClientInv, CallTold(call, Len(events)), Noticed, UNCHANGED <<setup, installed, events>>
  PROVE  CallTold(call, Len(events))'
<1>1. sdk' = sdk /\ program' = program /\ installed' = installed /\ events' = events
      /\ call \in FollowedCalls
  BY DEF setup, ClientInv, CallInv
<1>2. \A i : HookOf(i)' = HookOf(i)
  BY <1>1 DEF HookOf
<1>3. CASE call.pc = "idle"
  BY <1>1, <1>3 DEF Noticed, CallTold
<1>4. CASE call.pc # "idle"
  <2>1. call' = [call EXCEPT !.reinit = TRUE, !.met = call.met \cup {Config'}]
    BY <1>4 DEF Noticed
  <2>2. /\ call'.pc = call.pc /\ call'.ends = call.ends /\ call'.chain = call.chain
        /\ call'.hook = call.hook /\ call'.reinit = TRUE /\ call'.met = call.met \cup {Config'}
    BY <1>1, <2>1 DEF FollowedCalls
  <2>3. call.pc = "over" /\ sdk # "rust" => Reason(call, Last(call.ends))'
    <3>1. call.pc = "over" /\ sdk # "rust" => Reason(call, Last(call.ends))
      BY DEF CallTold
    <3> QED
      BY <1>1, <1>2, <2>2, <3>1 DEF Reason
  <2> QED
    BY <1>1, <1>2, <1>4, <2>2, <2>3 DEF CallTold
<1> QED
  BY <1>3, <1>4

\* A capture begins, of a handler or of none.
LEMMA BeginTells ==
  ASSUME ClientInv, NEW chain \in 0 .. MaxHandlers, NEW ends \in Seq(EndKinds), BeginCapture(chain, ends),
         Count(ends, "sent") = Len(events), chain <= installed, (chain = 0) = (program.kind # "panic"),
         Len(ends) = (IF program.kind = "panic" THEN installed - chain ELSE 0)
  PROVE  CallTold(call, Len(events))'
<1> DEFINE c == [IdleCall EXCEPT !.chain = chain, !.ends = ends, !.met = {Config},
                                 !.reinit = Halfway # {}]
           told == Len(events)
<1>1. /\ call' = CASE sdk = "go" -> StartedGo(c) [] sdk = "rust" -> StartedRust(c) [] OTHER -> Started(c)
      /\ UNCHANGED <<setup, initVars, installed, events>>
  BY DEF BeginCapture
<1>2. /\ SetupInv /\ Config \in InitOrNone /\ sdk \in ClientSdks /\ installed \in Nat /\ MaxHandlers \in Nat
      /\ events \in Seq(ClientEvents)
  BY ConfigKnown, SdkClientsAssumption DEF ClientInv, SetupInv, ClientTypeOK
<1>3. IdleCall \in FollowedCalls
  BY SdkClientsAssumption, EmptySeq DEF IdleCall, FollowedCalls, CallPcs, InitOrNone
<1>4. /\ c \in FollowedCalls /\ c.reinit = (Halfway # {}) /\ c.chain = chain
      /\ c.ends = ends /\ c.met = {Config}
  <2> DEFINE b == (Halfway # {})
  <2>1. b \in BOOLEAN /\ {Config} \subseteq InitOrNone
    BY <1>2
  <2> HIDE DEF b
  <2>2. [IdleCall EXCEPT !.chain = chain, !.ends = ends, !.met = {Config}, !.reinit = b]
          \in FollowedCalls
    BY <1>3, <2>1 DEF FollowedCalls
  <2> QED
    BY <1>3, <2>1, <2>2 DEF b, FollowedCalls
<1> HIDE DEF c, told
<1>5. told \in Nat /\ told = Count(ends, "sent") /\ Len(ends) \in Nat
  BY <1>2 DEF told
<1>6. ASSUME NEW d \in FollowedCalls, d.pc \in {"built", "checked"}, d.reinit = c.reinit,
             d.chain = chain, d.ends = ends, d.met = {Config}, d.pc = "built" /\ sdk = "go" => d.hook = Config
      PROVE  CallTold(d, told)
  BY <1>2, <1>5, <1>6 DEF CallTold
<1>7. transport = NoInit => NoInit \in {Config} \/ c.reinit
  <2>1. ASSUME transport = NoInit, Config # NoInit, ~c.reinit
        PROVE  FALSE
    <3>1. Config = inForce[Len(inForce)] /\ inForce # <<>>
      BY <2>1 DEF Config, Last
    <3>2. Len(inForce) \in DOMAIN inForce /\ inForce \in Seq(Inits)
      BY <1>2, <3>1, LenProperties, EmptySeq DEF SetupInv
    <3>3. Config \in Inits /\ initPc[Config] # "new"
      BY <1>2, <3>1, <3>2, ElementOfSeq DEF SetupInv
    <3>4. initPc[Config] # "configured"
      BY <1>4, <2>1, <3>3 DEF Halfway
    <3>5. initPc[Config] \in {"announcing", "done"}
      BY <1>2, <3>3, <3>4 DEF SetupInv, ClientTypeOK
    <3> QED
      BY <1>2, <2>1, <3>3, <3>5 DEF SetupInv
  <2> QED
    BY <2>1, <1>4
<1>8. ASSUME NEW d \in FollowedCalls, d.pc \in {"built", "checked"}, d.reinit = c.reinit,
             d.met = {Config}, CallTold(d, told), transport = NoInit
      PROVE  CallTold(Over(d, "refused"), told)
  <2>1. Reason(d, "refused")
    BY <1>7, <1>8 DEF Reason
  <2>2. CallTold(Over(d, "refused"), told + (IF "refused" = "sent" THEN 1 ELSE 0))
    BY <1>2, <1>5, <1>8, <2>1, OverTells DEF EndKinds
  <2> QED
    BY <1>5, <2>2
<1>9. CallTold(call', told)
  <2>1. CASE sdk = "go"
    <3> DEFINE d == [c EXCEPT !.pc = "built", !.env = Config, !.rel = Config, !.hook = Config]
    <3>1. /\ d \in FollowedCalls /\ d.pc = "built" /\ d.hook = Config /\ d.reinit = c.reinit
          /\ d.chain = chain /\ d.ends = ends /\ d.met = {Config}
      BY <1>2, <1>4 DEF FollowedCalls, CallPcs
    <3>2. call' = IF transport = NoInit THEN Over(d, "refused") ELSE d
      BY <1>1, <2>1 DEF StartedGo, OrRefused
    <3> HIDE DEF d
    <3>3. CallTold(d, told)
      BY <1>6, <3>1
    <3> QED
      BY <1>8, <3>1, <3>2, <3>3
  <2>2. CASE sdk = "rust"
    <3> DEFINE d == [c EXCEPT !.pc = "built", !.env = Config, !.rel = Config]
    <3>1. /\ d \in FollowedCalls /\ d.pc = "built" /\ d.reinit = c.reinit
          /\ d.chain = chain /\ d.ends = ends /\ d.met = {Config}
      BY <1>2, <1>4 DEF FollowedCalls, CallPcs
    <3>2. call' = d
      BY <1>1, <2>2 DEF StartedRust
    <3> HIDE DEF d
    <3> QED
      BY <1>6, <2>2, <3>1, <3>2
  <2>3. CASE sdk \notin {"go", "rust"}
    <3> DEFINE d == [c EXCEPT !.pc = "checked"]
    <3>1. /\ d \in FollowedCalls /\ d.pc = "checked" /\ d.reinit = c.reinit
          /\ d.chain = chain /\ d.ends = ends /\ d.met = {Config}
      BY <1>2, <1>4 DEF FollowedCalls, CallPcs
    <3>2. call' = IF transport = NoInit THEN Over(d, "refused") ELSE d
      BY <1>1, <2>3 DEF Started, OrRefused
    <3> HIDE DEF d
    <3>3. CallTold(d, told)
      BY <1>6, <3>1
    <3> QED
      BY <1>8, <3>1, <3>2, <3>3
  <2> QED
    BY <2>1, <2>2, <2>3
<1>10. Len(events') = told /\ UNCHANGED <<setup, inForce, installed>>
  BY <1>1 DEF told, initVars
<1> QED
  BY <1>9, <1>10, CallRests

\* A hook of one of the configurations met is asked.
LEMMA AskTells ==
  ASSUME ClientInv, CallTold(call, Len(events)), NEW h, NEW to, Asked(h, to),
         UNCHANGED <<setup, initVars, installed>>, call.pc \notin {"idle", "over"},
         sdk # "rust" => sdk # "python" /\ \E i \in call.met : HookOf(i) = h
  PROVE  CallTold(call, Len(events))'
<1> DEFINE told == Len(events)
<1>1. /\ call \in FollowedCalls /\ installed \in Nat /\ events \in Seq(ClientEvents)
      /\ UNCHANGED <<setup, inForce, installed>>
  BY SdkClientsAssumption DEF ClientInv, SetupInv, ClientTypeOK, CallInv, initVars
<1>2. told \in Nat
  BY <1>1
<1>3. CASE h = "drop" /\ call' = Over(call, "dropped") /\ UNCHANGED events
  <2>1. sdk = "rust" \/ Reason(call, "dropped")
    BY <1>3 DEF Reason
  <2>2. CallTold(Over(call, "dropped"), told + (IF "dropped" = "sent" THEN 1 ELSE 0))
    BY <1>1, <1>2, <2>1, OverTells DEF EndKinds
  <2>3. CallTold(call', Len(events'))
    BY <1>2, <1>3, <2>2
  <2> QED
    BY <1>1, <2>3, CallRests
<1>4. CASE h = "fail" /\ call' = Over(call, "raised") /\ UNCHANGED events
  <2>1. sdk = "rust" \/ Reason(call, "raised")
    BY <1>4 DEF Reason
  <2>2. CallTold(Over(call, "raised"), told + (IF "raised" = "sent" THEN 1 ELSE 0))
    BY <1>1, <1>2, <2>1, OverTells DEF EndKinds
  <2>3. CallTold(call', Len(events'))
    BY <1>2, <1>4, <2>2
  <2> QED
    BY <1>1, <2>3, CallRests
<1>5. CASE h \in {"none", "keep"} /\ Send(call, to)
  <2>1. sdk = "rust" \/ Reason(call, "sent")
    BY <1>5 DEF Reason
  <2>2. CallTold(Over(call, "sent"), told + 1)
    BY <1>1, <1>2, <2>1, OverTells DEF EndKinds
  <2>3. call' = Over(call, "sent") /\ \E e : events' = Append(events, e)
    BY <1>5 DEF Send, Over
  <2>4. Len(events') = told + 1
    BY <1>1, <2>3
  <2>5. CallTold(call', Len(events'))
    BY <2>2, <2>3, <2>4
  <2> QED
    BY <1>1, <2>5, CallRests
<1> QED
  BY <1>3, <1>4, <1>5 DEF Asked

\* A capture reads the configuration and asks the hook.
LEMMA ReadTells ==
  ASSUME ClientInv, CallTold(call, Len(events)),
         ReadEnvironment \/ ReadRelease \/ CheckHook \/ AskHook \/ Original
  PROVE  CallTold(call, Len(events))'
<1> DEFINE told == Len(events)
<1>1. /\ call \in FollowedCalls /\ installed \in Nat /\ events \in Seq(ClientEvents) /\ CallInv(call)
      /\ Config \in InitOrNone
  BY ConfigKnown, SdkClientsAssumption DEF ClientInv, SetupInv, ClientTypeOK, CallInv
<1>2. told \in Nat /\ UNCHANGED <<setup, inForce, installed>> /\ events' = events /\ call.pc # "idle"
  BY <1>1 DEF ReadEnvironment, ReadRelease, CheckHook, AskHook, Original, initVars
<1> HIDE DEF told
<1>3. Len(events') = told
  BY <1>2 DEF told
<1>4. CallTold(call, told)
  BY DEF told
<1>5. ASSUME NEW c \in FollowedCalls, c.pc \in {"reading", "built", "filtered"}, c.ends = call.ends,
             c.chain = call.chain, c.met = call.met, c.reinit = call.reinit, call.pc # "over",
             c.pc = "built" => sdk # "go", c.pc = "filtered" => \E i \in c.met : HookOf(i) # "drop"
      PROVE  CallTold(c, told)
  BY <1>2, <1>4, <1>5 DEF CallTold
<1>6. CASE ReadEnvironment
  <2>1. CASE sdk = "browser"
    <3>1. call' = [call EXCEPT !.env = Config, !.rel = Config, !.pc = "built"] /\ call.pc = "checked"
      BY <1>6, <2>1 DEF ReadEnvironment
    <3>2. /\ call' \in FollowedCalls /\ call'.pc = "built" /\ call'.ends = call.ends
          /\ call'.chain = call.chain /\ call'.met = call.met /\ call'.reinit = call.reinit
      BY <1>1, <3>1 DEF FollowedCalls, CallPcs
    <3>3. CallTold(call', told)
      BY <1>5, <2>1, <3>1, <3>2
    <3> QED
      BY <1>2, <1>3, <3>3, CallRests
  <2>2. CASE sdk # "browser"
    <3>1. call' = [call EXCEPT !.env = Config, !.pc = "reading"] /\ call.pc = "checked"
      BY <1>6, <2>2 DEF ReadEnvironment
    <3>2. /\ call' \in FollowedCalls /\ call'.pc = "reading" /\ call'.ends = call.ends
          /\ call'.chain = call.chain /\ call'.met = call.met /\ call'.reinit = call.reinit
      BY <1>1, <3>1 DEF FollowedCalls, CallPcs
    <3>3. CallTold(call', told)
      BY <1>5, <3>1, <3>2
    <3> QED
      BY <1>2, <1>3, <3>3, CallRests
  <2> QED
    BY <2>1, <2>2
<1>7. CASE ReadRelease
  <2>1. call' = [call EXCEPT !.rel = Config, !.pc = "built"] /\ call.pc = "reading"
    BY <1>7 DEF ReadRelease
  <2>2. /\ call' \in FollowedCalls /\ call'.pc = "built" /\ call'.ends = call.ends
        /\ call'.chain = call.chain /\ call'.met = call.met /\ call'.reinit = call.reinit
    BY <1>1, <2>1 DEF FollowedCalls, CallPcs
  <2>3. sdk # "go"
    BY <1>1, <2>1 DEF CallInv, Piecemeal
  <2>4. CallTold(call', told)
    BY <1>5, <2>1, <2>2, <2>3
  <2> QED
    BY <1>2, <1>3, <2>4, CallRests
<1>8. CASE CheckHook
  <2> DEFINE next == IF HookOf(Config) = "none" THEN "filtered" ELSE "hooked"
  <2>1. call' = [call EXCEPT !.hook = Config, !.pc = next] /\ call.pc = "built"
    BY <1>8 DEF CheckHook
  <2>2. next \in {"filtered", "hooked"} /\ (next = "filtered" <=> HookOf(Config) = "none")
    OBVIOUS
  <2> HIDE DEF next
  <2>3. /\ call' \in FollowedCalls /\ call'.pc = next /\ call'.ends = call.ends /\ call'.hook = Config
        /\ call'.chain = call.chain /\ call'.met = call.met /\ call'.reinit = call.reinit
    BY <1>1, <2>1, <2>2 DEF FollowedCalls, CallPcs
  <2>4. Config \in call.met
    BY <1>2, <1>4 DEF CallTold
  <2>5. CASE next = "filtered"
    <3>1. HookOf(Config) # "drop"
      BY <2>2, <2>5
    <3>2. CallTold(call', told)
      BY <1>5, <2>1, <2>3, <2>4, <2>5, <3>1
    <3> QED
      BY <1>2, <1>3, <3>2, CallRests
  <2>6. CASE next = "hooked"
    <3>1. HookOf(Config) # "none"
      BY <2>2, <2>6
    <3>2. CallTold(call', told)
      BY <1>4, <2>1, <2>3, <2>4, <2>6, <3>1 DEF CallTold
    <3> QED
      BY <1>2, <1>3, <3>2, CallRests
  <2> QED
    BY <2>2, <2>5, <2>6
<1>9. CASE AskHook
  <2> DEFINE h == HookCalled
  <2>1. /\ call.pc = "hooked"
        /\ call' = CASE h = "drop" -> Over(call, "dropped")
                     [] h = "none" \/ (h = "fail" /\ sdk # "python") -> Over(call, "raised")
                     [] OTHER -> [call EXCEPT !.pc = "filtered"]
    BY <1>9 DEF AskHook
  <2>2. /\ Config \in call.met /\ call.hook \in call.met /\ HookOf(call.hook) # "none"
        /\ ~call.reinit => call.hook = Config
    BY <1>4, <2>1 DEF CallTold
  <2>3. /\ \E i \in call.met : HookOf(i) = h
        /\ h = "none" => sdk # "python" /\ call.reinit
    BY <2>2 DEF HookCalled
  <2>4. sdk \in {"python", "java", "csharp"}
    BY <1>1, <2>1 DEF CallInv, Piecemeal
  <2> HIDE DEF h
  <2>5. CASE h = "drop"
    <3>1. call' = Over(call, "dropped") /\ Reason(call, "dropped")
      BY <2>1, <2>3, <2>5 DEF Reason
    <3>2. CallTold(Over(call, "dropped"), told + (IF "dropped" = "sent" THEN 1 ELSE 0))
      BY <1>1, <1>2, <1>4, <2>1, <3>1, OverTells DEF EndKinds
    <3>3. CallTold(call', told)
      BY <1>2, <3>1, <3>2
    <3> QED
      BY <1>2, <1>3, <3>3, CallRests
  <2>6. CASE h = "none" \/ (h = "fail" /\ sdk # "python")
    <3>1. call' = Over(call, "raised")
      BY <2>1, <2>6
    <3>2. Reason(call, "raised")
      BY <2>3, <2>4, <2>6 DEF Reason
    <3>3. CallTold(Over(call, "raised"), told + (IF "raised" = "sent" THEN 1 ELSE 0))
      BY <1>1, <1>2, <1>4, <2>1, <3>2, OverTells DEF EndKinds
    <3>4. CallTold(call', told)
      BY <1>2, <3>1, <3>3
    <3> QED
      BY <1>2, <1>3, <3>4, CallRests
  <2>7. CASE h # "drop" /\ ~(h = "none" \/ (h = "fail" /\ sdk # "python"))
    <3>1. call' = [call EXCEPT !.pc = "filtered"]
      BY <2>1, <2>7
    <3>2. /\ call' \in FollowedCalls /\ call'.pc = "filtered" /\ call'.ends = call.ends
          /\ call'.chain = call.chain /\ call'.met = call.met /\ call'.reinit = call.reinit
      BY <1>1, <3>1 DEF FollowedCalls, CallPcs
    <3>3. CallTold(call', told)
      BY <1>5, <2>1, <2>3, <2>7, <3>2
    <3> QED
      BY <1>2, <1>3, <3>3, CallRests
  <2> QED
    BY <2>5, <2>6, <2>7
<1>10. CASE Original
  <2>1. call' = [call EXCEPT !.original = TRUE]
    BY <1>10 DEF Original
  <2>2. /\ call'.pc = call.pc /\ call'.ends = call.ends /\ call'.hook = call.hook
        /\ call'.chain = call.chain /\ call'.met = call.met /\ call'.reinit = call.reinit
    BY <1>1, <2>1 DEF FollowedCalls
  <2>3. CallTold(call', told)
    BY <1>4, <2>2 DEF CallTold, Reason
  <2> QED
    BY <1>2, <1>3, <2>3, CallRests
<1> QED
  BY <1>6, <1>7, <1>8, <1>9, <1>10

\* A capture hands its event over, or ends without one.
LEMMA DispatchTells ==
  ASSUME ClientInv, CallTold(call, Len(events)),
         DispatchGo \/ DispatchRust \/ DispatchBrowser \/ HandOver
  PROVE  CallTold(call, Len(events))'
<1> DEFINE told == Len(events)
<1>1. /\ call \in FollowedCalls /\ installed \in Nat /\ events \in Seq(ClientEvents) /\ told \in Nat
      /\ UNCHANGED <<setup, initVars, installed>> /\ UNCHANGED <<setup, inForce, installed>>
      /\ call.pc \in {"built", "filtered"}
  BY SdkClientsAssumption DEF ClientInv, SetupInv, ClientTypeOK, CallInv, initVars,
       DispatchGo, DispatchRust, DispatchBrowser, HandOver
<1>2. Config \in call.met
  BY <1>1 DEF CallTold
<1>3. CASE DispatchGo
  <2>1. sdk = "go" /\ call.hook \in call.met /\ Asked(HookOf(call.hook), call.env)
    BY <1>3 DEF DispatchGo, CallTold
  <2> QED
    BY <1>1, <2>1, AskTells
<1>4. CASE DispatchRust
  <2>1. sdk = "rust"
    BY <1>4 DEF DispatchRust
  <2>2. CASE transport = NoInit
    <3>1. call' = Over(call, "refused") /\ events' = events
      BY <1>4, <2>2 DEF DispatchRust
    <3>2. CallTold(Over(call, "refused"), told + (IF "refused" = "sent" THEN 1 ELSE 0))
      BY <1>1, <2>1, OverTells DEF EndKinds
    <3>3. CallTold(call', Len(events'))
      BY <1>1, <3>1, <3>2
    <3> QED
      BY <1>1, <3>3, CallRests
  <2>3. CASE transport # NoInit
    <3>1. PICK h \in SendHooks : Asked(h, transport)
      BY <1>4, <2>3 DEF DispatchRust
    <3> QED
      BY <1>1, <2>1, <3>1, AskTells
  <2> QED
    BY <2>2, <2>3
<1>5. CASE DispatchBrowser
  <2>1. sdk = "browser" /\ Asked(HookOf(Config), transport)
    BY <1>5 DEF DispatchBrowser
  <2> QED
    BY <1>1, <1>2, <2>1, AskTells
<1>6. CASE HandOver
  <2>1. call.pc = "filtered" /\ Send(call, transport)
    BY <1>6 DEF HandOver
  <2>2. Reason(call, "sent")
    BY <2>1 DEF CallTold, Reason
  <2>3. CallTold(Over(call, "sent"), told + (IF "sent" = "sent" THEN 1 ELSE 0))
    BY <1>1, <2>2, OverTells DEF EndKinds
  <2>4. call' = Over(call, "sent") /\ \E e : events' = Append(events, e)
    BY <2>1 DEF Send, Over
  <2>5. Len(events') = told + 1
    BY <1>1, <2>4
  <2>6. CallTold(call', Len(events'))
    BY <1>1, <2>3, <2>4, <2>5
  <2> QED
    BY <1>1, <2>6, CallRests
<1> QED
  BY <1>3, <1>4, <1>5, <1>6

\* A capture begins on its own, or of a handler of the panic.
LEMMA HandlerTells ==
  ASSUME ClientInv, ClientTold, Capture \/ InstallHandler \/ Panic \/ NextHandler
  PROVE  CallTold(call, Len(events))' /\ (installed > 0 => program.kind = "panic")'
<1>1. /\ call \in FollowedCalls /\ installed \in Nat /\ installed \in 0 .. MaxHandlers
      /\ call.chain \in 0 .. MaxHandlers /\ call.ends \in Seq(EndKinds)
      /\ <<>> \in Seq(EndKinds) /\ MaxHandlers \in Nat /\ Len(<<>>) = 0
      /\ CallTold(call, Len(events)) /\ (installed > 0 => program.kind = "panic")
  BY SdkClientsAssumption, EmptySeq
  DEF ClientInv, CallInv, SetupInv, ClientTypeOK, FollowedCalls, ClientTold
<1>2. call.pc = "idle" => Count(<<>>, "sent") = Len(events)
  BY <1>1 DEF CallTold
<1>3. CASE Capture
  <2>1. /\ BeginCapture(0, <<>>) /\ call.pc = "idle" /\ program.kind # "panic"
        /\ installed' = installed /\ program' = program
    BY <1>3 DEF Capture, BeginCapture, setup
  <2> DEFINE none == 0
             nothing == <<>>
  <2>2. /\ none \in 0 .. MaxHandlers /\ none <= installed /\ (none = 0) = (program.kind # "panic")
        /\ nothing \in Seq(EndKinds) /\ Count(nothing, "sent") = Len(events)
        /\ Len(nothing) = (IF program.kind = "panic" THEN installed - none ELSE 0)
        /\ BeginCapture(none, nothing)
    BY <1>1, <1>2, <2>1
  <2> HIDE DEF none, nothing
  <2>3. CallTold(call, Len(events))'
    BY <2>2, BeginTells
  <2> QED
    BY <1>1, <2>1, <2>3
<1>4. CASE Panic
  <2>1. /\ BeginCapture(installed, <<>>) /\ call.pc = "idle" /\ installed > 0
        /\ installed' = installed /\ program' = program
    BY <1>4 DEF Panic, BeginCapture, setup
  <2>2. program.kind = "panic" /\ installed # 0 /\ installed <= installed /\ installed - installed = 0
    BY <1>1, <2>1
  <2>3. CallTold(call, Len(events))'
    BY <1>1, <1>2, <2>1, <2>2, BeginTells
  <2> QED
    BY <1>1, <2>1, <2>3
<1>5. CASE NextHandler
  <2>1. /\ call.pc = "over" /\ call.chain > 1 /\ BeginCapture(call.chain - 1, call.ends)
        /\ installed' = installed /\ program' = program
    BY <1>5 DEF NextHandler, BeginCapture, setup
  <2>2. /\ (call.chain = 0) = (program.kind # "panic") /\ call.chain <= installed
        /\ Len(call.ends) = (IF program.kind = "panic" THEN installed - call.chain ELSE 0) + 1
        /\ Count(call.ends, "sent") = Len(events)
    BY <1>1, <2>1 DEF CallTold
  <2>3. program.kind = "panic" /\ call.chain # 0
    BY <1>1, <2>1, <2>2
  <2>4. /\ call.chain - 1 \in 0 .. MaxHandlers /\ call.chain - 1 <= installed /\ call.chain - 1 # 0
        /\ Len(call.ends) = installed - (call.chain - 1)
    BY <1>1, <2>1, <2>2, <2>3
  <2>5. (call.chain - 1 = 0) = (program.kind # "panic")
    BY <2>3, <2>4
  <2>6. Len(call.ends) = (IF program.kind = "panic" THEN installed - (call.chain - 1) ELSE 0)
    BY <2>3, <2>4
  <2> DEFINE before == call.chain - 1
  <2> HIDE DEF before
  <2>7. CallTold(call, Len(events))'
    <3>1. /\ before \in 0 .. MaxHandlers /\ before <= installed /\ (before = 0) = (program.kind # "panic")
          /\ Len(call.ends) = (IF program.kind = "panic" THEN installed - before ELSE 0)
          /\ BeginCapture(before, call.ends)
      BY <2>1, <2>4, <2>5, <2>6 DEF before
    <3> QED
      BY <1>1, <2>2, <3>1, BeginTells
  <2> QED
    BY <1>1, <2>1, <2>7
<1>6. CASE InstallHandler
  <2>1. /\ program.kind = "panic" /\ program' = program /\ call.pc = "idle" /\ call' = call /\ events' = events
    BY <1>6 DEF InstallHandler, setup
  <2> QED
    BY <1>1, <2>1 DEF CallTold
<1> QED
  BY <1>3, <1>4, <1>5, <1>6

\* Nothing is announced, and the last release is the same.
LEMMA SameReleases ==
  ASSUME ReleasesTold, Announced' = Announced, Announced \subseteq Inits,
         lastRelease' = lastRelease, \A j \in Inits : ReleaseOf(j)' = ReleaseOf(j)
  PROVE  ReleasesTold'
<1>1. \A i \in Announced' : ReleaseOf(i)' # "" /\ lastRelease' # ""
  BY DEF ReleasesTold
<1>2. lastRelease' # "" => \E i \in Announced' : ReleaseOf(i)' = lastRelease'
  BY DEF ReleasesTold
<1>3. ASSUME NEW i \in Announced', NEW j \in Announced', i # j, ReleaseOf(i)' = ReleaseOf(j)'
      PROVE  \E m \in Inits : ReleaseOf(m)' \notin {"", ReleaseOf(i)'}
  <2>1. i \in Announced /\ j \in Announced /\ ReleaseOf(i) = ReleaseOf(j) /\ ReleaseOf(i)' = ReleaseOf(i)
    BY <1>3
  <2>2. \E m \in Inits : ReleaseOf(m) \notin {"", ReleaseOf(i)}
    BY <1>3, <2>1 DEF ReleasesTold
  <2> QED
    BY <2>1, <2>2
<1> QED
  BY <1>1, <1>2, <1>3 DEF ReleasesTold

\* The transport is in place: the release is announced after, unless it is the last.
LEMMA FinishTells ==
  ASSUME ClientInv, DeployTold, NEW i \in Inits, initPc[i] \in {"new", "configured"}, Finish(i),
         UNCHANGED <<setup, markers>>
  PROVE  DeployTold'
<1>1. /\ \A j \in Inits : ReleaseOf(j)' = ReleaseOf(j)
      /\ markers' = markers
  BY DEF setup, ReleaseOf
<1>2. /\ initPc \in [Inits -> {"new", "configured", "announcing", "done"}]
      /\ \A k \in DOMAIN markers : markers[k].init \in Inits
  BY DEF ClientInv, SetupInv, ClientTypeOK
<1>3. /\ initPc'[i] = IF Announces(i) THEN "announcing" ELSE "done"
      /\ \A j \in Inits : j # i => initPc'[j] = initPc[j]
  BY <1>2 DEF Finish
<1>4. \A k \in DOMAIN markers : markers[k].init # i
  BY DEF DeployTold
<1>5. /\ \A k \in DOMAIN markers' : initPc'[markers'[k].init] = "done"
      /\ \A j, k \in DOMAIN markers' : j # k => markers'[j].init # markers'[k].init
  BY <1>1, <1>2, <1>3, <1>4 DEF DeployTold
<1>6. CASE Announces(i)
  <2>1. Announced' = Announced \cup {i}
    BY <1>1, <1>2, <1>3, <1>6 DEF Announced
  <2>2. lastRelease' = ReleaseOf(i) /\ ReleaseOf(i) # "" /\ ReleaseOf(i) # lastRelease
    BY <1>6 DEF Finish, Announces
  <2>3. Announced \subseteq Inits
    BY <1>2 DEF Announced
  <2>4. ASSUME NEW j \in Announced, ReleaseOf(j) = ReleaseOf(i)
        PROVE  \E m \in Inits : ReleaseOf(m) \notin {"", ReleaseOf(i)}
    <3>1. lastRelease # ""
      BY <2>4 DEF DeployTold, ReleasesTold
    <3>2. PICK m \in Announced : ReleaseOf(m) = lastRelease
      BY <3>1 DEF DeployTold, ReleasesTold
    <3> QED
      BY <2>2, <2>3, <3>1, <3>2
  <2>5. \A j \in Announced' : ReleaseOf(j)' # "" /\ lastRelease' # ""
    BY <1>1, <2>1, <2>2, <2>3 DEF DeployTold, ReleasesTold
  <2>6. \E j \in Announced' : ReleaseOf(j)' = lastRelease'
    BY <1>1, <2>1, <2>2
  <2>7. ASSUME NEW j \in Announced', NEW k \in Announced', j # k, ReleaseOf(j)' = ReleaseOf(k)'
        PROVE  \E m \in Inits : ReleaseOf(m)' \notin {"", ReleaseOf(j)'}
    <3>1. j \in Inits /\ k \in Inits /\ ReleaseOf(j) = ReleaseOf(k)
      BY <1>1, <2>1, <2>3, <2>7
    <3>2. \E m \in Inits : ReleaseOf(m) \notin {"", ReleaseOf(j)}
      <4>1. CASE j \in Announced /\ k \in Announced
        BY <2>7, <3>1, <4>1 DEF DeployTold, ReleasesTold
      <4>2. CASE j = i
        BY <2>1, <2>4, <2>7, <3>1, <4>2
      <4>3. CASE k = i
        BY <2>1, <2>4, <2>7, <3>1, <4>3
      <4> QED
        BY <2>1, <4>1, <4>2, <4>3
    <3> QED
      BY <1>1, <3>1, <3>2
  <2> QED
    BY <1>5, <2>5, <2>6, <2>7 DEF DeployTold, ReleasesTold
<1>7. CASE ~Announces(i)
  <2>1. Announced' = Announced /\ Announced \subseteq Inits
    BY <1>1, <1>2, <1>3, <1>7 DEF Announced
  <2>2. lastRelease' = lastRelease
    BY <1>7 DEF Finish
  <2> QED
    BY <1>1, <1>5, <2>1, <2>2, SameReleases DEF DeployTold
<1> QED
  BY <1>6, <1>7

\* A step of an init.
LEMMA InitTellsDeploy ==
  ASSUME ClientInv, DeployTold, NEW i \in Inits,
         InitGo(i) \/ InitRust(i) \/ InitBrowser(i) \/ Configure(i) \/ InstallTransport(i) \/ ReportDeploy(i)
  PROVE  DeployTold'
<1>1. /\ initPc \in [Inits -> {"new", "configured", "announcing", "done"}]
      /\ \A k \in DOMAIN markers : markers[k].init \in Inits
      /\ markers \in Seq([init : Inits, to : Inits])
  BY DEF ClientInv, SetupInv, ClientTypeOK
<1>2. CASE InitGo(i) \/ InitRust(i) \/ InitBrowser(i) \/ InstallTransport(i)
  <2>1. initPc[i] \in {"new", "configured"} /\ Finish(i) /\ UNCHANGED <<setup, markers>>
    BY <1>2 DEF InitGo, InitRust, InitBrowser, InPlace, InstallTransport
  <2> QED
    BY <2>1, FinishTells
<1>3. CASE Configure(i)
  <2>1. /\ initPc[i] = "new" /\ initPc' = [initPc EXCEPT ![i] = "configured"]
        /\ UNCHANGED <<setup, markers, lastRelease>>
    BY <1>3 DEF Configure
  <2>2. initPc'[i] = "configured" /\ \A j \in Inits : j # i => initPc'[j] = initPc[j]
    BY <1>1, <2>1
  <2>3. Announced' = Announced /\ Announced \subseteq Inits
    BY <1>1, <2>1, <2>2 DEF Announced
  <2>4. \A j \in Inits : ReleaseOf(j)' = ReleaseOf(j)
    BY <2>1 DEF setup, ReleaseOf
  <2> QED
    <3>1. ReleasesTold'
      BY <2>1, <2>3, <2>4, SameReleases DEF DeployTold
    <3>2. \A k \in DOMAIN markers : markers[k].init # i
      BY <2>1 DEF DeployTold
    <3> QED
      BY <1>1, <2>1, <2>2, <3>1, <3>2 DEF DeployTold
<1>4. CASE ReportDeploy(i)
  <2>1. /\ initPc[i] = "announcing" /\ initPc' = [initPc EXCEPT ![i] = "done"]
        /\ markers' = Append(markers, [init |-> i, to |-> MarkerGoesTo(i)])
        /\ UNCHANGED <<setup, lastRelease>>
    BY <1>4 DEF ReportDeploy
  <2>2. initPc'[i] = "done" /\ \A j \in Inits : j # i => initPc'[j] = initPc[j]
    BY <1>1, <2>1
  <2>3. \A j \in Inits : ReleaseOf(j)' = ReleaseOf(j)
    BY <2>1 DEF setup, ReleaseOf
  <2> DEFINE n == Len(markers)
  <2>4. /\ n \in Nat /\ DOMAIN markers = 1 .. n /\ DOMAIN markers' = 1 .. n + 1
        /\ \A k \in 1 .. n : markers'[k] = markers[k]
        /\ markers'[n + 1] = [init |-> i, to |-> MarkerGoesTo(i)]
    BY <1>1, <2>1
  <2>5. markers'[n + 1].init = i
    BY <2>4
  <2> HIDE DEF n
  <2>6. \A k \in DOMAIN markers' : (k \in DOMAIN markers /\ markers'[k] = markers[k]) \/ k = n + 1
    BY <2>4
  <2>7. \A k \in DOMAIN markers : markers[k].init # i /\ k # n + 1 /\ k \in DOMAIN markers'
    <3>1. \A k \in DOMAIN markers : markers[k].init # i
      BY <2>1 DEF DeployTold
    <3>2. \A k \in DOMAIN markers : k # n + 1 /\ k \in DOMAIN markers'
      BY <2>4
    <3> QED
      BY <3>1, <3>2
  <2>8. Announced' = Announced /\ Announced \subseteq Inits
    <3>1. {markers'[k].init : k \in DOMAIN markers'} = {markers[k].init : k \in DOMAIN markers} \cup {i}
      BY <2>4, <2>5, <2>6, <2>7
    <3>2. {j \in Inits : initPc'[j] = "announcing"} = {j \in Inits : initPc[j] = "announcing"} \ {i}
      BY <2>1, <2>2
    <3>3. i \in {j \in Inits : initPc[j] = "announcing"}
      BY <2>1
    <3> QED
      BY <1>1, <3>1, <3>2, <3>3 DEF Announced
  <2>9. \A k \in DOMAIN markers' : initPc'[markers'[k].init] = "done"
    BY <1>1, <2>2, <2>5, <2>6, <2>7 DEF DeployTold
  <2>10. \A j, k \in DOMAIN markers' : j # k => markers'[j].init # markers'[k].init
    BY <2>5, <2>6, <2>7 DEF DeployTold
  <2> QED
    <3>1. ReleasesTold'
      BY <2>1, <2>3, <2>8, SameReleases DEF DeployTold
    <3> QED
      BY <2>9, <2>10, <3>1 DEF DeployTold
<1> QED
  BY <1>2, <1>3, <1>4

\* Every step of a program keeps what is told.
LEMMA ClientTells == ClientInv /\ ClientTold /\ ClientNext => ClientTold'
<1> SUFFICES ASSUME ClientInv, ClientTold, ClientNext PROVE ClientTold'
  OBVIOUS
<1>1. CASE \E i \in Inits : InitGo(i) \/ InitRust(i) \/ InitBrowser(i) \/ Configure(i)
                            \/ InstallTransport(i) \/ ReportDeploy(i)
  <2>1. PICK i \in Inits : InitGo(i) \/ InitRust(i) \/ InitBrowser(i) \/ Configure(i)
                           \/ InstallTransport(i) \/ ReportDeploy(i)
    BY <1>1
  <2>2. DeployTold'
    BY <2>1, InitTellsDeploy DEF ClientTold
  <2>3. UNCHANGED <<setup, installed, events>>
    BY <2>1 DEF InitGo, InitRust, InitBrowser, InPlace, Configure, InstallTransport, ReportDeploy
  <2>4. CallTold(call, Len(events))'
    <3>1. CASE ReportDeploy(i)
      <4>1. UNCHANGED <<setup, inForce, installed>> /\ call' = call /\ events' = events
        BY <3>1 DEF ReportDeploy
      <4>2. CallTold(call', Len(events'))
        BY <4>1 DEF ClientTold
      <4> QED
        BY <4>1, <4>2, CallRests
    <3>2. CASE ~ReportDeploy(i)
      <4>1. Noticed
        BY <2>1, <3>2 DEF InitGo, InitRust, InitBrowser, InPlace, Configure, InstallTransport
      <4> QED
        BY <2>3, <4>1, NoticedTells DEF ClientTold
    <3> QED
      BY <3>1, <3>2
  <2>5. (installed > 0 => program.kind = "panic")'
    BY <2>3 DEF ClientTold, setup
  <2> QED
    BY <2>2, <2>4, <2>5 DEF ClientTold
<1>2. ASSUME UNCHANGED <<setup, initVars>>
      PROVE  DeployTold'
  <2>1. UNCHANGED <<program, initPc, markers, lastRelease>>
    BY <1>2 DEF setup, initVars
  <2>2. \A i : ReleaseOf(i)' = ReleaseOf(i)
    BY <2>1 DEF ReleaseOf
  <2>3. Announced' = Announced
    BY <2>1 DEF Announced
  <2> QED
    <3>1. Announced \subseteq Inits
      BY DEF Announced, ClientInv, SetupInv, ClientTypeOK
    <3>2. ReleasesTold'
      BY <2>1, <2>2, <2>3, <3>1, SameReleases DEF ClientTold, DeployTold
    <3> QED
      BY <2>1, <3>2 DEF ClientTold, DeployTold
<1>3. CASE Capture \/ InstallHandler \/ Panic \/ NextHandler
  <2>1. UNCHANGED <<setup, initVars>>
    BY <1>3 DEF Capture, InstallHandler, Panic, NextHandler, BeginCapture
  <2> QED
    BY <1>2, <1>3, <2>1, HandlerTells DEF ClientTold
<1>4. ASSUME UNCHANGED <<setup, initVars, installed>>, CallTold(call, Len(events))'
      PROVE  ClientTold'
  <2>1. (installed > 0 => program.kind = "panic")'
    BY <1>4 DEF ClientTold, setup
  <2> QED
    BY <1>2, <1>4, <2>1 DEF ClientTold
<1>5. CASE Original
  <2>1. /\ UNCHANGED <<setup, initVars, installed, events>> /\ call' = [call EXCEPT !.original = TRUE]
        /\ call \in FollowedCalls
    BY <1>5 DEF Original, ClientInv, CallInv
  <2>2. /\ call'.pc = call.pc /\ call'.ends = call.ends /\ call'.chain = call.chain
        /\ call'.hook = call.hook /\ call'.reinit = call.reinit /\ call'.met = call.met
    BY <2>1 DEF FollowedCalls
  <2>3. CallTold(call', Len(events'))
    BY <2>1, <2>2 DEF ClientTold, CallTold, Reason
  <2>4. UNCHANGED <<setup, inForce, installed>>
    BY <2>1 DEF initVars
  <2> QED
    BY <1>4, <2>1, <2>3, <2>4, CallRests
<1>6. CASE ReadEnvironment \/ ReadRelease \/ CheckHook \/ AskHook
  <2>1. UNCHANGED <<setup, initVars, installed>>
    BY <1>6 DEF ReadEnvironment, ReadRelease, CheckHook, AskHook
  <2> QED
    BY <1>4, <1>6, <2>1, ReadTells DEF ClientTold
<1>7. CASE DispatchGo \/ DispatchRust \/ DispatchBrowser \/ HandOver
  <2>1. UNCHANGED <<setup, initVars, installed>>
    BY <1>7 DEF DispatchGo, DispatchRust, DispatchBrowser, HandOver
  <2> QED
    BY <1>4, <1>7, <2>1, DispatchTells DEF ClientTold
<1> QED
  BY <1>1, <1>3, <1>5, <1>6, <1>7 DEF ClientNext

\* An event is handed over once or is missing for a reason.
LEMMA ClientToldOnce == ClientInv /\ ClientTold => OneEventPerCapture /\ DeployAnnounced
<1> SUFFICES ASSUME ClientInv, ClientTold PROVE OneEventPerCapture /\ DeployAnnounced
  OBVIOUS
<1>1. /\ call \in FollowedCalls /\ call.ends \in Seq(EndKinds) /\ call.chain \in Nat /\ installed \in Nat
      /\ initPc \in [Inits -> {"new", "configured", "announcing", "done"}]
  BY SdkClientsAssumption DEF ClientInv, CallInv, SetupInv, ClientTypeOK, FollowedCalls
<1>2. ASSUME call.pc = "over", call.chain <= 1, call.chain = 1 => call.original
      PROVE  Len(call.ends) = (IF program.kind = "panic" THEN installed ELSE 1)
  <2>1. /\ (call.chain = 0) = (program.kind # "panic")
        /\ Len(call.ends) = (IF program.kind = "panic" THEN installed - call.chain ELSE 0) + 1
    BY <1>2 DEF ClientTold, CallTold
  <2>2. CASE program.kind = "panic"
    <3>1. call.chain = 1 /\ Len(call.ends) = installed - 1 + 1
      BY <1>1, <1>2, <2>1, <2>2
    <3> QED
      BY <1>1, <2>2, <3>1
  <2>3. CASE program.kind # "panic"
    BY <2>1, <2>3
  <2> QED
    BY <2>2, <2>3
<1>3. Len(events) = Ends("sent")
  BY DEF ClientTold, CallTold, Count, Ends
<1>4. call.pc # "idle" => (call.chain = 0) = (program.kind # "panic")
  BY DEF ClientTold, CallTold
<1>5. ASSUME call.pc = "over", sdk # "rust"
      PROVE  CASE Last(call.ends) = "refused" -> NoInit \in call.met \/ call.reinit
               [] Last(call.ends) = "dropped" -> "drop" \in Met
               [] Last(call.ends) = "raised" -> \/ "fail" \in Met /\ sdk # "python"
                                                \/ call.reinit /\ sdk \in {"java", "csharp"}
               [] OTHER -> Met \ {"drop"} # {}
  <2> DEFINE how == Last(call.ends)
  <2>1. Reason(call, how)
    BY <1>5 DEF ClientTold, CallTold
  <2>2. how \in EndKinds
    <3>1. Len(call.ends) > 0
      <4>1. Len(call.ends) = (IF program.kind = "panic" THEN installed - call.chain ELSE 0) + 1
            /\ call.chain <= installed
        BY <1>5 DEF ClientTold, CallTold
      <4> QED
        BY <1>1, <4>1
    <3>2. Len(call.ends) \in DOMAIN call.ends
      BY <1>1, <3>1, LenProperties
    <3> QED
      BY <1>1, <3>2, ElementOfSeq DEF Last
  <2> HIDE DEF how
  <2>3. \A h : (\E i \in call.met : HookOf(i) = h) => h \in Met
    BY DEF Met
  <2>4. CASE how = "refused"
    BY <2>1, <2>4 DEF how, Reason
  <2>5. CASE how = "dropped"
    BY <2>1, <2>3, <2>5 DEF how, Reason
  <2>6. CASE how = "raised"
    BY <2>1, <2>3, <2>6 DEF how, Reason
  <2>7. CASE how = "sent"
    <3>1. PICK i \in call.met : HookOf(i) # "drop"
      BY <2>1, <2>7 DEF Reason
    <3>2. HookOf(i) \in Met \ {"drop"}
      BY <2>3, <3>1
    <3>3. Met \ {"drop"} # {}
      BY <3>2
    <3> QED
      BY <2>7, <3>3 DEF how
  <2> QED
    BY <2>2, <2>4, <2>5, <2>6, <2>7 DEF EndKinds
<1>6. ASSUME lastRelease # "", \A i \in Inits : initPc[i] # "announcing"
      PROVE  \E k \in DOMAIN markers : ReleaseOf(markers[k].init) = lastRelease
  <2>1. PICK i \in Announced : ReleaseOf(i) = lastRelease
    BY <1>6 DEF ClientTold, DeployTold, ReleasesTold
  <2>2. PICK k \in DOMAIN markers : i = markers[k].init
    BY <1>6 DEF Announced
  <2> QED
    BY <2>1, <2>2
<1>7. ASSUME NEW j \in DOMAIN markers, NEW k \in DOMAIN markers, j # k,
             ReleaseOf(markers[j].init) = ReleaseOf(markers[k].init)
      PROVE  \E i \in Inits : ReleaseOf(i) \notin {"", ReleaseOf(markers[j].init)}
  <2>1. markers[j].init # markers[k].init /\ markers[j].init \in Announced /\ markers[k].init \in Announced
    <3>1. \A m \in DOMAIN markers : markers[m].init \in Announced
      BY DEF Announced
    <3>2. markers[j].init # markers[k].init
      BY <1>7 DEF ClientTold, DeployTold
    <3> QED
      BY <3>1, <3>2
  <2> QED
    BY <1>7, <2>1 DEF ClientTold, DeployTold, ReleasesTold
<1>8. OneEventPerCapture
  BY <1>2, <1>3, <1>4, <1>5 DEF OneEventPerCapture
<1>9. DeployAnnounced
  BY <1>6, <1>7 DEF DeployAnnounced
<1> QED
  BY <1>8, <1>9

-----------------------------------------------------------------------------
(* What the detectors of a page have told *)

\* A click on the page.
MadeClicks == [place : Spots, ts : Nat, n : Nat]

\* The clicks of a burst, among all that were made.
BurstIn(made, click) ==
  {k \in (IF click.n > KEPT_CLICKS THEN click.n - KEPT_CLICKS + 1 ELSE 1) .. click.n :
     made[k].place = click.place /\ made[k].ts + RageMs >= click.ts}

\* What is held are the last clicks that were made.
LastKept(held, made) ==
  /\ held \in Seq(MadeClicks)
  /\ Len(held) = IF Len(made) > KEPT_CLICKS THEN KEPT_CLICKS ELSE Len(made)
  /\ \A j \in 1 .. Len(held) : held[j] = made[Len(made) - Len(held) + j]

\* The reports of rage are of clicks made, each after the quiet time of the one before.
RageReports(told, made, last) ==
  /\ told \in Seq(MadeClicks)
  /\ \A k \in DOMAIN told : told[k].n \in DOMAIN made /\ made[told[k].n] = told[k]
  /\ \A k \in 2 .. Len(told) : told[k].ts > told[k - 1].ts + RageQuiet
  /\ last \in Nat /\ IF told = <<>> THEN last = 0 ELSE last = told[Len(told)].ts

\* A click of a burst is reported, or in the quiet time after a report.
RageAnswered(k, made, told) ==
  \/ made[k] \in Range(told)
  \/ Cardinality(BurstIn(made, made[k])) < RageCount
  \/ \E r \in Range(told) : r.n < k /\ made[k].ts <= r.ts + RageQuiet

\* The clicks made, those kept of them, and the reports of rage they gave rise to.
ClicksTold ==
  /\ clicked \in Seq(MadeClicks) /\ (section = "clicks" => Len(clicked) = steps)
  /\ \A k \in DOMAIN clicked : clicked[k].n = k /\ clicked[k].ts <= now
  /\ LastKept(recentClicks, clicked) /\ RageReports(rages, clicked, lastRageTs)
  /\ \A k \in DOMAIN clicked : RageAnswered(k, clicked, rages)
  /\ \A r \in Range(rages) : Cardinality(BurstIn(clicked, r)) >= RageCount

\* A click more, and what is held of the clicks.
LEMMA KeptAfterClick ==
  ASSUME NEW made \in Seq(MadeClicks), NEW held, LastKept(held, made), NEW click \in MadeClicks
  PROVE  LET all == Append(held, click)
         IN  LastKept(IF Len(all) > KEPT_CLICKS THEN Tail(all) ELSE all, Append(made, click))
<1> DEFINE n == Len(made)
           m == Len(held)
           all == Append(held, click)
           grown == Append(made, click)
<1>1. KEPT_CLICKS \in Nat /\ KEPT_CLICKS > 0
  BY AwakeAssumption
<1>2. /\ n \in Nat /\ m \in Nat /\ m = (IF n > KEPT_CLICKS THEN KEPT_CLICKS ELSE n)
      /\ held \in Seq(MadeClicks) /\ \A j \in 1 .. m : held[j] = made[n - m + j]
  BY DEF LastKept
<1>3. /\ all \in Seq(MadeClicks) /\ Len(all) = m + 1 /\ all[m + 1] = click
      /\ \A j \in 1 .. m : all[j] = held[j]
  BY <1>2
<1>4. Len(grown) = n + 1 /\ grown[n + 1] = click /\ \A j \in 1 .. n : grown[j] = made[j]
  OBVIOUS
<1> HIDE DEF n, m, all, grown
<1>5. m <= n
  BY <1>1, <1>2
<1>6. \A j \in 1 .. m + 1 : all[j] = grown[n - m + j]
  <2>1. ASSUME NEW j \in 1 .. m PROVE all[j] = grown[n - m + j]
    <3>1. n - m + j \in 1 .. n
      BY <1>2, <1>5
    <3> QED
      BY <1>2, <1>3, <1>4, <3>1
  <2>2. n - m + (m + 1) = n + 1
    BY <1>2
  <2>3. all[m + 1] = grown[n - m + (m + 1)]
    BY <1>3, <1>4, <2>2
  <2>4. \A j \in 1 .. m + 1 : j \in 1 .. m \/ j = m + 1
    BY <1>2
  <2> QED
    BY <2>1, <2>3, <2>4
<1>7. CASE m + 1 > KEPT_CLICKS
  <2>1. m = KEPT_CLICKS /\ n + 1 > KEPT_CLICKS
    BY <1>1, <1>2, <1>5, <1>7
  <2> DEFINE rest == Tail(all)
  <2>2. /\ rest \in Seq(MadeClicks) /\ Len(rest) = m /\ \A j \in 1 .. m : rest[j] = all[j + 1]
    BY <1>2, <1>3
  <2> HIDE DEF rest
  <2>3. \A j \in 1 .. m : rest[j] = grown[(n + 1) - m + j]
    <3>1. \A j \in 1 .. m : j + 1 \in 1 .. m + 1 /\ n - m + (j + 1) = (n + 1) - m + j
      BY <1>2
    <3>2. \A j \in 1 .. m : rest[j] = grown[n - m + (j + 1)]
      BY <1>6, <2>2, <3>1
    <3> QED
      BY <3>1, <3>2
  <2>4. LastKept(rest, grown)
    BY <1>4, <2>1, <2>2, <2>3 DEF LastKept
  <2> QED
    BY <1>3, <1>7, <2>4 DEF rest, all, grown
<1>8. CASE ~(m + 1 > KEPT_CLICKS)
  <2>1. m = n /\ ~(n + 1 > KEPT_CLICKS)
    BY <1>1, <1>2, <1>8
  <2>2. \A j \in 1 .. m + 1 : all[j] = grown[(n + 1) - (m + 1) + j]
    BY <1>2, <1>6, <2>1
  <2>3. LastKept(all, grown)
    BY <1>3, <1>4, <2>1, <2>2 DEF LastKept
  <2> QED
    BY <1>3, <1>8, <2>3 DEF all, grown
<1> QED
  BY <1>7, <1>8

\* The cluster among the clicks held is the burst among all.
LEMMA ClusterIsBurst ==
  ASSUME NEW made \in Seq(MadeClicks), NEW held, LastKept(held, made), made # <<>>,
         \A k \in DOMAIN made : made[k].n = k
  PROVE  Cardinality(Cluster(held, made[Len(made)])) = Cardinality(BurstIn(made, made[Len(made)]))
<1> DEFINE n == Len(made)
           m == Len(held)
           click == made[n]
           C == Cluster(held, click)
           B == BurstIn(made, click)
<1>1. KEPT_CLICKS \in Nat /\ KEPT_CLICKS > 0 /\ RageMs \in Nat
  BY AwakeAssumption
<1>2. /\ n \in Nat /\ n > 0 /\ m \in Nat /\ m = (IF n > KEPT_CLICKS THEN KEPT_CLICKS ELSE n)
      /\ held \in Seq(MadeClicks) /\ \A j \in 1 .. m : held[j] = made[n - m + j]
  BY EmptySeq DEF LastKept
<1>3. DOMAIN held = 1 .. m /\ DOMAIN made = 1 .. n /\ \A j \in 1 .. n : made[j] \in MadeClicks
  BY <1>2, LenProperties, ElementOfSeq
<1>4. click.n = n /\ click \in MadeClicks /\ click.ts \in Nat
  <2>1. n \in 1 .. n /\ n \in DOMAIN made
    BY <1>2, <1>3
  <2>2. click.n = n /\ click \in MadeClicks
    BY <1>3, <2>1
  <2> HIDE DEF click
  <2> QED
    BY <2>2 DEF MadeClicks
<1>5. C = {j \in 1 .. m : click.ts - held[j].ts <= RageMs /\ held[j].place = click.place}
  BY <1>3 DEF Cluster
<1>6. B = {k \in (n - m) + 1 .. n : made[k].place = click.place /\ made[k].ts + RageMs >= click.ts}
  <2>1. (IF click.n > KEPT_CLICKS THEN click.n - KEPT_CLICKS + 1 ELSE 1) = (n - m) + 1
    BY <1>1, <1>2, <1>4
  <2> QED
    BY <1>4, <2>1 DEF BurstIn
<1> HIDE DEF n, m, click, C, B
<1>7. m <= n
  BY <1>1, <1>2
<1>8. \A j \in 1 .. m : j \in C <=> n - m + j \in B
  <2> TAKE j \in 1 .. m
  <2>1. n - m + j \in 1 .. n /\ n - m + j \in (n - m) + 1 .. n /\ held[j] = made[n - m + j]
    BY <1>2, <1>7
  <2>2. made[n - m + j].ts \in Nat
    BY <1>3, <2>1 DEF MadeClicks
  <2>3. click.ts - made[n - m + j].ts <= RageMs <=> made[n - m + j].ts + RageMs >= click.ts
    BY <1>1, <1>4, <2>2
  <2> QED
    BY <1>5, <1>6, <2>1, <2>3
<1> DEFINE f == [j \in C |-> n - m + j]
<1>9. C \subseteq 1 .. m /\ B \subseteq (n - m) + 1 .. n
  BY <1>5, <1>6
<1>10. f \in [C -> B]
  BY <1>8, <1>9
<1>11. f \in Injection(C, B)
  <2>1. \A i, j \in C : f[i] = f[j] => i = j
    <3>1. \A i, j \in C : i \in Nat /\ j \in Nat /\ (n - m + i = n - m + j => i = j)
      BY <1>2, <1>9
    <3> QED
      BY <3>1
  <2> QED
    BY <1>10, <2>1 DEF Injection, IsInjective
<1>12. f \in Surjection(C, B)
  <2>1. ASSUME NEW k \in B PROVE \E j \in C : f[j] = k
    <3>1. k - (n - m) \in 1 .. m /\ n - m + (k - (n - m)) = k
      BY <1>2, <1>7, <1>9
    <3>2. k - (n - m) \in C
      BY <1>8, <3>1
    <3> QED
      BY <3>1, <3>2
  <2> QED
    BY <1>10, <2>1 DEF Surjection
<1>13. IsFiniteSet(C)
  <2>1. IsFiniteSet(1 .. m)
    BY <1>2, FS_Interval
  <2> QED
    BY <1>9, <2>1, FS_Subset
<1> HIDE DEF f
<1>14. Cardinality(B) = Cardinality(C)
  BY <1>11, <1>12, <1>13, FS_Surjection
<1> QED
  BY <1>14 DEF B, C, click, n

\* A burst looks back only.
LEMMA BurstStays ==
  ASSUME NEW made \in Seq(MadeClicks), NEW click \in MadeClicks, NEW c \in MadeClicks, c.n <= Len(made)
  PROVE  BurstIn(Append(made, click), c) = BurstIn(made, c)
<1> DEFINE first == IF c.n > KEPT_CLICKS THEN c.n - KEPT_CLICKS + 1 ELSE 1
           grown == Append(made, click)
<1>1. KEPT_CLICKS \in Nat /\ c.n \in Nat /\ Len(made) \in Nat
  BY AwakeAssumption DEF MadeClicks
<1>2. first \in Nat /\ first >= 1
  BY <1>1
<1>3. \A j \in 1 .. Len(made) : grown[j] = made[j]
  OBVIOUS
<1>4. \A j \in first .. c.n : j \in 1 .. Len(made)
  BY <1>1, <1>2
<1> HIDE DEF grown, first
<1>5. \A j \in first .. c.n : grown[j] = made[j]
  BY <1>3, <1>4
<1>6. BurstIn(grown, c) = {k \in first .. c.n : grown[k].place = c.place /\ grown[k].ts + RageMs >= c.ts}
  BY DEF BurstIn, first
<1>7. BurstIn(made, c) = {k \in first .. c.n : made[k].place = c.place /\ made[k].ts + RageMs >= c.ts}
  BY DEF BurstIn, first
<1>8. BurstIn(grown, c) = BurstIn(made, c)
  BY <1>5, <1>6, <1>7
<1> QED
  BY <1>8 DEF grown

\* The clicks of a burst are finite in number.
LEMMA BurstFinite ==
  ASSUME NEW made, NEW c \in MadeClicks
  PROVE  Cardinality(BurstIn(made, c)) \in Nat
<1> DEFINE first == IF c.n > KEPT_CLICKS THEN c.n - KEPT_CLICKS + 1 ELSE 1
<1>1. first \in Int /\ c.n \in Int
  BY AwakeAssumption DEF MadeClicks
<1>2. IsFiniteSet(first .. c.n)
  BY <1>1, FS_Interval
<1>3. BurstIn(made, c) \subseteq first .. c.n
  BY DEF BurstIn
<1>4. IsFiniteSet(BurstIn(made, c))
  BY <1>2, <1>3, FS_Subset
<1> QED
  BY <1>4, FS_CardinalityType

\* A report more.
LEMMA ReportAfterClick ==
  ASSUME NEW made \in Seq(MadeClicks), NEW told, NEW last, RageReports(told, made, last),
         NEW click \in MadeClicks, click.n = Len(made) + 1, click.ts - last > RageQuiet
  PROVE  RageReports(Append(told, click), Append(made, click), click.ts)
<1> DEFINE n == Len(made)
           m == Len(told)
           grown == Append(made, click)
           reports == Append(told, click)
<1>1. /\ told \in Seq(MadeClicks) /\ m \in Nat /\ DOMAIN told = 1 .. m /\ n \in Nat /\ DOMAIN made = 1 .. n
      /\ \A k \in 1 .. m : told[k] \in MadeClicks
  BY LenProperties, ElementOfSeq DEF RageReports
<1>2. /\ grown[n + 1] = click /\ \A j \in 1 .. n : grown[j] = made[j]
      /\ DOMAIN grown = 1 .. n + 1
  BY <1>1
<1>3. /\ reports \in Seq(MadeClicks) /\ Len(reports) = m + 1 /\ reports[m + 1] = click
      /\ \A k \in 1 .. m : reports[k] = told[k]
      /\ DOMAIN reports = 1 .. m + 1 /\ reports # <<>>
  <2>1. /\ reports \in Seq(MadeClicks) /\ Len(reports) = m + 1 /\ reports[m + 1] = click
        /\ \A k \in 1 .. m : reports[k] = told[k]
    BY <1>1
  <2>2. DOMAIN reports = 1 .. m + 1
    BY <2>1, LenProperties
  <2>3. m + 1 # 0
    BY <1>1
  <2> QED
    BY <2>1, <2>2, <2>3, EmptySeq
<1>4. \A k \in 1 .. m : told[k].n \in 1 .. n /\ made[told[k].n] = told[k]
  BY <1>1 DEF RageReports
<1>5. click.ts \in Nat /\ RageQuiet \in Nat
  BY AwakeAssumption DEF MadeClicks
<1> HIDE DEF n, m, grown, reports
<1>6. \A k \in DOMAIN reports : reports[k].n \in DOMAIN grown /\ grown[reports[k].n] = reports[k]
  <2> TAKE k \in DOMAIN reports
  <2>1. CASE k \in 1 .. m
    <3>1. reports[k] = told[k] /\ told[k].n \in 1 .. n /\ made[told[k].n] = told[k]
      BY <1>3, <1>4, <2>1
    <3>2. told[k].n \in DOMAIN grown /\ grown[told[k].n] = made[told[k].n]
      BY <1>1, <1>2, <3>1
    <3> QED
      BY <3>1, <3>2
  <2>2. CASE k = m + 1
    <3>1. reports[k] = click /\ click.n = n + 1
      BY <1>3, <2>2 DEF n
    <3> QED
      BY <1>1, <1>2, <3>1
  <2> QED
    BY <1>1, <1>3, <2>1, <2>2
<1>7. \A k \in 2 .. Len(reports) : reports[k].ts > reports[k - 1].ts + RageQuiet
  <2> TAKE k \in 2 .. Len(reports)
  <2>1. CASE k \in 2 .. m
    <3>1. k \in 1 .. m /\ k - 1 \in 1 .. m
      BY <1>1, <2>1
    <3>2. told[k].ts > told[k - 1].ts + RageQuiet
      BY <2>1 DEF RageReports, m
    <3> QED
      BY <1>3, <3>1, <3>2
  <2>2. CASE k = m + 1 /\ m > 0
    <3>1. last = told[m].ts /\ last \in Nat
      <4>1. told # <<>>
        BY <2>2, EmptySeq DEF m
      <4> QED
        BY <4>1 DEF RageReports, m
    <3>2. k - 1 = m /\ m \in 1 .. m
      BY <1>1, <2>2
    <3>3. reports[k] = click /\ reports[k - 1] = told[m]
      BY <1>3, <2>2, <3>2
    <3> QED
      BY <1>5, <3>1, <3>3
  <2> QED
    BY <1>1, <1>3, <2>1, <2>2
<1>8. RageReports(reports, grown, click.ts)
  BY <1>3, <1>5, <1>6, <1>7 DEF RageReports
<1> QED
  BY <1>8 DEF reports, grown

\* No report, and a click more.
LEMMA NoReportAfterClick ==
  ASSUME NEW made \in Seq(MadeClicks), NEW told, NEW last, RageReports(told, made, last), NEW click \in MadeClicks
  PROVE  RageReports(told, Append(made, click), last)
<1> DEFINE n == Len(made)
           grown == Append(made, click)
<1>1. n \in Nat /\ DOMAIN made = 1 .. n
  BY LenProperties
<1>2. DOMAIN grown = 1 .. n + 1 /\ \A j \in 1 .. n : grown[j] = made[j]
  BY <1>1
<1> HIDE DEF n, grown
<1>3. \A k \in DOMAIN told : told[k].n \in DOMAIN grown /\ grown[told[k].n] = told[k]
  <2> TAKE k \in DOMAIN told
  <2>1. told[k].n \in 1 .. n /\ made[told[k].n] = told[k]
    BY <1>1 DEF RageReports
  <2> QED
    BY <1>1, <1>2, <2>1
<1>4. RageReports(told, grown, last)
  BY <1>3 DEF RageReports
<1> QED
  BY <1>4 DEF grown

\* A click more is kept, and told where it is due.
LEMMA ClickTells ==
  ASSUME ClicksTold, now \in Nat, now > RageQuiet, steps \in Nat,
         NEW place \in Spots, NEW interactive, Click(place, interactive)
  PROVE  ClicksTold'
<1> DEFINE n == Len(clicked)
           click == [place |-> place, ts |-> now, n |-> steps + 1]
           grown == Append(clicked, click)
           held == KeptClicks(click)
<1>1. /\ section = "clicks" /\ steps' = steps + 1 /\ section' = section /\ now' = now
      /\ recentClicks' = held /\ clicked' = grown
      /\ IF IsRage(held, click) THEN lastRageTs' = now /\ rages' = Append(rages, click)
         ELSE UNCHANGED <<lastRageTs, rages>>
  BY DEF Click, OneStep
<1>2. /\ clicked \in Seq(MadeClicks) /\ n = steps /\ n \in Nat /\ DOMAIN clicked = 1 .. n
      /\ \A k \in 1 .. n : clicked[k] \in MadeClicks /\ clicked[k].n = k /\ clicked[k].ts <= now
  BY <1>1, LenProperties, ElementOfSeq DEF ClicksTold
<1>3. /\ click \in MadeClicks /\ click.n = n + 1 /\ click.ts = now /\ click.ts \in Nat
  BY <1>2 DEF MadeClicks
<1> HIDE DEF click
<1>4. /\ grown \in Seq(MadeClicks) /\ Len(grown) = n + 1 /\ grown[n + 1] = click
      /\ \A k \in 1 .. n : grown[k] = clicked[k]
  BY <1>2, <1>3
<1> HIDE DEF n, grown
<1>5. DOMAIN grown = 1 .. n + 1 /\ grown # <<>>
  <2>1. n + 1 # 0
    BY <1>2
  <2> QED
    BY <1>4, <2>1, LenProperties, EmptySeq
<1>6. \A k \in DOMAIN grown : grown[k].n = k /\ grown[k].ts <= now
  <2> TAKE k \in DOMAIN grown
  <2>1. CASE k \in 1 .. n
    BY <1>2, <1>4, <2>1
  <2>2. CASE k = n + 1
    BY <1>3, <1>4, <2>2
  <2> QED
    BY <1>2, <1>5, <2>1, <2>2
<1>7. LastKept(held, grown)
  BY <1>3, KeptAfterClick DEF ClicksTold, KeptClicks, grown
<1>8. Cardinality(Cluster(held, click)) = Cardinality(BurstIn(grown, click))
  <2>1. Cardinality(Cluster(held, grown[Len(grown)])) = Cardinality(BurstIn(grown, grown[Len(grown)]))
    <3> HIDE DEF held
    <3> QED
      BY <1>4, <1>5, <1>6, <1>7, ClusterIsBurst
  <2> QED
    BY <1>4, <2>1
<1>9. RageReports(rages, clicked, lastRageTs) /\ rages \in Seq(MadeClicks) /\ lastRageTs \in Nat
  BY DEF ClicksTold, RageReports
<1>10. /\ RageReports(rages', grown, lastRageTs')
       /\ Range(rages') = Range(rages) \cup (IF IsRage(held, click) THEN {click} ELSE {})
  <2>1. CASE IsRage(held, click)
    <3>1. click.ts - lastRageTs > RageQuiet /\ lastRageTs' = click.ts /\ rages' = Append(rages, click)
      BY <1>1, <1>3, <2>1 DEF IsRage
    <3>2. RageReports(Append(rages, click), grown, click.ts)
      BY <1>2, <1>3, <1>9, <3>1, ReportAfterClick DEF n, grown
    <3>3. Range(Append(rages, click)) = Range(rages) \cup {click}
      BY <1>3, <1>9, AppendNew
    <3> QED
      BY <2>1, <3>1, <3>2, <3>3
  <2>2. CASE ~IsRage(held, click)
    <3>1. lastRageTs' = lastRageTs /\ rages' = rages
      BY <1>1, <2>2
    <3>2. RageReports(rages, grown, lastRageTs)
      BY <1>2, <1>3, <1>9, NoReportAfterClick DEF grown
    <3> QED
      BY <2>2, <3>1, <3>2
  <2> QED
    BY <2>1, <2>2
<1>11. \A k \in 1 .. n : BurstIn(grown, clicked[k]) = BurstIn(clicked, clicked[k])
  <2> TAKE k \in 1 .. n
  <2>1. clicked[k] \in MadeClicks /\ clicked[k].n <= Len(clicked)
    BY <1>2 DEF n
  <2> QED
    BY <1>2, <1>3, <2>1, BurstStays DEF grown
<1>12. ASSUME NEW k \in DOMAIN grown
       PROVE  RageAnswered(k, grown, rages')
  <2>1. CASE k \in 1 .. n
    <3>1. grown[k] = clicked[k] /\ BurstIn(grown, grown[k]) = BurstIn(clicked, clicked[k])
      BY <1>4, <1>11, <2>1
    <3>2. RageAnswered(k, clicked, rages)
      BY <1>2, <2>1 DEF ClicksTold
    <3>3. Range(rages) \subseteq Range(rages')
      BY <1>10
    <3> QED
      BY <3>1, <3>2, <3>3 DEF RageAnswered
  <2>2. CASE k = n + 1
    <3>1. grown[k] = click
      BY <1>4, <2>2
    <3>2. CASE IsRage(held, click)
      BY <1>10, <3>1, <3>2 DEF RageAnswered
    <3>3. CASE ~(Cardinality(BurstIn(grown, click)) >= RageCount)
      <4>1. Cardinality(BurstIn(grown, click)) \in Nat /\ RageCount \in Nat
        BY <1>3, BurstFinite, AwakeAssumption
      <4>2. Cardinality(BurstIn(grown, click)) < RageCount
        BY <3>3, <4>1
      <4> QED
        BY <3>1, <4>2 DEF RageAnswered
    <3>4. CASE ~IsRage(held, click) /\ ~(click.ts - lastRageTs > RageQuiet)
      <4>1. RageQuiet \in Nat
        BY AwakeAssumption
      <4>2. lastRageTs # 0
        BY <1>3, <3>4, <4>1
      <4>3. rages # <<>> /\ lastRageTs = rages[Len(rages)].ts
        BY <1>9, <4>2 DEF RageReports
      <4> DEFINE last == rages[Len(rages)]
      <4>4. Len(rages) \in DOMAIN rages
        BY <1>9, <4>3, EmptySeq, LenProperties
      <4>5. last \in Range(rages) /\ last.n \in 1 .. n
        BY <1>2, <1>9, <4>4 DEF Range, RageReports
      <4>6. click.ts <= last.ts + RageQuiet
        BY <1>3, <1>9, <3>4, <4>1, <4>3
      <4>7. last \in Range(rages') /\ last.n < k
        BY <1>2, <1>10, <2>2, <4>5
      <4> QED
        BY <3>1, <4>6, <4>7 DEF RageAnswered
    <3> QED
      BY <1>8, <3>2, <3>3, <3>4 DEF IsRage
  <2> QED
    BY <1>2, <1>5, <2>1, <2>2
<1>13. ASSUME NEW r \in Range(rages')
       PROVE  Cardinality(BurstIn(grown, r)) >= RageCount
  <2>1. CASE r \in Range(rages)
    <3>1. PICK k \in DOMAIN rages : r = rages[k]
      BY <2>1 DEF Range
    <3>2. r.n \in 1 .. n /\ clicked[r.n] = r
      BY <1>2, <1>9, <3>1 DEF RageReports
    <3>3. BurstIn(grown, r) = BurstIn(clicked, r)
      BY <1>11, <3>2
    <3>4. Cardinality(BurstIn(clicked, r)) >= RageCount
      BY <2>1 DEF ClicksTold
    <3> QED
      BY <3>3, <3>4
  <2>2. CASE r = click /\ IsRage(held, click)
    BY <1>8, <2>2 DEF IsRage
  <2> QED
    BY <1>10, <2>1, <2>2
<1>14. Len(grown) = steps'
  BY <1>1, <1>2, <1>4
<1> HIDE DEF held
<1> QED
  BY <1>1, <1>4, <1>6, <1>7, <1>10, <1>12, <1>13, <1>14 DEF ClicksTold

\* Every burst is told once.
LEMMA RageReportsTold == ClicksTold => RageToldOnce
<1> SUFFICES ASSUME ClicksTold PROVE RageToldOnce
  OBVIOUS
<1>1. \A c : Burst(c) = BurstIn(clicked, c)
  BY DEF Burst, BurstIn
<1>2. ToSet(rages) = Range(rages)
  BY DEF ToSet, Range
<1>3. \A k \in 2 .. Len(rages) : rages[k].ts > rages[k - 1].ts + RageQuiet
  BY DEF ClicksTold, RageReports
<1>4. \A k \in DOMAIN clicked :
        \/ clicked[k] \in ToSet(rages)
        \/ Cardinality(Burst(clicked[k])) < RageCount
        \/ \E r \in ToSet(rages) : r.n < k /\ clicked[k].ts <= r.ts + RageQuiet
  BY <1>1, <1>2 DEF ClicksTold, RageAnswered
<1>5. \A r \in ToSet(rages) : Cardinality(Burst(r)) >= RageCount
  BY <1>1, <1>2 DEF ClicksTold
<1> QED
  BY <1>3, <1>4, <1>5 DEF RageToldOnce

\* What a check says of the changes of the page: there was one since the click, or none.
CheckSays(c, at) ==
  /\ c \in [click : Nat, ts : Nat, mutated : BOOLEAN] /\ c.ts <= at
  /\ c.mutated => \E t \in changed : c.ts <= t
  /\ ~c.mutated => \A t \in changed : t <= c.ts

\* A report of a check is what the changes of the page say.
DeadReported(r) ==
  IF r.dead THEN \A t \in changed : ~(r.check.ts < t /\ t < r.at)
  ELSE \E t \in changed : r.check.ts <= t /\ t <= r.at

\* The checks under way and the reports agree with the changes of the page.
ChecksTold ==
  /\ changed \subseteq Nat /\ lastMutationTs \in Nat /\ lastMutationTs <= now
  /\ lastMutationTs # 0 => lastMutationTs \in changed
  /\ \A t \in changed : t <= lastMutationTs
  /\ \A c \in pendingChecks : CheckSays(c, now)
  /\ \A r \in deadReports : r.at \in Nat /\ r.at <= now /\ DeadReported(r)

\* A check begins with the changes there were.
LEMMA ChecksAfterClick ==
  ASSUME ChecksTold, now \in Nat, now > 0, steps \in Nat,
         NEW place \in Spots, NEW interactive, Click(place, interactive)
  PROVE  ChecksTold'
<1> DEFINE click == [place |-> place, ts |-> now, n |-> steps + 1]
           c == DeadCheck(click)
<1>1. /\ now' = now /\ UNCHANGED <<lastMutationTs, changed, deadReports>>
      /\ pendingChecks' = pendingChecks \cup (IF interactive THEN {c} ELSE {})
  BY DEF Click, OneStep
<1>2. c = [click |-> steps + 1, ts |-> now, mutated |-> lastMutationTs >= now]
  BY DEF DeadCheck
<1> HIDE DEF c
<1>3. c \in [click : Nat, ts : Nat, mutated : BOOLEAN] /\ c.ts = now /\ c.mutated = (lastMutationTs >= now)
  <2> DEFINE b == lastMutationTs >= now
  <2>1. b \in BOOLEAN /\ c = [click |-> steps + 1, ts |-> now, mutated |-> b]
    BY <1>2
  <2> HIDE DEF b
  <2>2. c \in [click : Nat, ts : Nat, mutated : BOOLEAN] /\ c.ts = now /\ c.mutated = b
    BY <2>1
  <2> QED
    BY <2>2 DEF b
<1>4. CASE lastMutationTs >= now
  <2>1. lastMutationTs = now /\ now \in changed
    BY <1>4 DEF ChecksTold
  <2> QED
    BY <1>1, <1>3, <1>4, <2>1 DEF ChecksTold, CheckSays, DeadReported
<1>5. CASE ~(lastMutationTs >= now)
  <2>1. \A t \in changed : t <= now
    BY <1>5 DEF ChecksTold
  <2> QED
    BY <1>1, <1>3, <1>5, <2>1 DEF ChecksTold, CheckSays, DeadReported
<1> QED
  BY <1>4, <1>5

\* A change of the page marks the checks under way.
LEMMA ChecksAfterChange ==
  ASSUME ChecksTold, now \in Nat, PageChanges
  PROVE  ChecksTold'
<1>1. /\ now' = now /\ changed' = changed \cup {now} /\ lastMutationTs' = now /\ deadReports' = deadReports
      /\ pendingChecks' = {[c EXCEPT !.mutated = c.mutated \/ now > c.ts] : c \in pendingChecks}
  BY DEF PageChanges, NoStep
<1>2. ASSUME NEW d \in pendingChecks'
      PROVE  CheckSays(d, now)'
  <2>1. PICK c \in pendingChecks : d = [c EXCEPT !.mutated = c.mutated \/ now > c.ts]
    BY <1>1
  <2>2. CheckSays(c, now) /\ c \in [click : Nat, ts : Nat, mutated : BOOLEAN]
    BY DEF ChecksTold, CheckSays
  <2> DEFINE b == c.mutated \/ now > c.ts
  <2>3. b \in BOOLEAN
    BY <2>2
  <2>4. b <=> c.mutated \/ now > c.ts
    BY <2>2
  <2>5. d = [c EXCEPT !.mutated = b]
    BY <2>1
  <2> HIDE DEF b
  <2>6. d \in [click : Nat, ts : Nat, mutated : BOOLEAN] /\ d.ts = c.ts /\ d.mutated = b
    BY <2>2, <2>3, <2>5
  <2>7. c.ts \in Nat /\ c.ts <= now
    BY <2>2 DEF CheckSays
  <2>8. CASE b
    <3>1. \E t \in changed' : d.ts <= t
      BY <1>1, <2>6, <2>7
    <3> QED
      BY <1>1, <2>6, <2>7, <2>8, <3>1 DEF CheckSays
  <2>9. CASE ~b
    <3>1. ~c.mutated /\ ~(now > c.ts)
      BY <2>4, <2>9
    <3>2. now <= c.ts
      BY <2>7, <3>1
    <3>3. \A t \in changed' : t <= d.ts
      BY <1>1, <2>2, <2>6, <3>1, <3>2 DEF CheckSays
    <3> QED
      BY <1>1, <2>6, <2>7, <2>9, <3>3 DEF CheckSays
  <2> QED
    BY <2>8, <2>9
<1>3. \A t \in changed' : t <= now
  BY <1>1 DEF ChecksTold
<1>4. ASSUME NEW r \in deadReports'
      PROVE  r.at \in Nat /\ r.at <= now' /\ DeadReported(r)'
  <2>1. r.at \in Nat /\ r.at <= now /\ DeadReported(r)
    BY <1>1, <1>4 DEF ChecksTold
  <2>2. ~(now < r.at)
    BY <2>1
  <2> QED
    BY <1>1, <2>1, <2>2 DEF DeadReported
<1> QED
  BY <1>1, <1>2, <1>3, <1>4 DEF ChecksTold

\* A check that ends is reported as it stands.
LEMMA ChecksAfterTimer ==
  ASSUME ChecksTold, now \in Nat, NEW check \in pendingChecks, DeadTimer(check)
  PROVE  ChecksTold'
<1> PICK r : r = [check |-> check, dead |-> ~check.mutated, at |-> now]
  OBVIOUS
<1>1. /\ now' = now /\ UNCHANGED <<changed, lastMutationTs>>
      /\ pendingChecks' = pendingChecks \ {check} /\ deadReports' = deadReports \cup {r}
  BY DEF DeadTimer, NoStep
<1>2. CheckSays(check, now)
  BY DEF ChecksTold
<1>3. r.check = check /\ r.at = now /\ (r.dead <=> ~check.mutated)
  BY <1>2
<1>4. \A t \in changed : t \in Nat /\ t <= now
  BY DEF ChecksTold
<1>5. check.ts \in Nat
  BY <1>2 DEF CheckSays
<1>6. DeadReported(r)
  <2>1. CASE check.mutated
    BY <1>2, <1>3, <1>4, <2>1 DEF CheckSays, DeadReported
  <2>2. CASE ~check.mutated
    BY <1>2, <1>3, <1>4, <1>5, <2>2 DEF CheckSays, DeadReported
  <2> QED
    BY <2>1, <2>2
<1> QED
  <2>1. \A c \in pendingChecks' : CheckSays(c, now)'
    BY <1>1 DEF ChecksTold, CheckSays
  <2>2. DeadReported(r)'
    BY <1>1, <1>6 DEF DeadReported
  <2>3. \A d \in deadReports : d.at \in Nat /\ d.at <= now /\ DeadReported(d)'
    BY <1>1 DEF ChecksTold, DeadReported
  <2>4. \A d \in deadReports' : d.at \in Nat /\ d.at <= now /\ DeadReported(d)'
    BY <1>1, <1>3, <2>2, <2>3
  <2> QED
    BY <1>1, <2>1, <2>4 DEF ChecksTold

\* A click told as dead is.
LEMMA DeadReportsTold == ChecksTold => DeadClicksAreDead
BY DEF ChecksTold, DeadReported, DeadClicksAreDead

\* The last samples after n of the sequence s, and how many came before those.
Before(n) == IF n > MAX_SAMPLES THEN n - MAX_SAMPLES ELSE 0
WindowOf(s, n) == SubSeq(s, Before(n) + 1, n)

\* A window grows up to MAX_SAMPLES, then it shifts.
LEMMA BeforeGrows ==
  ASSUME NEW n \in Nat
  PROVE  /\ Before(n) \in Nat /\ Before(n) <= n /\ n - Before(n) <= MAX_SAMPLES
         /\ n - Before(n) + 1 > MAX_SAMPLES => Before(n + 1) = Before(n) + 1
         /\ ~(n - Before(n) + 1 > MAX_SAMPLES) => Before(n + 1) = Before(n)
<1>1. MAX_SAMPLES \in Nat /\ MAX_SAMPLES > 0
  BY AwakeAssumption
<1> QED
  BY <1>1 DEF Before

\* A window holds the last of the samples, in their order.
LEMMA WindowHolds ==
  ASSUME NEW s \in Seq(PageSizes), NEW n \in 0 .. Len(s)
  PROVE  /\ WindowOf(s, n) \in Seq(PageSizes) /\ Len(WindowOf(s, n)) = n - Before(n)
         /\ \A i \in 1 .. n - Before(n) : WindowOf(s, n)[i] = s[Before(n) + i]
<1> DEFINE b == Before(n)
<1>1. n \in Nat /\ n <= Len(s) /\ Len(s) \in Nat
  OBVIOUS
<1>2. b \in Nat /\ b <= n
  BY <1>1, BeforeGrows
<1> HIDE DEF b
<1>3. \A i \in b + 1 .. n : s[i] \in PageSizes
  <2> TAKE i \in b + 1 .. n
  <2>1. i \in 1 .. Len(s)
    BY <1>1, <1>2
  <2> QED
    BY <2>1, ElementOfSeq
<1>4. b + 1 \in Int /\ n \in Int
  BY <1>1, <1>2
<1>5. /\ SubSeq(s, b + 1, n) \in Seq(PageSizes)
      /\ Len(SubSeq(s, b + 1, n)) = IF b + 1 <= n THEN n - (b + 1) + 1 ELSE 0
      /\ \A i \in 1 .. n - (b + 1) + 1 : SubSeq(s, b + 1, n)[i] = s[b + 1 + i - 1]
  BY <1>3, <1>4, SubSeqProperties
<1>6. n - (b + 1) + 1 = n - b /\ (~(b + 1 <= n) => n - b = 0)
  BY <1>1, <1>2
<1>7. \A i \in 1 .. n - b : b + 1 + i - 1 = b + i
  BY <1>1, <1>2
<1>8. Len(SubSeq(s, b + 1, n)) = n - b
  BY <1>5, <1>6
<1>9. \A i \in 1 .. n - b : SubSeq(s, b + 1, n)[i] = s[b + i]
  BY <1>5, <1>6, <1>7
<1> QED
  BY <1>5, <1>8, <1>9 DEF WindowOf, b

\* One sample more leaves the earlier windows as they were ...
LEMMA WindowStays ==
  ASSUME NEW s \in Seq(PageSizes), NEW x \in PageSizes, NEW n \in 0 .. Len(s)
  PROVE  WindowOf(Append(s, x), n) = WindowOf(s, n)
<1> DEFINE grown == Append(s, x)
           b == Before(n)
<1>1. /\ grown \in Seq(PageSizes) /\ Len(grown) = Len(s) + 1 /\ Len(s) \in Nat
      /\ \A i \in 1 .. Len(s) : grown[i] = s[i]
  BY AppendProperties
<1> HIDE DEF grown
<1>2. n \in 0 .. Len(grown) /\ n \in Nat /\ n <= Len(s)
  BY <1>1
<1>3. b \in Nat /\ b <= n
  BY <1>2, BeforeGrows
<1>4. /\ WindowOf(s, n) \in Seq(PageSizes) /\ Len(WindowOf(s, n)) = n - b
      /\ \A i \in 1 .. n - b : WindowOf(s, n)[i] = s[b + i]
  BY WindowHolds
<1>5. /\ WindowOf(grown, n) \in Seq(PageSizes) /\ Len(WindowOf(grown, n)) = n - b
      /\ \A i \in 1 .. n - b : WindowOf(grown, n)[i] = grown[b + i]
  BY <1>1, <1>2, WindowHolds
<1> HIDE DEF b
<1>6. \A i \in 1 .. n - b : b + i \in 1 .. Len(s)
  BY <1>1, <1>2, <1>3
<1>7. \A i \in 1 .. n - b : WindowOf(grown, n)[i] = WindowOf(s, n)[i]
  BY <1>1, <1>4, <1>5, <1>6
<1>8. WindowOf(grown, n) = WindowOf(s, n)
  BY <1>4, <1>5, <1>7, SeqEqual
<1> QED
  BY <1>8 DEF grown

\* ... and what shifts is the last one.
LEMMA WindowShifts ==
  ASSUME NEW s \in Seq(PageSizes), NEW x \in PageSizes
  PROVE  Shifted(Append(WindowOf(s, Len(s)), x)) = WindowOf(Append(s, x), Len(s) + 1)
<1>1. PICK grown : grown = Append(s, x)
  OBVIOUS
<1>2. PICK n, k : n = Len(s) /\ k = n + 1
  OBVIOUS
<1>3. PICK b, c : b = Before(n) /\ c = Before(k)
  OBVIOUS
<1>4. PICK held, lately : held = WindowOf(s, n) /\ lately = WindowOf(grown, k)
  OBVIOUS
<1>5. PICK all : all = Append(held, x)
  OBVIOUS
<1>6. /\ grown \in Seq(PageSizes) /\ Len(grown) = n + 1 /\ n \in Nat
      /\ grown[n + 1] = x /\ \A i \in 1 .. n : grown[i] = s[i]
  BY <1>1, <1>2, AppendProperties
<1>7. n \in 0 .. Len(s) /\ k \in 0 .. Len(grown) /\ k \in Nat
  BY <1>2, <1>6
<1>8. held \in Seq(PageSizes) /\ Len(held) = n - b /\ \A i \in 1 .. n - b : held[i] = s[b + i]
  BY <1>3, <1>4, <1>7, WindowHolds
<1>9. /\ lately \in Seq(PageSizes) /\ Len(lately) = k - c
      /\ \A i \in 1 .. k - c : lately[i] = grown[c + i]
  BY <1>3, <1>4, <1>6, <1>7, WindowHolds
<1>10. /\ all \in Seq(PageSizes) /\ Len(all) = n - b + 1 /\ all # <<>>
       /\ all[n - b + 1] = x /\ \A i \in 1 .. n - b : all[i] = held[i]
  BY <1>5, <1>8, AppendProperties
<1>11. /\ b \in Nat /\ b <= n /\ c \in Nat /\ c <= n + 1 /\ MAX_SAMPLES \in Nat
       /\ n - b + 1 > MAX_SAMPLES => c = b + 1
       /\ ~(n - b + 1 > MAX_SAMPLES) => c = b
  <2>1. c \in Nat /\ c <= k
    BY <1>3, <1>7, BeforeGrows
  <2>2. /\ b \in Nat /\ b <= n
        /\ n - b + 1 > MAX_SAMPLES => Before(n + 1) = b + 1
        /\ ~(n - b + 1 > MAX_SAMPLES) => Before(n + 1) = b
    BY <1>3, <1>6, BeforeGrows
  <2>3. c = Before(n + 1)
    BY <1>2, <1>3
  <2> QED
    BY <1>2, <2>1, <2>2, <2>3, AwakeAssumption
<1>12. \A i \in 1 .. n - b + 1 : all[i] = grown[b + i]
  <2> TAKE i \in 1 .. n - b + 1
  <2>1. CASE i = n - b + 1
    <3>1. b + i = n + 1
      BY <1>6, <1>11, <2>1
    <3> QED
      BY <1>6, <1>10, <2>1, <3>1
  <2>2. CASE i # n - b + 1
    <3>1. i \in 1 .. n - b /\ b + i \in 1 .. n
      BY <1>6, <1>11, <2>2
    <3> QED
      BY <1>6, <1>8, <1>10, <3>1
  <2> QED
    BY <2>1, <2>2
<1>13. Shifted(all) = lately
  <2>1. CASE n - b + 1 > MAX_SAMPLES
    <3>1. PICK rest : rest = Tail(all)
      OBVIOUS
    <3>2. /\ rest \in Seq(PageSizes) /\ Len(rest) = Len(all) - 1
          /\ \A i \in 1 .. Len(rest) : rest[i] = all[i + 1]
      BY <1>10, <3>1, HeadTailProperties
    <3>3. c = b + 1 /\ Len(rest) = n - b
      BY <1>6, <1>10, <1>11, <2>1, <3>2
    <3>4. Len(rest) = Len(lately)
      BY <1>2, <1>6, <1>9, <1>11, <3>3
    <3>5. \A i \in 1 .. Len(rest) : /\ i + 1 \in 1 .. n - b + 1 /\ i \in 1 .. k - c
                                    /\ b + (i + 1) = c + i
      BY <1>2, <1>6, <1>11, <3>3
    <3>6. \A i \in 1 .. Len(rest) : rest[i] = lately[i]
      BY <1>9, <1>12, <3>2, <3>5
    <3>7. rest = lately
      BY <1>9, <3>2, <3>4, <3>6, SeqEqual
    <3> QED
      BY <1>10, <2>1, <3>1, <3>7 DEF Shifted
  <2>2. CASE ~(n - b + 1 > MAX_SAMPLES)
    <3>1. c = b
      BY <1>11, <2>2
    <3>2. Len(all) = Len(lately)
      BY <1>2, <1>6, <1>9, <1>10, <1>11, <3>1
    <3>3. \A i \in 1 .. Len(all) : i \in 1 .. n - b + 1 /\ i \in 1 .. k - c
      BY <1>2, <1>6, <1>10, <1>11, <3>1
    <3>4. \A i \in 1 .. Len(all) : all[i] = lately[i]
      BY <1>9, <1>12, <3>1, <3>3
    <3>5. all = lately
      BY <1>9, <1>10, <3>2, <3>4, SeqEqual
    <3> QED
      BY <1>10, <2>2, <3>5 DEF Shifted
  <2> QED
    BY <2>1, <2>2
<1> QED
  BY <1>1, <1>2, <1>4, <1>5, <1>13

\* The windows of m told as leaks: the first that grows, if one does.
LeaksTold(told, m) ==
  /\ told = <<>> => \A n \in DOMAIN m : ~IsLeak(WindowOf(m, n))
  /\ told # <<>> =>
       \E n \in DOMAIN m : /\ told = <<WindowOf(m, n)>> /\ IsLeak(WindowOf(m, n))
                           /\ \A k \in 1 .. n - 1 : ~IsLeak(WindowOf(m, k))

\* A sample more is a leak told if it is the first.
LEMMA LeakTold ==
  ASSUME NEW s \in Seq(PageSizes), NEW x \in PageSizes, NEW told, LeaksTold(told, s),
         NEW after,
         LET values == WindowOf(Append(s, x), Len(s) + 1)
         IN  after = IF told = <<>> /\ IsLeak(values) THEN Append(told, values) ELSE told
  PROVE  LeaksTold(after, Append(s, x))
<1> DEFINE grown == Append(s, x)
           values == WindowOf(grown, Len(s) + 1)
<1>1. grown \in Seq(PageSizes) /\ Len(grown) = Len(s) + 1 /\ Len(s) \in Nat
  BY AppendProperties
<1>2. DOMAIN grown = 1 .. Len(s) + 1 /\ DOMAIN s = 1 .. Len(s)
  BY <1>1, LenProperties
<1>3. \A n \in 1 .. Len(s) : WindowOf(grown, n) = WindowOf(s, n)
  <2> TAKE n \in 1 .. Len(s)
  <2>1. n \in 0 .. Len(s)
    BY <1>1
  <2> QED
    BY <2>1, WindowStays
<1>4. \A n \in 1 .. Len(s) + 1 : n \in 1 .. Len(s) \/ n = Len(s) + 1
  BY <1>1
<1>5. Len(s) + 1 \in 1 .. Len(s) + 1 /\ Len(s) + 1 - 1 = Len(s)
  BY <1>1
<1>0. after = IF told = <<>> /\ IsLeak(values) THEN Append(told, values) ELSE told
  OBVIOUS
<1> HIDE DEF grown, values
<1>6. CASE told = <<>> /\ IsLeak(values)
  <2>1. after = <<values>> /\ after # <<>>
    BY <1>0, <1>6
  <2>2. \A k \in 1 .. Len(s) : ~IsLeak(WindowOf(grown, k))
    BY <1>2, <1>3, <1>6 DEF LeaksTold
  <2>3. values = WindowOf(grown, Len(s) + 1)
    BY DEF values
  <2>4. \A k \in 1 .. (Len(s) + 1) - 1 : ~IsLeak(WindowOf(grown, k))
    BY <1>5, <2>2
  <2>5. \E n \in DOMAIN grown : /\ after = <<WindowOf(grown, n)>> /\ IsLeak(WindowOf(grown, n))
                                /\ \A k \in 1 .. n - 1 : ~IsLeak(WindowOf(grown, k))
    BY <1>2, <1>5, <1>6, <2>1, <2>3, <2>4
  <2>6. LeaksTold(after, grown)
    BY <2>1, <2>5 DEF LeaksTold
  <2> QED
    BY <2>6 DEF grown
<1>7. CASE told = <<>> /\ ~IsLeak(values)
  <2>1. after = told
    BY <1>0, <1>7
  <2>2. \A k \in 1 .. Len(s) : ~IsLeak(WindowOf(grown, k))
    BY <1>2, <1>3, <1>7 DEF LeaksTold
  <2>3. ~IsLeak(WindowOf(grown, Len(s) + 1))
    BY <1>7 DEF values
  <2>4. \A k \in DOMAIN grown : ~IsLeak(WindowOf(grown, k))
    BY <1>2, <1>4, <2>2, <2>3
  <2>5. LeaksTold(after, grown)
    BY <1>7, <2>1, <2>4 DEF LeaksTold
  <2> QED
    BY <2>5 DEF grown
<1>8. CASE told # <<>>
  <2>1. after = told
    BY <1>0, <1>8
  <2>2. PICK n \in DOMAIN s : /\ told = <<WindowOf(s, n)>> /\ IsLeak(WindowOf(s, n))
                              /\ \A k \in 1 .. n - 1 : ~IsLeak(WindowOf(s, k))
    BY <1>8 DEF LeaksTold
  <2>3. n \in 1 .. Len(s) /\ n \in DOMAIN grown /\ \A k \in 1 .. n - 1 : k \in 1 .. Len(s)
    BY <1>1, <1>2
  <2>4. /\ told = <<WindowOf(grown, n)>> /\ IsLeak(WindowOf(grown, n))
        /\ \A k \in 1 .. n - 1 : ~IsLeak(WindowOf(grown, k))
    BY <1>3, <2>2, <2>3
  <2>5. LeaksTold(after, grown)
    BY <1>8, <2>1, <2>3, <2>4 DEF LeaksTold
  <2> QED
    BY <2>5 DEF grown
<1> QED
  BY <1>6, <1>7, <1>8

\* The routes that ended and the samples taken for them.
RoutesTold ==
  /\ {ended, popped, sampleTimers} \subseteq Nat
  /\ {routeOpen, settleTimer, leakReported} \subseteq BOOLEAN
  /\ routeOpen = settleTimer
  /\ ended + (IF settleTimer THEN 1 ELSE 0) <= steps /\ popped <= steps
  /\ Len(measured) + sampleTimers = ended + popped
  /\ measured \in Seq(PageSizes) /\ samples = WindowOf(measured, Len(measured))
  /\ leakReported = (leaks # <<>>) /\ LeaksTold(leaks, measured)

\* A navigation puts the end of the route off, the timer ends it.
LEMMA NavigationsTell ==
  ASSUME RoutesTold, steps \in Nat, PushState \/ PopState \/ RouteSettles
  PROVE  RoutesTold'
<1>1. /\ ended \in Nat /\ popped \in Nat /\ Len(measured) \in Nat /\ sampleTimers \in Nat
      /\ settleTimer \in BOOLEAN /\ routeOpen \in BOOLEAN /\ routeOpen = settleTimer
      /\ ended + (IF settleTimer THEN 1 ELSE 0) <= steps /\ popped <= steps
      /\ Len(measured) + sampleTimers = ended + popped
  BY DEF RoutesTold
<1>2. UNCHANGED <<samples, leakReported, leaks, measured>>
  BY DEF PushState, PopState, RouteSettles
<1>3. CASE PushState
  <2>1. /\ steps' = steps + 1 /\ routeOpen' = TRUE /\ settleTimer' = TRUE
        /\ UNCHANGED <<ended, popped, sampleTimers>>
    BY <1>3 DEF PushState, OneStep
  <2>2. ended' + (IF settleTimer' THEN 1 ELSE 0) <= steps' /\ popped' <= steps'
    BY <1>1, <2>1
  <2> QED
    BY <1>1, <1>2, <2>1, <2>2 DEF RoutesTold, LeaksTold
<1>4. CASE PopState
  <2>1. /\ steps' = steps + 1 /\ routeOpen' = TRUE /\ settleTimer' = TRUE
        /\ popped' = popped + 1 /\ sampleTimers' = sampleTimers + 1
        /\ UNCHANGED ended
    BY <1>4 DEF PopState, OneStep
  <2>2. ended' + (IF settleTimer' THEN 1 ELSE 0) <= steps' /\ popped' <= steps'
        /\ Len(measured) + sampleTimers' = ended' + popped' /\ popped' \in Nat /\ sampleTimers' \in Nat
    BY <1>1, <2>1
  <2> QED
    BY <1>1, <1>2, <2>1, <2>2 DEF RoutesTold, LeaksTold
<1>5. CASE RouteSettles
  <2>1. /\ settleTimer /\ steps' = steps /\ routeOpen' = FALSE /\ settleTimer' = FALSE
        /\ ended' = ended + 1 /\ sampleTimers' = sampleTimers + 1
        /\ UNCHANGED popped
    BY <1>1, <1>5 DEF RouteSettles, NoStep
  <2>2. ended' + (IF settleTimer' THEN 1 ELSE 0) <= steps' /\ popped' <= steps'
        /\ Len(measured) + sampleTimers' = ended' + popped' /\ ended' \in Nat /\ sampleTimers' \in Nat
    BY <1>1, <2>1
  <2> QED
    BY <1>1, <1>2, <2>1, <2>2 DEF RoutesTold, LeaksTold
<1> QED
  BY <1>3, <1>4, <1>5

\* A sample, and a leak where it is the first window that grows.
LEMMA HeapSampleTells ==
  ASSUME RoutesTold, steps \in Nat, TakeSample
  PROVE  RoutesTold'
<1>1. /\ ended \in Nat /\ popped \in Nat /\ sampleTimers \in Nat /\ Len(measured) \in Nat
      /\ Len(measured) + sampleTimers = ended + popped /\ measured \in Seq(PageSizes)
      /\ samples = WindowOf(measured, Len(measured))
      /\ leakReported \in BOOLEAN /\ leakReported = (leaks # <<>>) /\ LeaksTold(leaks, measured)
  BY DEF RoutesTold
<1>2. PICK size \in PageSizes :
        LET values == Shifted(Append(samples, size)) IN
        /\ samples' = values /\ measured' = Append(measured, size)
        /\ IF ~leakReported /\ IsLeak(values)
           THEN leakReported' = TRUE /\ leaks' = Append(leaks, values)
           ELSE UNCHANGED <<leakReported, leaks>>
  BY DEF TakeSample
<1> DEFINE values == WindowOf(Append(measured, size), Len(measured) + 1)
<1>3. Shifted(Append(samples, size)) = values
  BY <1>1, WindowShifts
<1>4. /\ measured' = Append(measured, size) /\ samples' = values
      /\ IF ~leakReported /\ IsLeak(values)
         THEN leakReported' = TRUE /\ leaks' = Append(leaks, values)
         ELSE UNCHANGED <<leakReported, leaks>>
  BY <1>2, <1>3
<1>5. measured' \in Seq(PageSizes) /\ Len(measured') = Len(measured) + 1
  BY <1>1, <1>4, AppendProperties
<1>6. samples' = WindowOf(measured', Len(measured'))
  BY <1>4, <1>5
<1> HIDE DEF values
<1>7. leaks' = IF leaks = <<>> /\ IsLeak(values) THEN Append(leaks, values) ELSE leaks
  BY <1>1, <1>4
<1>8. LeaksTold(leaks', measured')
  <2>1. leaks' = IF leaks = <<>> /\ IsLeak(WindowOf(Append(measured, size), Len(measured) + 1))
                 THEN Append(leaks, WindowOf(Append(measured, size), Len(measured) + 1)) ELSE leaks
    BY <1>7 DEF values
  <2>2. LeaksTold(leaks', Append(measured, size))
    BY <1>1, <2>1, LeakTold
  <2> QED
    BY <1>4, <2>2
<1>9. leakReported' \in BOOLEAN /\ leakReported' = (leaks' # <<>>)
  <2>1. CASE ~leakReported /\ IsLeak(values)
    <3>1. leaks = <<>> /\ leakReported' = TRUE /\ leaks' = Append(leaks, values)
      BY <1>1, <1>4, <2>1
    <3>2. leaks' = <<values>>
      BY <3>1
    <3>3. leaks' # <<>>
      BY <3>2
    <3> QED
      BY <3>1, <3>3
  <2>2. CASE ~(~leakReported /\ IsLeak(values))
    BY <1>1, <1>4, <2>2
  <2> QED
    BY <2>1, <2>2
<1>10. /\ sampleTimers' = sampleTimers - 1 /\ sampleTimers > 0
       /\ steps' = steps /\ UNCHANGED <<routeOpen, settleTimer, ended, popped>>
  BY DEF TakeSample, NoStep
<1>11. sampleTimers' \in Nat /\ Len(measured') + sampleTimers' = ended' + popped'
  BY <1>1, <1>5, <1>10
<1>12. LeaksTold(leaks, measured)'
  BY <1>8 DEF LeaksTold
<1> QED
  BY <1>5, <1>6, <1>9, <1>10, <1>11, <1>12 DEF RoutesTold, WindowOf, Before

\* A route ends once, and a leak is told once.
LEMMA RoutesEndTold == RoutesTold /\ steps \in Nat => RoutesEnd
<1> SUFFICES ASSUME RoutesTold, steps \in Nat PROVE RoutesEnd
  OBVIOUS
<1>1. ended \in Nat /\ settleTimer \in BOOLEAN /\ ended + (IF settleTimer THEN 1 ELSE 0) <= steps
  BY DEF RoutesTold
<1>2. ended <= steps
  BY <1>1
<1>3. \A n : Window(n) = WindowOf(measured, n)
  BY DEF Window, WindowOf, Before
<1>4. /\ routeOpen = settleTimer /\ Len(measured) + sampleTimers = ended + popped
      /\ leakReported = (leaks # <<>>) /\ LeaksTold(leaks, measured)
  BY DEF RoutesTold
<1> QED
  BY <1>2, <1>3, <1>4 DEF LeaksTold, RoutesEnd

\* The time of loads is told, held or was too little.
LoadsTold ==
  /\ {totals, loadTime, toldImpact, tooSmall} \subseteq [Hosts -> Nat]
  /\ ImpactToldOnce

\* A load adds to the total and to the time of its host.
LEMMA LoadTells ==
  ASSUME LoadsTold, NEW h \in Hosts, Load(h)
  PROVE  LoadsTold'
<1>1. PICK d \in 1 .. MaxLoad : /\ totals' = [totals EXCEPT ![h] = totals[h] + d]
                                /\ loadTime' = [loadTime EXCEPT ![h] = loadTime[h] + d]
  BY DEF Load
<1>2. /\ toldImpact' = toldImpact /\ tooSmall' = tooSmall /\ d \in Nat
      /\ totals \in [Hosts -> Nat] /\ loadTime \in [Hosts -> Nat]
      /\ toldImpact \in [Hosts -> Nat] /\ tooSmall \in [Hosts -> Nat]
  BY AwakeAssumption DEF Load, LoadsTold
<1>3. /\ totals' \in [Hosts -> Nat] /\ loadTime' \in [Hosts -> Nat]
      /\ \A g \in Hosts : g # h => totals'[g] = totals[g] /\ loadTime'[g] = loadTime[g]
      /\ totals'[h] = totals[h] + d /\ loadTime'[h] = loadTime[h] + d
  BY <1>1, <1>2
<1>4. ASSUME NEW g \in Hosts
      PROVE  /\ toldImpact'[g] + totals'[g] <= loadTime'[g]
             /\ loadTime'[g] - toldImpact'[g] - totals'[g] <= tooSmall'[g] * (MinImpact - 1)
  <2> DEFINE bound == tooSmall[g] * (MinImpact - 1)
  <2>1. /\ toldImpact[g] + totals[g] <= loadTime[g]
        /\ loadTime[g] - toldImpact[g] - totals[g] <= bound
    BY DEF LoadsTold, ImpactToldOnce
  <2>2. bound \in Int
    BY <1>2, AwakeAssumption
  <2>3. totals[g] \in Nat /\ loadTime[g] \in Nat /\ toldImpact[g] \in Nat
    BY <1>2
  <2> HIDE DEF bound
  <2>4. CASE g = h
    <3>1. /\ toldImpact[g] + (totals[g] + d) <= loadTime[g] + d
          /\ loadTime[g] + d - toldImpact[g] - (totals[g] + d) <= bound
      BY <1>2, <2>1, <2>2, <2>3
    <3> QED
      BY <1>2, <1>3, <2>4, <3>1 DEF bound
  <2>5. CASE g # h
    BY <1>2, <1>3, <2>1, <2>5 DEF bound
  <2> QED
    BY <2>4, <2>5
<1> QED
  BY <1>2, <1>3, <1>4 DEF LoadsTold, ImpactToldOnce

\* A flush tells what is worth telling and forgets the rest.
LEMMA FlushTells ==
  ASSUME LoadsTold, FlushThirdParty
  PROVE  LoadsTold'
<1>1. /\ totals \in [Hosts -> Nat] /\ loadTime \in [Hosts -> Nat]
      /\ toldImpact \in [Hosts -> Nat] /\ tooSmall \in [Hosts -> Nat]
      /\ MinImpact \in Nat /\ MinImpact > 0
  BY AwakeAssumption DEF LoadsTold
<1>2. /\ toldImpact' = [h \in Hosts |-> toldImpact[h] + IF totals[h] >= MinImpact THEN totals[h] ELSE 0]
      /\ tooSmall' = [h \in Hosts |-> IF totals[h] \in 1 .. MinImpact - 1 THEN tooSmall[h] + 1 ELSE tooSmall[h]]
      /\ totals' = [h \in Hosts |-> 0] /\ loadTime' = loadTime
  BY DEF FlushThirdParty
<1>3. totals' \in [Hosts -> Nat] /\ loadTime' \in [Hosts -> Nat] /\ toldImpact' \in [Hosts -> Nat]
      /\ tooSmall' \in [Hosts -> Nat]
  BY <1>1, <1>2
<1>4. ASSUME NEW h \in Hosts
      PROVE  /\ toldImpact'[h] + totals'[h] <= loadTime'[h]
             /\ loadTime'[h] - toldImpact'[h] - totals'[h] <= tooSmall'[h] * (MinImpact - 1)
  <2> DEFINE a == toldImpact[h]
             b == totals[h]
             c == loadTime[h]
             k == tooSmall[h]
             m == MinImpact - 1
  <2>1. a \in Nat /\ b \in Nat /\ c \in Nat /\ k \in Nat /\ m \in Nat
    BY <1>1
  <2>2. a + b <= c /\ c - a - b <= k * m
    BY DEF LoadsTold, ImpactToldOnce
  <2>3. /\ toldImpact'[h] = a + (IF b >= m + 1 THEN b ELSE 0) /\ totals'[h] = 0 /\ loadTime'[h] = c
        /\ tooSmall'[h] = IF b \in 1 .. m THEN k + 1 ELSE k
    <3>1. MinImpact = m + 1
      BY <1>1
    <3> QED
      BY <1>2, <3>1
  <2> HIDE DEF a, b, c, k, m
  <2>4. CASE b >= m + 1
    <3>1. toldImpact'[h] = a + b /\ tooSmall'[h] = k
      BY <2>1, <2>3, <2>4
    <3>2. a + b + 0 <= c /\ c - (a + b) - 0 <= k * m
      BY <2>1, <2>2
    <3> QED
      BY <2>3, <3>1, <3>2 DEF m
  <2>5. CASE b \in 1 .. m
    <3>1. toldImpact'[h] = a /\ tooSmall'[h] = k + 1
      BY <2>1, <2>3, <2>5
    <3>2. (k + 1) * m = k * m + m /\ k * m \in Nat
      BY <2>1
    <3> DEFINE p == k * m
    <3> HIDE DEF p
    <3>3. a + 0 <= c /\ c - a - 0 <= p + m
      <4>1. c - a - b <= p /\ p \in Nat /\ b <= m
        BY <2>1, <2>2, <2>5, <3>2 DEF p
      <4> QED
        BY <2>1, <2>2, <4>1
    <3>4. c - a - 0 <= (k + 1) * m
      BY <3>2, <3>3 DEF p
    <3> QED
      BY <2>3, <3>1, <3>3, <3>4 DEF m
  <2>6. CASE b = 0
    <3>1. toldImpact'[h] = a /\ tooSmall'[h] = k
      BY <2>1, <2>3, <2>6
    <3>2. a + 0 <= c /\ c - a - 0 <= k * m
      BY <2>1, <2>2, <2>6
    <3> QED
      BY <2>3, <3>1, <3>2 DEF m
  <2> QED
    BY <2>1, <2>4, <2>5, <2>6
<1> QED
  BY <1>3, <1>4 DEF LoadsTold, ImpactToldOnce

\* A page that is awake: clicks, routes and loads, each in its section.
AwakeTold ==
  /\ section \in {"clicks", "routes", "loads"} /\ now \in Nat /\ now > RageQuiet /\ steps \in 0 .. MaxSteps
  /\ watching \in BOOLEAN
  /\ ClicksTold /\ ChecksTold /\ RoutesTold /\ LoadsTold

\* Nothing has happened on the page yet.
LEMMA AwakeTellsNothing == AwakeInit => AwakeTold
<1> SUFFICES ASSUME AwakeInit PROVE AwakeTold
  OBVIOUS
<1>1. RageQuiet \in Nat /\ MaxSteps \in Nat /\ KEPT_CLICKS \in Nat /\ KEPT_CLICKS > 0 /\ MAX_SAMPLES \in Nat
  BY AwakeAssumption
<1>2. <<>> \in Seq(MadeClicks) /\ <<>> \in Seq(Nat) /\ Len(<<>>) = 0 /\ DOMAIN <<>> = {} /\ Range(<<>>) = {}
  <2>1. <<>> \in Seq(MadeClicks) /\ <<>> \in Seq(Nat) /\ Len(<<>>) = 0 /\ DOMAIN <<>> = {}
    BY EmptySeq
  <2> QED
    BY <2>1 DEF Range
<1>3. /\ now = RageQuiet + 1 /\ steps = 0 /\ section \in {"clicks", "routes", "loads"} /\ watching \in BOOLEAN
      /\ now \in Nat /\ now > RageQuiet /\ steps \in 0 .. MaxSteps
  BY <1>1 DEF AwakeInit
<1>4. ClicksTold
  <2>1. recentClicks = <<>> /\ clicked = <<>> /\ rages = <<>> /\ lastRageTs = 0
    BY DEF AwakeInit
  <2>2. LastKept(<<>>, <<>>)
    BY <1>1, <1>2 DEF LastKept
  <2>3. RageReports(<<>>, <<>>, 0)
    BY <1>2 DEF RageReports
  <2> QED
    BY <1>2, <1>3, <2>1, <2>2, <2>3 DEF ClicksTold
<1>5. ChecksTold
  BY <1>3 DEF AwakeInit, ChecksTold
<1>6. RoutesTold
  <2>1. /\ routeOpen = FALSE /\ settleTimer = FALSE /\ sampleTimers = 0 /\ samples = <<>>
        /\ leakReported = FALSE /\ ended = 0 /\ popped = 0 /\ measured = <<>> /\ leaks = <<>>
    BY DEF AwakeInit
  <2> QED
    <3>1. measured \in Seq(PageSizes) /\ Len(measured) = 0 /\ DOMAIN measured = {}
      BY <2>1, EmptySeq
    <3>2. /\ ended + (IF settleTimer THEN 1 ELSE 0) <= steps /\ popped <= steps
          /\ Len(measured) + sampleTimers = ended + popped
      BY <1>3, <2>1, <3>1
    <3>3. samples = WindowOf(measured, Len(measured))
      <4>1. Before(0) + 1 = 1
        BY AwakeAssumption DEF Before
      <4>2. SubSeq(measured, 1, 0) = <<>>
        BY SubSeqEmpty
      <4> QED
        BY <2>1, <3>1, <4>1, <4>2 DEF WindowOf
    <3>4. leakReported = (leaks # <<>>) /\ LeaksTold(leaks, measured)
      BY <2>1, <3>1 DEF LeaksTold
    <3>5. {ended, popped, sampleTimers} \subseteq Nat
      BY <2>1
    <3>6. {routeOpen, settleTimer, leakReported} \subseteq BOOLEAN /\ routeOpen = settleTimer
      BY <2>1, Zenon
    <3> QED
      BY <3>1, <3>2, <3>3, <3>4, <3>5, <3>6 DEF RoutesTold
<1>7. LoadsTold
  <2>1. /\ totals = [h \in Hosts |-> 0] /\ loadTime = [h \in Hosts |-> 0]
        /\ toldImpact = [h \in Hosts |-> 0] /\ tooSmall = [h \in Hosts |-> 0]
    BY DEF AwakeInit
  <2>2. 0 - 0 - 0 <= 0 * (MinImpact - 1)
    BY AwakeAssumption
  <2> QED
    BY <2>1, <2>2 DEF LoadsTold, ImpactToldOnce
<1> QED
  BY <1>3, <1>4, <1>5, <1>6, <1>7 DEF AwakeTold

\* In the steps of the others the clicks rest ...
LEMMA ClicksRest ==
  ASSUME ClicksTold, UNCHANGED <<section, clickVars>>, section = "clicks" => steps' = steps,
         now \in Nat, now' \in Nat, now' >= now
  PROVE  ClicksTold'
<1>1. UNCHANGED <<recentClicks, lastRageTs, clicked, rages>>
  BY DEF clickVars
<1>2. \A k \in DOMAIN clicked : clicked[k].n = k /\ clicked[k].ts <= now'
  <2> TAKE k \in DOMAIN clicked
  <2>1. clicked[k] \in MadeClicks /\ clicked[k].n = k /\ clicked[k].ts <= now
    BY ElementOfSeq DEF ClicksTold
  <2> QED
    BY <2>1 DEF MadeClicks
<1> QED
  BY <1>1, <1>2 DEF ClicksTold

\* ... the checks ...
LEMMA ChecksRest ==
  ASSUME ChecksTold, UNCHANGED <<changed, lastMutationTs, pendingChecks, deadReports>>,
         now \in Nat, now' \in Nat, now' >= now
  PROVE  ChecksTold'
<1>1. \A c \in pendingChecks : CheckSays(c, now')
  <2> TAKE c \in pendingChecks
  <2>1. CheckSays(c, now)
    BY DEF ChecksTold
  <2>2. c.ts \in Nat /\ c.ts <= now
    BY <2>1 DEF CheckSays
  <2>3. c.ts <= now'
    BY <2>2
  <2> QED
    BY <2>1, <2>3 DEF CheckSays
<1>2. \A c \in pendingChecks' : CheckSays(c, now)'
  BY <1>1 DEF CheckSays
<1>3. \A r \in deadReports' : r.at \in Nat /\ r.at <= now' /\ DeadReported(r)'
  <2> TAKE r \in deadReports'
  <2>1. r.at \in Nat /\ r.at <= now /\ DeadReported(r)
    BY DEF ChecksTold
  <2> QED
    BY <2>1 DEF DeadReported
<1>4. lastMutationTs <= now'
  BY DEF ChecksTold
<1> QED
  BY <1>2, <1>3, <1>4 DEF ChecksTold

\* ... the routes ...
LEMMA RoutesRest ==
  ASSUME RoutesTold, UNCHANGED routeVars, steps \in Nat, steps' \in Nat, steps' >= steps
  PROVE  RoutesTold'
<1>1. UNCHANGED <<routeOpen, settleTimer, sampleTimers, samples, leakReported, ended, popped, measured, leaks>>
  BY DEF routeVars
<1>2. ended \in Nat /\ popped \in Nat /\ ended + (IF settleTimer THEN 1 ELSE 0) <= steps /\ popped <= steps
      /\ settleTimer \in BOOLEAN
  BY DEF RoutesTold
<1>3. ended + (IF settleTimer THEN 1 ELSE 0) <= steps' /\ popped <= steps'
  BY <1>2
<1> QED
  BY <1>1, <1>3 DEF RoutesTold, LeaksTold, WindowOf, Before

\* ... and the loads.
LEMMA LoadsRest ==
  ASSUME LoadsTold, UNCHANGED loadVars
  PROVE  LoadsTold'
BY DEF LoadsTold, ImpactToldOnce, loadVars

\* Every step of an awake page keeps what is told.
LEMMA AwakeTells == AwakeTold /\ AwakeNext => AwakeTold'
<1> SUFFICES ASSUME AwakeTold, AwakeNext PROVE AwakeTold'
  OBVIOUS
<1>1. /\ section \in {"clicks", "routes", "loads"} /\ now \in Nat /\ now > RageQuiet /\ steps \in 0 .. MaxSteps
      /\ steps \in Nat /\ watching \in BOOLEAN /\ MaxSteps \in Nat /\ RageQuiet \in Nat /\ now > 0
      /\ ClicksTold /\ ChecksTold /\ RoutesTold /\ LoadsTold
  BY AwakeAssumption DEF AwakeTold
<1>2. ASSUME OneStep
      PROVE  /\ steps' \in 0 .. MaxSteps /\ steps' \in Nat /\ steps' >= steps /\ section' = section /\ now' = now
             /\ now' \in Nat /\ now' >= now
  BY <1>1, <1>2 DEF OneStep
<1>3. ASSUME NoStep
      PROVE  /\ steps' = steps /\ steps' >= steps /\ section' = section /\ now' = now
             /\ steps' \in 0 .. MaxSteps /\ steps' \in Nat /\ now' \in Nat /\ now' >= now
  BY <1>1, <1>3 DEF NoStep
<1>4. CASE section = "clicks" /\ Tick
  <2>1. /\ now' = now + 1 /\ UNCHANGED <<section, steps, clickVars, routeVars, loadVars>>
        /\ UNCHANGED <<changed, lastMutationTs, pendingChecks, deadReports, watching>>
    BY <1>4 DEF Tick, clickVars
  <2>2. now' \in Nat /\ now' >= now /\ now' > RageQuiet /\ steps' >= steps
    BY <1>1, <2>1
  <2> QED
    BY <1>1, <2>1, <2>2, ClicksRest, ChecksRest, RoutesRest, LoadsRest DEF AwakeTold
<1>5. CASE \E place \in Spots, interactive \in BOOLEAN : Click(place, interactive)
  <2>1. PICK place \in Spots, interactive \in BOOLEAN : Click(place, interactive)
    BY <1>5
  <2>2. OneStep /\ UNCHANGED <<watching, routeVars, loadVars>>
    BY <2>1 DEF Click
  <2>3. ClicksTold'
    BY <1>1, <2>1, ClickTells
  <2>4. ChecksTold'
    BY <1>1, <2>1, ChecksAfterClick
  <2> QED
    BY <1>1, <1>2, <2>2, <2>3, <2>4, RoutesRest, LoadsRest DEF AwakeTold
<1>6. CASE PageChanges
  <2>1. NoStep /\ UNCHANGED <<watching, recentClicks, lastRageTs, clicked, rages, routeVars, loadVars>>
    BY <1>6 DEF PageChanges
  <2>2. ClicksTold'
    BY <1>1, <1>3, <2>1 DEF ClicksTold
  <2>3. ChecksTold'
    BY <1>1, <1>6, ChecksAfterChange
  <2> QED
    BY <1>1, <1>3, <2>1, <2>2, <2>3, RoutesRest, LoadsRest DEF AwakeTold
<1>7. CASE \E check \in pendingChecks : DeadTimer(check)
  <2>1. PICK check \in pendingChecks : DeadTimer(check)
    BY <1>7
  <2>2. NoStep /\ UNCHANGED <<watching, recentClicks, lastRageTs, clicked, rages, routeVars, loadVars>>
    BY <2>1 DEF DeadTimer
  <2>3. ClicksTold'
    BY <1>1, <1>3, <2>2 DEF ClicksTold
  <2>4. ChecksTold'
    BY <1>1, <2>1, ChecksAfterTimer
  <2> QED
    BY <1>1, <1>3, <2>2, <2>3, <2>4, RoutesRest, LoadsRest DEF AwakeTold
<1>8. CASE HidePage
  <2>1. /\ NoStep /\ watching' = FALSE
        /\ UNCHANGED <<recentClicks, lastRageTs, pendingChecks, lastMutationTs, clicked, changed, rages,
                       deadReports, routeVars, loadVars>>
    BY <1>8 DEF HidePage
  <2>2. ClicksTold'
    BY <1>1, <1>3, <2>1 DEF ClicksTold
  <2>3. ChecksTold'
    BY <1>1, <1>3, <2>1, ChecksRest
  <2> QED
    BY <1>1, <1>3, <2>1, <2>2, <2>3, RoutesRest, LoadsRest DEF AwakeTold
<1>9. CASE PushState \/ PopState \/ RouteSettles \/ TakeSample
  <2>1. section = "routes" /\ (OneStep \/ NoStep) /\ UNCHANGED <<clickVars, loadVars>>
    BY <1>9 DEF PushState, PopState, RouteSettles, TakeSample
  <2>2. UNCHANGED <<changed, lastMutationTs, pendingChecks, deadReports, watching>>
    BY <2>1 DEF clickVars
  <2>3. RoutesTold'
    BY <1>1, <1>9, NavigationsTell, HeapSampleTells
  <2>4. /\ steps' \in 0 .. MaxSteps /\ section' = section /\ now' = now /\ now' \in Nat /\ now' >= now
    BY <1>2, <1>3, <2>1
  <2>5. section # "clicks"
    BY <2>1
  <2>6. ClicksTold'
    BY <1>1, <2>1, <2>4, <2>5, ClicksRest
  <2>7. ChecksTold'
    BY <1>1, <2>2, <2>4, ChecksRest
  <2>8. LoadsTold'
    BY <1>1, <2>1, LoadsRest
  <2> QED
    BY <1>1, <2>2, <2>3, <2>4, <2>6, <2>7, <2>8 DEF AwakeTold
<1>10. CASE (\E h \in Hosts : Load(h)) \/ FlushThirdParty
  <2>1. section = "loads" /\ (OneStep \/ NoStep) /\ UNCHANGED <<clickVars, routeVars>>
    BY <1>10 DEF Load, FlushThirdParty
  <2>2. UNCHANGED <<changed, lastMutationTs, pendingChecks, deadReports, watching>>
    BY <2>1 DEF clickVars
  <2>3. LoadsTold'
    BY <1>1, <1>10, LoadTells, FlushTells
  <2>4. /\ steps' \in 0 .. MaxSteps /\ steps' \in Nat /\ steps' >= steps
        /\ section' = section /\ now' = now /\ now' \in Nat /\ now' >= now
    BY <1>2, <1>3, <2>1
  <2>5. section # "clicks"
    BY <2>1
  <2>6. ClicksTold'
    BY <1>1, <2>1, <2>4, <2>5, ClicksRest
  <2>7. ChecksTold'
    BY <1>1, <2>2, <2>4, ChecksRest
  <2>8. RoutesTold'
    BY <1>1, <2>1, <2>4, RoutesRest
  <2> QED
    BY <1>1, <2>2, <2>3, <2>4, <2>6, <2>7, <2>8 DEF AwakeTold
<1> QED
  BY <1>4, <1>5, <1>6, <1>7, <1>8, <1>9, <1>10 DEF AwakeNext

\* The detectors tell once, and are of their types.
LEMMA DetectorsTold == AwakeTold => AwakeTypeOK /\ DetectorsTellOnce
<1> SUFFICES ASSUME AwakeTold PROVE AwakeTypeOK /\ DetectorsTellOnce
  OBVIOUS
<1>1. RageToldOnce /\ DeadClicksAreDead /\ ImpactToldOnce
  BY RageReportsTold, DeadReportsTold DEF AwakeTold, LoadsTold
<1>2. steps \in Nat /\ MaxSteps \in Nat /\ steps <= MaxSteps
  BY AwakeAssumption DEF AwakeTold
<1>3. RoutesEnd
  BY <1>2, RoutesEndTold DEF AwakeTold
<1>4. Len(recentClicks) <= KEPT_CLICKS
  <2>1. Len(clicked) \in Nat /\ KEPT_CLICKS \in Nat
    BY AwakeAssumption, LenProperties DEF AwakeTold, ClicksTold
  <2>2. Len(recentClicks) = IF Len(clicked) > KEPT_CLICKS THEN KEPT_CLICKS ELSE Len(clicked)
    BY DEF AwakeTold, ClicksTold, LastKept
  <2> QED
    BY <2>1, <2>2
<1>5. lastRageTs \in 0 .. now
  <2>1. RageReports(rages, clicked, lastRageTs) /\ now \in Nat
    BY DEF AwakeTold, ClicksTold
  <2>2. CASE rages = <<>>
    BY <2>1, <2>2 DEF RageReports
  <2>3. CASE rages # <<>>
    <3>1. Len(rages) \in DOMAIN rages /\ lastRageTs = rages[Len(rages)].ts /\ lastRageTs \in Nat
      BY <2>1, <2>3, EmptySeq, LenProperties DEF RageReports
    <3>2. PICK k \in DOMAIN clicked : clicked[k] = rages[Len(rages)]
      BY <2>1, <3>1 DEF RageReports
    <3>3. lastRageTs <= now
      BY <3>1, <3>2 DEF AwakeTold, ClicksTold
    <3> QED
      BY <2>1, <3>1, <3>3
  <2> QED
    BY <2>2, <2>3
<1>6. lastMutationTs \in 0 .. now /\ now \in Nat
  BY DEF AwakeTold, ChecksTold
<1>7. sampleTimers \in 0 .. 2 * MaxSteps
  <2>1. ended \in Nat /\ popped \in Nat /\ Len(measured) \in Nat /\ sampleTimers \in Nat
        /\ popped <= steps /\ Len(measured) + sampleTimers = ended + popped
    BY DEF AwakeTold, RoutesTold
  <2>2. ended <= steps
    BY <1>3 DEF RoutesEnd
  <2> QED
    BY <1>2, <2>1, <2>2
<1>8. Len(samples) <= MAX_SAMPLES
  <2>1. measured \in Seq(PageSizes) /\ samples = WindowOf(measured, Len(measured))
    BY DEF AwakeTold, RoutesTold
  <2>2. Len(measured) \in Nat /\ Len(measured) \in 0 .. Len(measured)
    BY <2>1
  <2>3. Len(samples) = Len(measured) - Before(Len(measured))
    BY <2>1, <2>2, WindowHolds
  <2> QED
    BY <2>2, <2>3, BeforeGrows
<1>9. AwakeTypeOK
  BY <1>2, <1>4, <1>5, <1>6, <1>7, <1>8 DEF AwakeTold, RoutesTold, AwakeTypeOK
<1> QED
  BY <1>1, <1>3, <1>9 DEF DetectorsTellOnce

-----------------------------------------------------------------------------
(* The parts together *)

\* What is so of each part at any time.
IInv ==
  /\ HookInv /\ SessionInv /\ PyInv /\ SamplerInv /\ FleetInv /\ TraceInv
  /\ ScopesInv /\ CacheInv /\ ClientInv /\ AgentInv

\* What each part has told by now, and the types it tells it in.
Told ==
  /\ HookTold /\ SessionTypeOK /\ PyTold /\ SamplerTold /\ FleetTold /\ TraceTypeOK
  /\ CrumbsTold /\ RecorderTold /\ ClientTold /\ AwakeTold

LEMMA InvariantHolds == Init => IInv
  BY HookStarts, SessionStarts, PyStarts, SamplerStarts, FleetStarts, TraceStarts,
     ScopesStart, CacheStarts, ClientStarts, AgentStarts
     DEF Init, IInv

LEMMA NothingToldYet == Init => Told
  BY HookTellsNothing, SessionTyped, PyTellsNothing, SamplerTellsNothing, FleetTellsNothing, TraceTyped,
     CrumbsTellNothing, RecorderTellsNothing, ClientTellsNothing, AwakeTellsNothing
     DEF Init, Told

\* Each part's invariant reads its own state only.
LEMMA PartsAtRest ==
  /\ HookInv /\ UNCHANGED hookVars => HookInv'
  /\ SessionInv /\ UNCHANGED sessionVars => SessionInv'
  /\ PyInv /\ UNCHANGED pyVars => PyInv'
  /\ SamplerInv /\ UNCHANGED samplerVars => SamplerInv'
  /\ FleetInv /\ UNCHANGED fleetVars => FleetInv'
  /\ TraceInv /\ UNCHANGED traceVars => TraceInv'
<1>1. HookInv /\ UNCHANGED hookVars => HookInv'
  BY DEF HookInv, Installing, hookVars
<1>2. SessionInv /\ UNCHANGED sessionVars => SessionInv'
  BY DEF SessionInv, OrphanExplained, sessionVars
<1>3. PyInv /\ UNCHANGED pyVars => PyInv'
  BY DEF PyInv, TracingExplained, pyVars, threadVars
<1>4. SamplerInv /\ UNCHANGED samplerVars => SamplerInv'
  BY DEF SamplerInv, SamplerOwnsItsProbes, samplerVars
<1>5. FleetInv /\ UNCHANGED fleetVars => FleetInv'
  BY DEF FleetInv, UnderWay, fleetVars
<1>6. TraceInv /\ UNCHANGED traceVars => TraceInv'
  BY DEF TraceInv, TraceTypes, OneReader, OneCookie, OwnStorage, traceVars
<1> QED
  BY <1>1, <1>2, <1>3, <1>4, <1>5, <1>6

\* So does what each part has told.
LEMMA ToldAtRest ==
  /\ HookTold /\ UNCHANGED hookVars => HookTold'
  /\ SessionTypeOK /\ UNCHANGED sessionVars => SessionTypeOK'
  /\ PyTold /\ UNCHANGED pyVars => PyTold'
  /\ SamplerTold /\ UNCHANGED samplerVars => SamplerTold'
  /\ FleetTold /\ UNCHANGED fleetVars => FleetTold'
  /\ TraceTypeOK /\ UNCHANGED traceVars => TraceTypeOK'
<1>1. HookTold /\ UNCHANGED hookVars => HookTold'
  BY DEF HookTold, HookTypeOK, hookVars
<1>2. SessionTypeOK /\ UNCHANGED sessionVars => SessionTypeOK'
  BY DEF SessionTypeOK, sessionVars
<1>3. PyTold /\ UNCHANGED pyVars => PyTold'
  BY DEF PyTold, PyTypeOK, Alive, pyVars, threadVars
<1>4. SamplerTold /\ UNCHANGED samplerVars => SamplerTold'
  BY DEF SamplerTold, SamplerTypeOK, PlaceInRing, Signalled, Nth, samplerVars
<1>5. FleetTold /\ UNCHANGED fleetVars => FleetTold'
  BY DEF FleetTold, FleetTypeOK, fleetVars
<1>6. TraceTypeOK /\ UNCHANGED traceVars => TraceTypeOK'
  BY DEF TraceTypeOK, traceVars
<1> QED
  BY <1>1, <1>2, <1>3, <1>4, <1>5, <1>6

LEMMA CrumbsRest == CrumbsTold /\ UNCHANGED crumbVars => CrumbsTold'
  BY DEF CrumbsTold, CrumbsTypeOK, EndOf, crumbVars

LEMMA RecorderRests == RecorderTold /\ UNCHANGED recorderVars => RecorderTold'
<1> SUFFICES ASSUME RecorderTold, UNCHANGED recorderVars PROVE RecorderTold'
  OBVIOUS
<1>1. Recorders' = Recorders
  BY DEF Recorders, recorderVars
<1>2. RecorderTypeOK'
  BY DEF RecorderTold, RecorderTypeOK, recorderVars
<1>3. RecordKept(sessionBuffer, happened, Len(happened))'
  BY DEF RecorderTold, RecordKept, InTime, InStep, NoneMissing, recorderVars
<1> QED
  BY <1>1, <1>2, <1>3 DEF RecorderTold, recorderVars

LEMMA ClientToldRests == ClientTold /\ UNCHANGED clientVars => ClientTold'
<1> SUFFICES ASSUME ClientTold, UNCHANGED clientVars PROVE ClientTold'
  OBVIOUS
<1>1. UNCHANGED <<setup, initVars, installed, call, events>> /\ UNCHANGED <<setup, inForce, installed>>
      /\ UNCHANGED <<program, initPc, markers, lastRelease>>
  BY DEF clientVars, setup, initVars
<1>2. CallTold(call', Len(events'))
  BY <1>1 DEF ClientTold
<1>3. CallTold(call, Len(events))'
  BY <1>1, <1>2, CallRests
<1>4. Announced' = Announced /\ \A i : ReleaseOf(i)' = ReleaseOf(i)
  BY <1>1 DEF Announced, ReleaseOf
<1>5. DeployTold'
  BY <1>1, <1>4 DEF ClientTold, DeployTold, ReleasesTold
<1> QED
  BY <1>1, <1>3, <1>5 DEF ClientTold

LEMMA AwakeRests == AwakeTold /\ UNCHANGED awakeVars => AwakeTold'
<1> SUFFICES ASSUME AwakeTold, UNCHANGED awakeVars PROVE AwakeTold'
  OBVIOUS
<1>1. UNCHANGED <<section, now, steps, clickVars, routeVars, loadVars>>
      /\ UNCHANGED <<changed, lastMutationTs, pendingChecks, deadReports, watching>>
  BY DEF awakeVars, clickVars
<1>2. now \in Nat /\ steps \in Nat /\ now' >= now /\ steps' >= steps /\ now' \in Nat /\ steps' \in Nat
  BY <1>1 DEF AwakeTold
<1>3. ClicksTold' /\ ChecksTold'
  BY <1>1, <1>2, ClicksRest, ChecksRest DEF AwakeTold
<1>4. RoutesTold' /\ LoadsTold'
  BY <1>1, <1>2, RoutesRest, LoadsRest DEF AwakeTold
<1> QED
  BY <1>1, <1>3, <1>4 DEF AwakeTold

\* In a step every part takes a step of its own or rests.
LEMMA EachSteps ==
  [Next]_vars =>
    /\ HookNext \/ UNCHANGED hookVars
    /\ SessionNext \/ UNCHANGED sessionVars
    /\ PyNext \/ UNCHANGED pyVars
    /\ CacheNext \/ UNCHANGED cacheVars
    /\ ScopesNext \/ UNCHANGED scopeVars
    /\ SamplerNext \/ UNCHANGED samplerVars
    /\ FleetNext \/ UNCHANGED fleetVars
    /\ TraceNext \/ UNCHANGED traceVars
    /\ ClientNext \/ UNCHANGED clientVars
    /\ AgentNext \/ UNCHANGED agentVars
    /\ CrumbsNext \/ UNCHANGED crumbVars
    /\ RecorderNext \/ UNCHANGED recorderVars
    /\ AwakeNext \/ UNCHANGED awakeVars
    /\ part' = part
  BY Zenon DEF Next, vars, hooks, rings, apps

LEMMA InvariantKept == IInv /\ [Next]_vars => IInv'
<1> SUFFICES ASSUME IInv, [Next]_vars
             PROVE  IInv'
  OBVIOUS
<1>1. HookInv' /\ SessionInv' /\ PyInv'
  BY EachSteps, PartsAtRest, HookKept, SessionKept, PyKept DEF IInv
<1>2. SamplerInv' /\ FleetInv' /\ TraceInv'
  BY EachSteps, PartsAtRest, SamplerKept, FleetKept, TraceKept DEF IInv
<1>3. CacheInv' /\ ScopesInv'
  BY EachSteps, CacheRests, CacheKept, ScopesRest, ScopesKept DEF IInv
<1>4. ClientInv' /\ AgentInv'
  BY EachSteps, ClientRests, ClientKept, AgentRests, AgentKept DEF IInv
<1> QED
  BY <1>1, <1>2, <1>3, <1>4 DEF IInv

LEMMA ToldKept == IInv /\ Told /\ [Next]_vars => Told'
<1> SUFFICES ASSUME IInv, Told, [Next]_vars
             PROVE  Told'
  OBVIOUS
<1>1. HookTold' /\ SessionTypeOK' /\ PyTold'
  BY EachSteps, ToldAtRest, HookTells, SessionTyped, PyTells DEF IInv, Told
<1>2. SamplerTold' /\ FleetTold' /\ TraceTypeOK'
  BY EachSteps, ToldAtRest, SamplerTells, FleetTells, TraceTyped DEF IInv, Told
<1>3. CrumbsTold' /\ RecorderTold'
  BY EachSteps, CrumbsRest, CrumbsTell, RecorderRests, RecorderTells DEF Told
<1>4. ClientTold' /\ AwakeTold'
  BY EachSteps, ClientToldRests, ClientTells, AwakeRests, AwakeTells DEF IInv, Told
<1> QED
  BY <1>1, <1>2, <1>3, <1>4 DEF Told

LEMMA InvariantAlways == Spec => [](IInv /\ Told /\ part \in Parts)
<1>1. Init => IInv /\ Told /\ part \in Parts
  BY InvariantHolds, NothingToldYet DEF Init
<1>2. IInv /\ Told /\ part \in Parts /\ [Next]_vars => (IInv /\ Told /\ part \in Parts)'
  BY EachSteps, InvariantKept, ToldKept
<1> QED
  BY <1>1, <1>2, PTL DEF Spec

-----------------------------------------------------------------------------

\* What the Node and Python hooks, the session file, the sampler and the fleet client
\* leave in place is what is registered (index.ts:63-75, forensic.py:704,
\* session-file.ts:42, precursors.ts:93-95, client.ts:51-63).
THEOREM RegistrationStays == Spec => []RegistrationHolds
<1>1. HookInv => ModeTellsTheTruth
  BY DEF HookInv, ModeTellsTheTruth
<1>2. PyInv => NoProbeLeft
  BY PyForensicHookAssumption DEF PyInv, TracingExplained, NoProbeLeft
<1>3. FleetInv => NoTimerAfterClose
  BY DEF FleetInv, NoTimerAfterClose
<1>4. IInv => RegistrationHolds
  BY <1>1, <1>2, <1>3 DEF IInv, SessionInv, SamplerInv, RegistrationHolds
<1> QED
  BY <1>4, InvariantAlways, PTL

LEMMA AtMostOne == ASSUME NEW x, NEW S \in SUBSET {x} PROVE Cardinality(S) <= 1
<1>1. IsFiniteSet({x}) /\ Cardinality({x}) = 1
  BY FS_Singleton
<1>2. Cardinality(S) <= Cardinality({x})
  BY <1>1, FS_Subset
<1> QED
  BY <1>1, <1>2

\* The tabs of one user send one session id, and the client and the server mean the
\* same filter by an etag (fulltrace.ts:132-139, client.ts:94-114).
THEOREM ReadersDoAgree == Spec => []ReadersAgree
<1>1. TraceInv => TabsAgree
  <2> SUFFICES ASSUME TraceInv
               PROVE  TabsAgree
    OBVIOUS
  <2>1. ASSUME cookies, ~reanchored
        PROVE  Cardinality(UNION {sent[t] : t \in Tabs}) <= 1
    <3>1. UNION {sent[t] : t \in Tabs} \in SUBSET {cookie}
      BY <2>1 DEF TraceInv, OneCookie
    <3> QED
      BY <3>1, AtMostOne
  <2>2. ASSUME storages, ~cookies, ~reanchored, NEW t \in Tabs
        PROVE  Cardinality(sent[t]) <= 1
    <3>1. sent[t] \in SUBSET {storage[t]}
      BY <2>2 DEF TraceInv, OwnStorage
    <3> QED
      BY <3>1, AtMostOne
  <2> QED
    BY <2>1, <2>2 DEF TabsAgree
<1>2. FleetInv => BloomCurrent /\ NotModifiedMeansLoaded
  BY DEF FleetInv, BloomCurrent, NotModifiedMeansLoaded, UnderWay
<1>3. IInv => ReadersAgree
  BY <1>1, <1>2 DEF IInv, ReadersAgree
<1> QED
  BY <1>3, InvariantAlways, PTL

\* An event carries what belongs to it: the scope of its request, which is given back
\* at its end, the frames of its exception, the configuration and transport of one init,
\* and hypotheses only of its own asking (scope.ts:39-101, scope.go:54-100,
\* monitoring.py:131-161, client.py:37-63, integration.ts:70-88).
THEOREM EventsCarryTheirOwn == Spec => []OwnDataOnly
<1>1. ScopesInv => NothingForeign /\ OwnDataPresent /\ GivenBackAtEnd
  BY LeftBehind DEF ScopesInv
<1>2. IInv => OwnDataOnly
  BY <1>1, FramesReadAreOwn, EventsOfOneInit, CallsAnswered DEF IInv, OwnDataOnly
<1> QED
  BY <1>2, InvariantAlways, PTL

LEMMA OneContributionTold == FleetTold => OneContribution
<1> SUFFICES ASSUME FleetTold PROVE OneContribution
  OBVIOUS
<1> QED
  BY DEF FleetTold, OneContribution

\* What happens once is told once: a throw is captured once by either SDK, an
\* interaction recorded once, a fingerprint contributed once, a capture of another SDK
\* hands over one event or has a reason not to, a release is announced once, a call of
\* the peer agent is answered, and a burst, a dead click, a route and a load are told
\* once (forensic.ts:82-116, forensic.py:160-219, session-recorder.ts:49-138,
\* client.ts:51-63, client.py:37-63, rage-clicks.ts:102-123, spa-routing.ts:30-88).
THEOREM EverythingToldOnce == Spec => []CapturedOnce
<1>1. ClientInv /\ ClientTold => OneEventPerCapture /\ DeployAnnounced
  BY ClientToldOnce
<1>2. IInv /\ Told => CapturedOnce
  BY <1>1, HookOnce, PyOnce, RecordedOnce, OneContributionTold, CallsAnswered, DetectorsTold
     DEF IInv, Told, CapturedOnce
<1> QED
  BY <1>2, InvariantAlways, PTL

\* The breadcrumbs are the newest, in order, across a wrapped console; the session kept
\* is that of one recorder, in order and without a gap; the signals read are those of
\* the window (breadcrumbs.ts:22-58, session-recorder.ts:49-138, precursors.ts:97-191).
THEOREM RingsStayInOrder == Spec => []RingsInOrder
<1>1. Told => RingsInOrder
  BY RingIsNewest, SessionKeepsOrder, SignalsAreOfTheWindow DEF Told, RingsInOrder
<1> QED
  BY <1>1, InvariantAlways, PTL

\* The variables of every part stay of their types, and the bounded ones within their
\* bounds.
THEOREM TypesKept == Spec => []TypeOK
<1>1. HookTold => HookTypeOK
  BY DEF HookTold
<1>2. PyTold => PyTypeOK
  BY DEF PyTold
<1>3. SamplerTold => SamplerTypeOK
  BY DEF SamplerTold
<1>4. FleetTold => FleetTypeOK
  BY DEF FleetTold
<1>5. CrumbsTold => CrumbsTypeOK
  BY DEF CrumbsTold
<1>6. RecorderTold => RecorderTypeOK
  BY DEF RecorderTold
<1>7. ScopesInv => ScopesTypeOK
  BY DEF ScopesInv
<1>8. CacheInv => CacheTypeOK
  BY DEF CacheInv
<1>9. ClientInv => ClientTypeOK
  BY DEF ClientInv, SetupInv
<1>10. AgentInv => AgentTypeOK
  BY DEF AgentInv
<1>11. IInv /\ Told /\ part \in Parts => TypeOK
  BY <1>1, <1>2, <1>3, <1>4, <1>5, <1>6, <1>7, <1>8, <1>9, <1>10, DetectorsTold DEF IInv, Told, TypeOK
<1> QED
  BY <1>11, InvariantAlways, PTL

=============================================================================
