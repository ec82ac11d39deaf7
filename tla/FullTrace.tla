------------------------------- MODULE FullTrace -------------------------------
(***************************************************************************)
(* FullTrace session ids, src/src/fulltrace.ts: each tab of a browser      *)
(* resolves its id from its window, the cookie the tabs share and its own  *)
(* sessionStorage, and sends it with same-origin requests.                 *)
(*                                                                         *)
(* Tabs are processes: initFullTrace reads in one step and writes in the   *)
(* next.                                                                   *)
(***************************************************************************)
EXTENDS Naturals, FiniteSets

CONSTANTS
  Tabs,
  FreshIds,   \* what generateSessionId returns
  HostIds,    \* ids of the host application or of the replay package
  NoId

ASSUME FullTraceAssumption == NoId \notin FreshIds \cup HostIds

VARIABLES
  cookies,         \* whether the browser keeps cookies
  storages,        \* whether sessionStorage works
  cookie,
  storage,         \* sessionStorage of each tab
  global,          \* window.__INARIWATCH_SESSION__ of each tab
  activeSessionId, \* of each tab
  tabStage,        \* "blank", "read" or "ready"
  generated,       \* the fresh ids in use
  sent,            \* the ids each tab has sent to its own origin
  reanchored       \* history: the cookie expired, an id came from the host, or two tabs
                   \* read before either had written

traceVars == <<cookies, storages, cookie, storage, global, activeSessionId, tabStage,
               generated, sent, reanchored>>

SessionIds == FreshIds \cup HostIds

TraceTypeOK ==
  /\ {cookies, storages, reanchored} \subseteq BOOLEAN
  /\ cookie \in SessionIds \cup {NoId}
  /\ {storage, global, activeSessionId} \subseteq [Tabs -> SessionIds \cup {NoId}]
  /\ tabStage \in [Tabs -> {"blank", "read", "ready"}]
  /\ generated \subseteq FreshIds
  /\ sent \in [Tabs -> SUBSET SessionIds]

TraceInit ==
  /\ cookies \in BOOLEAN /\ storages \in BOOLEAN
  /\ cookie = NoId /\ generated = {} /\ reanchored = FALSE
  /\ storage = [t \in Tabs |-> NoId] /\ global = storage /\ activeSessionId = storage
  /\ tabStage = [t \in Tabs |-> "blank"]
  /\ sent = [t \in Tabs |-> {}]

Existing(t) ==
  CASE global[t] # NoId -> global[t]
    [] global[t] = NoId /\ cookie # NoId -> cookie
    [] OTHER -> storage[t]

\* initFullTrace, up to the choice of the id.
ReadSessionId(t) ==
  /\ tabStage[t] = "blank"
  /\ tabStage' = [tabStage EXCEPT ![t] = "read"]
  /\ IF Existing(t) # NoId
     THEN activeSessionId' = [activeSessionId EXCEPT ![t] = Existing(t)] /\ UNCHANGED generated
     ELSE \E id \in FreshIds \ generated :
            /\ activeSessionId' = [activeSessionId EXCEPT ![t] = id]
            /\ generated' = generated \cup {id}
  /\ reanchored' = (reanchored \/ \E u \in Tabs : tabStage[u] = "read")
  /\ UNCHANGED <<cookies, storages, cookie, storage, global, sent>>

WrittenEverywhere(t, id) ==
  /\ cookie' = IF cookies THEN id ELSE cookie
  /\ storage' = IF storages THEN [storage EXCEPT ![t] = id] ELSE storage
  /\ global' = [global EXCEPT ![t] = id]

WriteSessionId(t) ==
  /\ tabStage[t] = "read"
  /\ tabStage' = [tabStage EXCEPT ![t] = "ready"]
  /\ WrittenEverywhere(t, activeSessionId[t])
  /\ UNCHANGED <<cookies, storages, activeSessionId, generated, sent, reanchored>>

SetSessionId(t, id) ==
  /\ tabStage[t] = "ready"
  /\ activeSessionId' = [activeSessionId EXCEPT ![t] = id]
  /\ WrittenEverywhere(t, id)
  /\ reanchored' = TRUE
  /\ UNCHANGED <<cookies, storages, tabStage, generated, sent>>

\* capture-replay was there first.
ReplayStarts(t, id) ==
  /\ tabStage[t] = "blank" /\ global[t] = NoId
  /\ global' = [global EXCEPT ![t] = id]
  /\ reanchored' = TRUE
  /\ UNCHANGED <<cookies, storages, cookie, storage, activeSessionId, tabStage, generated, sent>>

\* injectSessionHeader on a same-origin request without a header of its own.
SendRequest(t) ==
  /\ tabStage[t] = "ready"
  /\ sent' = [sent EXCEPT ![t] = @ \cup {activeSessionId[t]}]
  /\ UNCHANGED <<cookies, storages, cookie, storage, global, activeSessionId, tabStage,
                 generated, reanchored>>

\* Only initFullTrace and setSessionId renew the cookie.
CookieExpires ==
  /\ cookie # NoId
  /\ cookie' = NoId
  /\ reanchored' = TRUE
  /\ UNCHANGED <<cookies, storages, storage, global, activeSessionId, tabStage, generated, sent>>

Reload(t) ==
  /\ tabStage[t] = "ready"
  /\ tabStage' = [tabStage EXCEPT ![t] = "blank"]
  /\ activeSessionId' = [activeSessionId EXCEPT ![t] = NoId]
  /\ global' = [global EXCEPT ![t] = NoId]
  /\ UNCHANGED <<cookies, storages, cookie, storage, generated, sent, reanchored>>

TraceNext ==
  \/ \E t \in Tabs : ReadSessionId(t) \/ WriteSessionId(t) \/ SendRequest(t) \/ Reload(t)
  \/ \E t \in Tabs, id \in HostIds : SetSessionId(t, id) \/ ReplayStarts(t, id)
  \/ CookieExpires

-----------------------------------------------------------------------------
(* Properties *)

\* One user, one timeline: the tabs send one id between them, and where cookies
\* are blocked a tab keeps its own over reloads; unless the cookie expired, the
\* host set an id, or two tabs started at once (fulltrace.ts:21-24, 132-139).
TabsAgree ==
  /\ cookies /\ ~reanchored => Cardinality(UNION {sent[t] : t \in Tabs}) <= 1
  /\ storages /\ ~cookies /\ ~reanchored => \A t \in Tabs : Cardinality(sent[t]) <= 1

=============================================================================
