---------------------------- MODULE PyForensicHook ----------------------------
(***************************************************************************)
(* The forensic hook of the Python SDK,                                    *)
(* python/src/inariwatch_capture/forensic.py: registration by threads, the *)
(* PEP 669 and settrace probes, and _dispatch_capture, which is called for *)
(* every frame an exception unwinds through and captures it once.          *)
(*                                                                         *)
(* A step is a section under _lock or the code outside it.  An exception   *)
(* is known by id(), which is free again when the object is collected.     *)
(***************************************************************************)
EXTENDS Naturals, Sequences, FiniteSets, SequencesExt

CONSTANTS
  Threads,     \* threads that register a hook
  MainThread,  \* the one the program starts with
  Exceptions,
  ObjectIds,   \* what id() returns
  ToolIds,     \* 5, 4, 3: the ids of sys.monitoring, in the order they are tried
  SEEN_CAP,    \* _SEEN_CAP
  MaxCaptures, \* bound: captures of one exception
  Nobody

ASSUME PyForensicHookAssumption ==
  /\ Nobody \notin Threads \cup ObjectIds \cup {"pep669", "settrace"}
  /\ MainThread \in Threads
  /\ ToolIds \in Seq(Nat) /\ SEEN_CAP \in Nat \ {0}

VARIABLES
  pyMode,       \* "pep669", "settrace" or Nobody
  pyHook,       \* the thread whose hook it is, or Nobody
  toolId,       \* _pep669_tool_id, or Nobody
  callbacks,    \* tool ids with our callback
  running,      \* threads that have been started
  tracing,      \* threads with our trace function: sys.settrace is per thread
  spreading,    \* threading.settrace: a thread that is started gets it too
  previous,     \* _settrace_prev is our own function
  registering,  \* threads between the check of _mode and the lock
  dispatching,  \* captures between _seen_exceptions and the call of the hook
  seen,         \* _seen_exceptions, oldest first
  idOf,         \* the id of each live exception, or Nobody
  raised,       \* exceptions that have been raised
  times,        \* how often each reached a hook
  dropped,      \* history: live exceptions whose id left _seen_exceptions
  raced,        \* history: two threads were between the check and the lock
  elsewhere,    \* history: a settrace hook was removed in another thread than its own
  inherited     \* history: threads that got our trace function as they were started

threadVars == <<running, tracing, spreading, inherited>>
pyVars == <<pyMode, pyHook, toolId, callbacks, threadVars, previous, registering, dispatching,
            seen, idOf, raised, times, dropped, raced, elsewhere>>

PyTypeOK ==
  /\ pyMode \in {"pep669", "settrace", Nobody}
  /\ pyHook \in Threads \cup {Nobody}
  /\ toolId \in Range(ToolIds) \cup {Nobody} /\ callbacks \subseteq Range(ToolIds)
  /\ running \cup tracing \cup inherited \subseteq Threads
  /\ spreading \in BOOLEAN /\ previous \in BOOLEAN /\ raced \in BOOLEAN /\ elsewhere \in BOOLEAN
  /\ registering \subseteq Threads
  /\ dispatching \subseteq Exceptions
  /\ seen \in Seq(ObjectIds) /\ Len(seen) <= SEEN_CAP /\ IsInjective(seen)
  /\ idOf \in [Exceptions -> ObjectIds \cup {Nobody}]
  /\ raised \subseteq Exceptions /\ dropped \subseteq Exceptions
  /\ times \in [Exceptions -> Nat]

PyInit ==
  /\ pyMode = Nobody /\ pyHook = Nobody /\ toolId = Nobody
  /\ running = {MainThread}
  /\ callbacks = {} /\ tracing = {} /\ inherited = {} /\ spreading = FALSE
  /\ previous = FALSE /\ raced = FALSE /\ elsewhere = FALSE
  /\ registering = {} /\ dispatching = {} /\ seen = <<>>
  /\ idOf = [e \in Exceptions |-> Nobody]
  /\ raised = {} /\ dropped = {}
  /\ times = [e \in Exceptions |-> 0]

exceptionVars == <<dispatching, idOf, raised, times>>
Alive == {e \in Exceptions : idOf[e] # Nobody}

\* _mode is read before the lock is taken.
CheckMode(t) ==
  /\ pyMode = Nobody
  /\ t \in running \ registering
  /\ registering' = registering \cup {t}
  /\ raced' = (raced \/ registering # {})
  /\ UNCHANGED <<pyMode, pyHook, toolId, callbacks, threadVars, previous, seen, dropped,
                 elsewhere, exceptionVars>>

\* A thread is started: threading gives it what threading.settrace was given.
StartThread(t) ==
  /\ t \notin running
  /\ running' = running \cup {t}
  /\ spreading' = spreading
  /\ tracing' = IF spreading THEN tracing \cup {t} ELSE tracing
  /\ inherited' = IF spreading THEN inherited \cup {t} ELSE inherited
  /\ UNCHANGED <<pyMode, pyHook, toolId, callbacks, previous, registering, seen, dropped,
                 raced, elsewhere, exceptionVars>>

Claims(t) ==
  /\ t \in registering
  /\ registering' = registering \ {t}
  /\ pyHook' = t
  /\ UNCHANGED <<seen, dropped, raced, elsewhere, exceptionVars>>

\* The first id that is free; if all are taken, an id of ours goes on being used.
InstallPep669(t) ==
  LET free == {i \in DOMAIN ToolIds : ToolIds[i] \notin callbacks}
      first == CHOOSE i \in free : \A j \in free : i <= j
      id == IF free = {} THEN toolId ELSE ToolIds[first]
  IN  /\ Claims(t)
      /\ id # Nobody
      /\ toolId' = id
      /\ callbacks' = callbacks \cup {id}
      /\ pyMode' = "pep669"
      /\ UNCHANGED <<threadVars, previous>>

InstallSettrace(t) ==
  /\ Claims(t)
  /\ previous' = (t \in tracing)
  /\ tracing' = tracing \cup {t} /\ spreading' = TRUE
  /\ pyMode' = "settrace"
  /\ UNCHANGED <<running, inherited, toolId, callbacks>>

Freed == callbacks' = callbacks \ {toolId}

UnregisterPy(t) ==
  /\ t \in running
  /\ CASE pyMode = "pep669" ->
            Freed /\ toolId' = Nobody /\ UNCHANGED <<threadVars, previous, elsewhere>>
       [] pyMode = "settrace" ->
            /\ tracing' = IF previous THEN tracing \cup {t} ELSE tracing \ {t}
            /\ previous' = FALSE /\ spreading' = FALSE
            /\ elsewhere' = (elsewhere \/ pyHook # t)
            /\ UNCHANGED <<running, inherited, toolId, callbacks>>
       [] OTHER -> UNCHANGED <<toolId, callbacks, threadVars, previous, elsewhere>>
  /\ pyMode' = Nobody /\ pyHook' = Nobody
  /\ seen' = <<>>
  /\ dropped' = dropped \cup Alive
  /\ UNCHANGED <<registering, raced, exceptionVars>>

-----------------------------------------------------------------------------
(* Exceptions *)

RaiseException(e) ==
  /\ e \notin raised
  /\ raised' = raised \cup {e}
  /\ \E i \in ObjectIds \ {idOf[f] : f \in Alive} : idOf' = [idOf EXCEPT ![e] = i]
  /\ UNCHANGED <<pyMode, pyHook, toolId, callbacks, threadVars, previous, registering,
                 dispatching, seen, times, dropped, raced, elsewhere>>

Collected(e) ==
  /\ e \in Alive \ dispatching
  /\ idOf' = [idOf EXCEPT ![e] = Nobody]
  /\ UNCHANGED <<pyMode, pyHook, toolId, callbacks, threadVars, previous, registering,
                 dispatching, seen, raised, times, dropped, raced, elsewhere>>

\* Mutation: the id is noted after the hook has run, by the next frame's probe.
SeenNever(id) == seen

Seen(id) == Append(IF Len(seen) >= SEEN_CAP THEN Tail(seen) ELSE seen, id)

\* A frame of e is unwound, with a probe in place.
Dispatch(e) ==
  /\ e \in Alive \ dispatching
  /\ callbacks # {} \/ tracing # {}
  /\ pyHook # Nobody
  /\ times[e] < MaxCaptures
  /\ idOf[e] \notin Range(seen)
  /\ seen' = Seen(idOf[e])
  /\ dropped' = dropped \cup {f \in Alive : idOf[f] \in Range(seen) \ Range(seen')}
  /\ dispatching' = dispatching \cup {e}
  /\ UNCHANGED <<pyMode, pyHook, toolId, callbacks, threadVars, previous, registering, idOf,
                 raised, times, raced, elsewhere>>

\* _hook is read again; without one the call fails and the error is swallowed.
CallHook(e) ==
  /\ e \in dispatching
  /\ dispatching' = dispatching \ {e}
  /\ times' = IF pyHook = Nobody THEN times ELSE [times EXCEPT ![e] = @ + 1]
  /\ UNCHANGED <<pyMode, pyHook, toolId, callbacks, threadVars, previous, registering, seen,
                 idOf, raised, dropped, raced, elsewhere>>

PyNext ==
  \/ \E t \in Threads :
       \/ StartThread(t)
       \/ CheckMode(t) \/ InstallPep669(t) \/ InstallSettrace(t) \/ UnregisterPy(t)
  \/ \E e \in Exceptions :
       RaiseException(e) \/ Collected(e) \/ Dispatch(e) \/ CallHook(e)

-----------------------------------------------------------------------------
(* Properties *)

\* An exception is captured once, however many frames it unwinds and probes are
\* in place, unless its id was dropped meanwhile (forensic.py:160-167).
OneCapturePerException == \A e \in Exceptions \ dropped : times[e] <= 1

\* Without a registration no probe is left in the interpreter and none is given to
\* a new thread, unless two threads passed the check at once, a trace function was
\* removed in another thread than the one it was installed in, or a thread was
\* started while one was registered: unregister clears the calling thread alone
\* (forensic.py:704, 674, 665-668).
NoProbeLeft ==
  pyMode = Nobody /\ ~raced =>
    callbacks = {} /\ ~spreading /\ (elsewhere \/ tracing \subseteq inherited)

=============================================================================
