----------------------------- MODULE ForensicHook -----------------------------
(***************************************************************************)
(* The forensic hook of the Node SDK: registerForensicHook and its         *)
(* counterpart (src/src/forensic/index.ts), the inspector session that     *)
(* captures the frames of an uncaught exception (fallback-inspector.ts),   *)
(* the integration that pairs captures with events (integration.ts), and   *)
(* the session file the hook leaves for an agent (session-file.ts).        *)
(*                                                                         *)
(* A step is the code between two awaits.  A session is named by the call  *)
(* of registerForensicHook that made it, and so is its hook; the           *)
(* integration is one such call.  A call is made once.                     *)
(***************************************************************************)
EXTENDS Naturals, Sequences, FiniteSets, SequencesExt

CONSTANTS
  Callers,      \* calls of registerForensicHook
  Integration,  \* the one of setup()
  Undoers,      \* calls of unregisterForensicHook
  Throws,       \* uncaught exceptions
  Events,       \* captured events
  Lines,        \* Lines[x]: the "at" lines of the stack of a throw or an event
  BufferSize,
  NoOne,
  Sessions,     \* session ids of the file
  Requests,     \* request contexts of the file
  None

ASSUME ForensicHookAssumption ==
  /\ Integration \in Callers /\ NoOne \notin Callers \cup Throws /\ BufferSize \in Nat \ {0}
  /\ None \notin BOOLEAN

VARIABLES
  mode,       \* TRUE for "inspector"
  session,    \* the caller whose session it is, or NoOne
  hook,       \* activeHook
  calls,      \* where each registration stands
  undoing,    \* the session each unregistration is disabling, or NoOne
  undone,     \* the unregistrations made
  listening,  \* sessions that are connected, with the Debugger enabled and a listener
  walks,      \* captures under way: session and throw
  buffered,   \* the captures the integration holds, oldest first
  attached,   \* the throw whose capture each event was given, or NoOne
  passed,     \* the events that passed onBeforeSend
  thrown,     \* the throws that have happened
  heard,      \* how often each throw reached a hook
  overlapped  \* history: a registration began while another was under way

hookVars == <<mode, session, hook, calls, undoing, undone, listening, walks, buffered,
              attached, passed, thrown, heard, overlapped>>

HookTypeOK ==
  /\ mode \in BOOLEAN
  /\ {session, hook} \subseteq Callers \cup {NoOne}
  /\ calls \in [Callers -> {"new", "installing", "failed", "done"}]
  /\ undoing \in [Undoers -> Callers \cup {NoOne}]
  /\ undone \subseteq Undoers /\ listening \subseteq Callers
  /\ walks \subseteq Callers \X Throws
  /\ buffered \in Seq(Throws) /\ Len(buffered) <= BufferSize
  /\ attached \in [Events -> Throws \cup {NoOne}]
  /\ passed \subseteq Events /\ thrown \subseteq Throws
  /\ heard \in [Throws -> Nat]
  /\ overlapped \in BOOLEAN

HookInit ==
  /\ mode = FALSE
  /\ session = NoOne /\ hook = NoOne
  /\ calls = [c \in Callers |-> "new"]
  /\ undoing = [u \in Undoers |-> NoOne]
  /\ undone = {} /\ listening = {} /\ walks = {}
  /\ buffered = <<>>
  /\ attached = [e \in Events |-> NoOne]
  /\ passed = {} /\ thrown = {}
  /\ heard = [t \in Throws |-> 0]
  /\ overlapped = FALSE

Installing == {c \in Callers : calls[c] = "installing"}

capturing == <<walks, buffered, attached, passed, thrown, heard>>

-----------------------------------------------------------------------------
(* registerForensicHook and install *)

\* The call throws if it finds a mode or a session.
RegisterRefused(c) ==
  /\ calls[c] = "new"
  /\ mode \/ session # NoOne
  /\ calls' = [calls EXCEPT ![c] = "failed"]
  /\ UNCHANGED <<mode, session, hook, undoing, undone, listening, overlapped, capturing>>

\* Up to the await of Debugger.enable; setup() makes its call once.
Register(c) ==
  /\ calls[c] = "new"
  /\ ~mode /\ session = NoOne
  /\ hook' = c
  /\ calls' = [calls EXCEPT ![c] = "installing"]
  /\ overlapped' = (overlapped \/ Installing # {})
  /\ UNCHANGED <<mode, session, undoing, undone, listening, capturing>>

Installed(c) ==
  /\ calls[c] = "installing"
  /\ listening' = listening \cup {c}
  /\ session' = c
  /\ mode' = TRUE
  /\ calls' = [calls EXCEPT ![c] = "done"]
  /\ UNCHANGED <<hook, undoing, undone, overlapped, capturing>>

\* The inspector refuses: activeHook stays, and setup() may run again.
InstallFails(c) ==
  /\ calls[c] = "installing"
  /\ calls' = [calls EXCEPT ![c] = IF c = Integration THEN "new" ELSE "failed"]
  /\ UNCHANGED <<mode, session, hook, undoing, undone, listening, overlapped, capturing>>

-----------------------------------------------------------------------------
(* unregisterForensicHook and uninstall *)

\* Without a session there is nothing to await.
UnregisterAtOnce(u) ==
  /\ u \notin undone
  /\ ~mode \/ session = NoOne
  /\ undone' = undone \cup {u}
  /\ mode' = FALSE
  /\ UNCHANGED <<session, hook, calls, undoing, listening, overlapped, capturing>>

Unregister(u) ==
  /\ u \notin undone
  /\ mode /\ session # NoOne
  /\ undone' = undone \cup {u}
  /\ undoing' = [undoing EXCEPT ![u] = session]
  /\ UNCHANGED <<mode, session, hook, calls, listening, overlapped, capturing>>

\* The session that was disabled and the one that is disconnected.
Disconnected(u) == listening' = listening \ {undoing[u], session}

\* After the await, session may have become null: a TypeError ends the call.
Uninstalled(u) ==
  /\ undoing[u] # NoOne
  /\ undoing' = [undoing EXCEPT ![u] = NoOne]
  /\ IF session = NoOne
     THEN listening' = listening \ {undoing[u]} /\ UNCHANGED <<mode, session, hook>>
     ELSE /\ Disconnected(u)
          /\ session' = NoOne
          /\ hook' = NoOne
          /\ mode' = FALSE
  /\ UNCHANGED <<calls, undone, overlapped, capturing>>

-----------------------------------------------------------------------------
(* handlePaused, and the integration *)

Throw(t) ==
  /\ t \notin thrown
  /\ thrown' = thrown \cup {t}
  /\ walks' = walks \cup (listening \X {t})
  /\ UNCHANGED <<mode, session, hook, calls, undoing, undone, listening, buffered, attached,
                 passed, heard, overlapped>>

Buffered(t) ==
  IF Len(buffered) < BufferSize THEN Append(buffered, t) ELSE Append(Tail(buffered), t)

\* A walk that fails or is cut off at its deadline delivers what it has.
Captured(c, t) ==
  /\ <<c, t>> \in walks
  /\ walks' = walks \ {<<c, t>>}
  /\ heard' = IF hook = NoOne THEN heard ELSE [heard EXCEPT ![t] = @ + 1]
  /\ buffered' = IF hook = Integration THEN Buffered(t) ELSE buffered
  /\ UNCHANGED <<mode, session, hook, calls, undoing, undone, listening, attached, passed,
                 thrown, overlapped>>

MatchScore(t, e) ==
  CASE Lines[e] = <<>> -> 1
    [] Lines[e] # <<>> /\ Lines[t][1] = Lines[e][1] -> 100
    [] Lines[e] # <<>> /\ Lines[t][1] \in Range(Tail(Lines[e])) -> 50
    [] OTHER -> 1

\* The first of those with the best score.
Best(e) ==
  CHOOSE i \in DOMAIN buffered :
    \A j \in DOMAIN buffered :
      LET si == MatchScore(buffered[i], e)
          sj == MatchScore(buffered[j], e)
      IN  si > sj \/ (si = sj /\ i <= j)

Picked(e) == RemoveAt(buffered, Best(e))

OnBeforeSend(e) ==
  /\ e \notin passed
  /\ passed' = passed \cup {e}
  /\ IF buffered = <<>>
     THEN UNCHANGED <<buffered, attached>>
     ELSE /\ attached' = [attached EXCEPT ![e] = buffered[Best(e)]]
          /\ buffered' = Picked(e)
  /\ UNCHANGED <<mode, session, hook, calls, undoing, undone, listening, walks, thrown,
                 heard, overlapped>>

HookNext ==
  \/ \E c \in Callers :
       RegisterRefused(c) \/ Register(c) \/ Installed(c) \/ InstallFails(c)
  \/ \E u \in Undoers : UnregisterAtOnce(u) \/ Unregister(u) \/ Uninstalled(u)
  \/ \E t \in Throws : Throw(t)
  \/ \E c \in Callers, t \in Throws : Captured(c, t)
  \/ \E e \in Events : OnBeforeSend(e)

-----------------------------------------------------------------------------
(* Properties *)

\* As long as registrations do not overlap, a throw reaches a hook once and its
\* capture is in the buffer or given to one event (index.ts:43,
\* integration.ts:18-19).
OneCapturePerThrow ==
  ~overlapped =>
    \A t \in Throws :
      /\ heard[t] <= 1
      /\ Cardinality({i \in DOMAIN buffered : buffered[i] = t})
           + Cardinality({e \in Events : attached[e] = t}) <= heard[t]

\* Between calls that did not overlap, the mode tells whether a hook is
\* installed, and only its session listens (index.ts:63-75).
ModeTellsTheTruth ==
  ~overlapped /\ Installing = {} /\ (\A u \in Undoers : undoing[u] = NoOne) =>
    /\ mode => session # NoOne /\ hook # NoOne /\ listening = {session}
    /\ ~mode => session = NoOne /\ listening = {}

-----------------------------------------------------------------------------
(* The file through which the eBPF agent learns the session of a process.    *)
(* Every call is synchronous; a write goes to a temporary file and is        *)
(* renamed, so the agent sees it whole or not at all.  Off Linux nothing is  *)
(* ever written.                                                             *)

VARIABLES
  onLinux,
  current,    \* "active" in the InstalledHandle, or None
  listener,   \* exitListener is registered
  file,       \* what the agent reads, or None
  exited,
  abandoned   \* history: the last write of an install failed over a file that was there

sessionVars == <<onLinux, current, listener, file, exited, abandoned>>

FileContents == [session : Sessions, request : Requests \cup {None}]

SessionTypeOK ==
  /\ onLinux \in BOOLEAN /\ listener \in BOOLEAN /\ exited \in BOOLEAN
  /\ current \in BOOLEAN \cup {None}
  /\ file \in FileContents \cup {None}
  /\ abandoned \in BOOLEAN

SessionInit ==
  /\ onLinux \in BOOLEAN
  /\ current = None /\ file = None
  /\ listener = FALSE /\ exited = FALSE /\ abandoned = FALSE

\* writeSessionFile: it may fail at any of its calls and then leaves the old file.
Written(contents, ok) == file' = IF ok THEN contents ELSE file

InstallSessionFile(s, ok) ==
  /\ ~exited
  /\ ok => onLinux
  /\ Written([session |-> s, request |-> None], ok)
  /\ current' = ok
  /\ listener' = (listener \/ ok)
  /\ abandoned' = (~ok /\ file # None)
  /\ UNCHANGED <<onLinux, exited>>

\* The session id is read back from the file.
UpdateRequestContext(r, ok) ==
  /\ ~exited
  /\ current = TRUE /\ file # None
  /\ Written([file EXCEPT !.request = r], ok)
  /\ UNCHANGED <<onLinux, current, listener, exited, abandoned>>

RemovedIfActive == file' = IF current = TRUE THEN None ELSE file

UninstallSessionFile ==
  /\ ~exited
  /\ current # None
  /\ RemovedIfActive
  /\ current' = None
  /\ listener' = FALSE
  /\ UNCHANGED <<onLinux, exited, abandoned>>

Exit ==
  /\ ~exited
  /\ exited' = TRUE
  /\ IF listener THEN RemovedIfActive ELSE UNCHANGED file
  /\ UNCHANGED <<onLinux, current, listener, abandoned>>

SessionNext ==
  \/ \E s \in Sessions, ok \in BOOLEAN : InstallSessionFile(s, ok)
  \/ \E r \in Requests, ok \in BOOLEAN : UpdateRequestContext(r, ok)
  \/ UninstallSessionFile
  \/ Exit

\* A graceful exit leaves a file behind only if a later install could not
\* replace it, which marks the handle inactive (session-file.ts:42, 181).
OrphanExplained == exited /\ file # None => abandoned

=============================================================================
