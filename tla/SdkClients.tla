------------------------------- MODULE SdkClients -------------------------------
(***************************************************************************)
(* The clients of the other SDKs (client.py, client.go, client.rs,         *)
(* Capture.java, Capture.cs, browser-v2/client.ts): init puts a            *)
(* configuration and a transport in place; a capture builds an event from  *)
(* the one, asks before_send and hands the event to the other.  They       *)
(* differ in what a capture reads at once and what a second init can       *)
(* change under it.  Captures share nothing they write, so one is          *)
(* followed: a plain one, or a panic that goes through the handlers.       *)
(***************************************************************************)
EXTENDS Naturals, Sequences, SequencesExt, FiniteSets

CONSTANTS
  Inits,         \* the calls of init
  Programs,      \* what an application does: [settings, kind], settings for
                 \* each init with a hook and a release
  MaxHandlers,   \* bound: panic handlers installed
  NoInit         \* no configuration, no transport

ASSUME SdkClientsAssumption == IsFiniteSet(Inits) /\ NoInit \notin Inits /\ MaxHandlers \in Nat

ClientSdks == {"python", "go", "rust", "java", "csharp", "browser"}
\* A lock, or the event loop, lets one init through at a time.
OneInitAtATime == {"go", "rust", "java", "browser"}
\* A capture reads configuration and transport one by one.
Piecemeal == {"python", "java", "csharp"}
WithDeployMarker == {"python", "go"}
WithHandlers == {"go", "rust", "java", "csharp"}
SendHooks == {"none", "keep", "drop", "fail"}
CaptureKinds == {"exception", "message", "fatal", "error", "odd"}

VARIABLES
  sdk, program,  \* chosen once
  inForce,         \* the inits that have set the configuration, the last is in force
  transport,     \* the init whose transport is in place
  initPc,        \* where each init is
  lastRelease,   \* the release announced last
  markers,       \* deploy markers handed over: [init, to]
  mingled,         \* two inits overlapped
  installed,      \* panic handlers installed
  call,          \* the capture followed
  events         \* what it handed over

setup == <<sdk, program>>
initVars == <<inForce, transport, initPc, lastRelease, markers, mingled>>
clientVars == <<setup, initVars, installed, call, events>>

Config == IF inForce = <<>> THEN NoInit ELSE Last(inForce)
\* before_send of the configuration; an absent one has none.
HookOf(i) == IF i = NoInit THEN "none" ELSE program.settings[i].hook
ReleaseOf(i) == program.settings[i].release

IdleCall == [pc |-> "idle", env |-> NoInit, rel |-> NoInit, hook |-> NoInit, chain |-> 0,
             ends |-> <<>>, met |-> {}, reinit |-> FALSE, original |-> FALSE]

ClientInit ==
  /\ sdk \in ClientSdks
  /\ program \in Programs
  /\ inForce = <<>> /\ transport = NoInit
  /\ initPc = [i \in Inits |-> "new"]
  /\ lastRelease = "" /\ markers = <<>> /\ mingled = FALSE
  /\ installed = 0
  /\ call = IdleCall /\ events = <<>>

---------------------------------------------------------------------------
(* init *)

Halfway == {j \in Inits : initPc[j] = "configured"}
\* Steps of init that a running capture may notice.
Noticed == call' = IF call.pc = "idle" THEN call ELSE [call EXCEPT !.reinit = TRUE, !.met = @ \cup {Config'}]

\* A release that was not the last one is announced after; it is the last one
\* as soon as it is found to differ.
Announces(i) == sdk \in WithDeployMarker /\ ReleaseOf(i) # "" /\ ReleaseOf(i) # lastRelease
Finish(i) ==
  /\ initPc' = [initPc EXCEPT ![i] = IF Announces(i) THEN "announcing" ELSE "done"]
  /\ lastRelease' = IF Announces(i) THEN ReleaseOf(i) ELSE lastRelease

\* Configuration and transport change together: under the lock in Go, where
\* the transport before is closed, and in Rust; the browser has one thread.
InPlace(i) ==
  /\ initPc[i] = "new"
  /\ inForce' = Append(inForce, i) /\ transport' = i
  /\ Finish(i) /\ Noticed
  /\ UNCHANGED <<setup, markers, mingled, installed, events>>

InitGo(i) == sdk = "go" /\ InPlace(i)
InitRust(i) == sdk = "rust" /\ InPlace(i)
InitBrowser(i) == sdk = "browser" /\ InPlace(i)

\* Python, Java and C#: first the configuration ...
Configure(i) ==
  /\ sdk \in Piecemeal /\ initPc[i] = "new"
  /\ sdk \in OneInitAtATime => Halfway = {}
  /\ inForce' = Append(inForce, i)
  /\ initPc' = [initPc EXCEPT ![i] = "configured"]
  /\ mingled' = (mingled \/ Halfway # {}) /\ Noticed
  /\ UNCHANGED <<setup, transport, lastRelease, markers, installed, events>>

\* ... then the transport, which lets captures in.
InstallTransport(i) ==
  /\ sdk \in Piecemeal /\ initPc[i] = "configured"
  /\ transport' = i
  /\ Finish(i)
  /\ UNCHANGED <<setup, inForce, markers, mingled, installed, events>>
  /\ Noticed

\* Go announces through the transport init made, Python through the one in place.
MarkerGoesTo(i) == IF sdk = "go" THEN i ELSE transport

ReportDeploy(i) ==
  /\ initPc[i] = "announcing"
  /\ markers' = Append(markers, [init |-> i, to |-> MarkerGoesTo(i)])
  /\ initPc' = [initPc EXCEPT ![i] = "done"]
  /\ UNCHANGED <<setup, inForce, transport, lastRelease, mingled, installed, call, events>>

---------------------------------------------------------------------------
(* A capture *)

\* Severity of an event: logs by level; the unknown level is not read alike.
SeverityOf(s, kind) ==
  CASE kind \in {"exception", "panic", "fatal"} -> "critical"
    [] kind = "message" -> "info"
    [] kind = "error" -> IF s \in {"python", "go"} THEN "critical" ELSE "error"
    [] OTHER -> IF s \in {"python", "go"} THEN "info" ELSE "error"

Over(c, how) == [c EXCEPT !.pc = "over", !.ends = Append(@, how)]

\* Without a transport there is nothing to do.
OrRefused(c) == IF transport = NoInit THEN Over(c, "refused") ELSE c

\* Go reads all it needs under the lock; Rust the configuration, and looks for
\* a transport only when it hands over; the others look for one first.
StartedGo(c) == OrRefused([c EXCEPT !.pc = "built", !.env = Config, !.rel = Config, !.hook = Config])
StartedRust(c) == [c EXCEPT !.pc = "built", !.env = Config, !.rel = Config]
Started(c) == OrRefused([c EXCEPT !.pc = "checked"])

BeginCapture(chain, ends) ==
  /\ LET c == [IdleCall EXCEPT !.chain = chain, !.ends = ends, !.met = {Config}, !.reinit = Halfway # {}]
     IN call' = CASE sdk = "go" -> StartedGo(c) [] sdk = "rust" -> StartedRust(c) [] OTHER -> Started(c)
  /\ UNCHANGED <<setup, initVars, installed, events>>

Capture == call.pc = "idle" /\ program.kind # "panic" /\ BeginCapture(0, <<>>)

\* Handlers are installed over one another, deferred ones are nested.
InstallHandler ==
  /\ sdk \in WithHandlers /\ program.kind = "panic" /\ call.pc = "idle" /\ installed < MaxHandlers
  /\ installed' = installed + 1
  /\ UNCHANGED <<setup, initVars, call, events>>

Panic == installed > 0 /\ call.pc = "idle" /\ BeginCapture(installed, <<>>)

\* The browser awaits the fingerprint, then reads the configuration whole ...
ReadEnvironment ==
  /\ call.pc = "checked"
  /\ call' = IF sdk = "browser" THEN [call EXCEPT !.env = Config, !.rel = Config, !.pc = "built"]
             ELSE [call EXCEPT !.env = Config, !.pc = "reading"]
  /\ UNCHANGED <<setup, initVars, installed, events>>

\* ... in the others the release is a second read.
ReadRelease ==
  /\ call.pc = "reading"
  /\ call' = [call EXCEPT !.rel = Config, !.pc = "built"]
  /\ UNCHANGED <<setup, initVars, installed, events>>

Send(c, to) ==
  /\ events' = Append(events, [env |-> c.env, rel |-> c.rel, to |-> to, reinit |-> c.reinit,
                               severity |-> SeverityOf(sdk, program.kind)])
  /\ call' = [c EXCEPT !.pc = "over", !.ends = Append(@, "sent")]

\* What before_send does to an event; a failure leaves the capture.
Asked(hook, to) ==
  \/ hook = "drop" /\ call' = Over(call, "dropped") /\ UNCHANGED events
  \/ hook = "fail" /\ call' = Over(call, "raised") /\ UNCHANGED events
  \/ hook \in {"none", "keep"} /\ Send(call, to)

\* Go: the hook and the transport it read first, though closed by now.
DispatchGo ==
  /\ call.pc = "built" /\ sdk = "go"
  /\ Asked(HookOf(call.hook), call.env)
  /\ UNCHANGED <<setup, initVars, installed>>

\* Rust, under its lock: before_send is set apart from init and outlives it.
DispatchRust ==
  /\ call.pc = "built" /\ sdk = "rust"
  /\ IF transport = NoInit THEN call' = Over(call, "refused") /\ UNCHANGED events
     ELSE \E hook \in SendHooks : Asked(hook, transport)
  /\ UNCHANGED <<setup, initVars, installed>>

DispatchBrowser ==
  /\ call.pc = "built" /\ sdk = "browser"
  /\ Asked(HookOf(Config), transport)
  /\ UNCHANGED <<setup, initVars, installed>>

\* The others look for the hook ...
CheckHook ==
  /\ call.pc = "built" /\ sdk \in Piecemeal
  /\ call' = [call EXCEPT !.hook = Config, !.pc = IF HookOf(Config) = "none" THEN "filtered" ELSE "hooked"]
  /\ UNCHANGED <<setup, initVars, installed, events>>

\* ... Java and C# read it again to call it, and it may be gone; Python alone
\* catches a failure, and keeps the event ...
HookCalled == HookOf(IF sdk = "python" THEN call.hook ELSE Config)
AskHook ==
  /\ call.pc = "hooked"
  /\ LET h == HookCalled IN
     call' = CASE h = "drop" -> Over(call, "dropped")
               [] h = "none" \/ (h = "fail" /\ sdk # "python") -> Over(call, "raised")
               [] OTHER -> [call EXCEPT !.pc = "filtered"]
  /\ UNCHANGED <<setup, initVars, installed, events>>

\* ... and hand over to the transport in place by then.
HandOver ==
  /\ call.pc = "filtered"
  /\ Send(call, transport)
  /\ UNCHANGED <<setup, initVars, installed>>

---------------------------------------------------------------------------
(* A panic goes on to the handler below, at last to the one there was      *)
(* before; an exception of a handler takes the panic's place, and in Go    *)
(* the deferred one below sees that.                                       *)
GoesOn(how) == how # "raised" \/ sdk = "go"

NextHandler ==
  /\ call.pc = "over" /\ call.chain > 1 /\ GoesOn(Last(call.ends))
  /\ BeginCapture(call.chain - 1, call.ends)

Original ==
  /\ call.pc = "over" /\ call.chain = 1 /\ GoesOn(Last(call.ends)) /\ ~call.original
  /\ call' = [call EXCEPT !.original = TRUE]
  /\ UNCHANGED <<setup, initVars, installed, events>>

ClientNext ==
  \/ \E i \in Inits : InitGo(i) \/ InitRust(i) \/ InitBrowser(i) \/ Configure(i) \/ InstallTransport(i)
                     \/ ReportDeploy(i)
  \/ Capture \/ InstallHandler \/ Panic \/ ReadEnvironment \/ ReadRelease
  \/ DispatchGo \/ DispatchRust \/ DispatchBrowser \/ CheckHook \/ AskHook \/ HandOver
  \/ NextHandler \/ Original

---------------------------------------------------------------------------
ClientTypeOK ==
  /\ sdk \in ClientSdks /\ program \in Programs
  /\ inForce \in BoundedSeq(Inits, Cardinality(Inits)) /\ transport \in Inits \cup {NoInit}
  /\ initPc \in [Inits -> {"new", "configured", "announcing", "done"}]
  /\ \A k \in DOMAIN markers : markers[k].init \in Inits /\ markers[k].to \in Inits
  /\ mingled \in BOOLEAN /\ installed \in 0 .. MaxHandlers
  /\ call.pc \in {"idle", "checked", "reading", "built", "hooked", "filtered", "over"}
  /\ call.chain \in 0 .. MaxHandlers

\* An event is handed over once or is missing for a reason: no init came
\* before, a hook of the time said so, or a hook failed or was taken away
\* between two reads.  A panic tells each handler, and the one before them.
Ends(how) == Cardinality({k \in DOMAIN call.ends : call.ends[k] = how})
Met == {HookOf(i) : i \in call.met}
OneEventPerCapture ==
  /\ call.pc = "over" /\ call.chain <= 1 /\ (call.chain = 1 => call.original) =>
       Len(call.ends) = (IF program.kind = "panic" THEN installed ELSE 1)
  /\ Len(events) = Ends("sent")
  /\ call.pc # "idle" => (call.chain = 0) = (program.kind # "panic")
  /\ call.pc = "over" /\ sdk # "rust" =>
       CASE Last(call.ends) = "refused" -> NoInit \in call.met \/ call.reinit
         [] Last(call.ends) = "dropped" -> "drop" \in Met
         [] Last(call.ends) = "raised" -> \/ "fail" \in Met /\ sdk # "python"
                                          \/ call.reinit /\ sdk \in {"java", "csharp"}
         [] OTHER -> Met \ {"drop"} # {}

\* Without an init under way an event tells the release and environment of
\* the transport that sends it, unless two inits could and did overlap; in Go
\* always.
OfOneInit ==
  \A k \in DOMAIN events :
    LET e == events[k] IN
    /\ sdk = "go" \/ (~e.reinit /\ (mingled => sdk \in OneInitAtATime)) => e.env = e.rel /\ e.rel = e.to
    /\ sdk \notin Piecemeal => e.env = e.rel

\* A release in force has been announced, once for each time it became so.
DeployAnnounced ==
  /\ lastRelease # "" /\ (\A i \in Inits : initPc[i] # "announcing") =>
       \E k \in DOMAIN markers : ReleaseOf(markers[k].init) = lastRelease
  /\ ~mingled => \A j, k \in DOMAIN markers :
       j # k /\ ReleaseOf(markers[j].init) = ReleaseOf(markers[k].init) =>
         \E i \in Inits : ReleaseOf(i) \notin {"", ReleaseOf(markers[j].init)}

=============================================================================
