------------------------------ MODULE PayloadV2 ------------------------------
(***************************************************************************)
(* prepareV2Payload (src/src/v2-emit.ts) with the evidence pack it builds  *)
(* (payload-v2.ts) and the key it signs with (signing.ts), in several      *)
(* processes of one user that share keypair.json.                          *)
(*                                                                         *)
(* getOrCreateKeypair is synchronous, so within a process it runs at once; *)
(* between processes its file operations interleave, and a process may     *)
(* crash between any two of them.                                          *)
(*                                                                         *)
(* At the end, applyTokenBudget (src/src/v2-budget.ts): the optional       *)
(* fields of an event are dropped in a fixed order until the event fits.   *)
(* An event is there the bytes each of its droppable parts adds to its     *)
(* JSON text, 0 for a part it lacks.  The locals are two parts, those of   *)
(* the other frames and those of the first; "container" is the forensics   *)
(* object itself.                                                          *)
(***************************************************************************)
EXTENDS Integers, FiniteSets, Sequences, Functions

CONSTANTS
  Processes,
  Keys,          \* the keys a process may generate, each at most once
  NoKey,         \* no keypair.json, or no key in memory
  Torn,          \* the contents of a file whose write has begun
  Stack,         \* the frames of an error's stack, numbered from 0
  MaxEvents,     \* events a process sends
  Weights,       \* the bytes a part of an event may weigh, 0 when it is absent
  Budgets,       \* the token budgets explored
  CoreBytes      \* what is never dropped: the v1 fields

ASSUME PayloadAssumption == NoKey \notin Keys /\ Torn \notin Keys

VARIABLES
  keyFile,       \* keypair.json
  cachedKeypair, \* [process |-> the key it keeps]
  fresh,         \* [process |-> the key it has generated and not yet kept]
  step,          \* [process |-> where it is in an event]
  event,         \* [process |-> the enriched event]
  evidence,      \* [process |-> the evidence pack]
  signature,     \* [process |-> the root and the key that signed it]
  used, events,  \* keys generated, events begun
  wire,          \* the payload last handed to the transport
  excused        \* history: a creation that met another one, or a read error

payloadVars == <<keyFile, cachedKeypair, fresh, step, event, evidence, signature,
                 used, events, wire, excused>>
Steps == {"idle", "build", "key", "open", "write", "sign", "finish"}

NoEvent == [context |-> {}, locals |-> {}, expected |-> FALSE]
NoEvidence == [frames |-> 0, slices |-> {}, locals |-> {}, contracts |-> FALSE, tokens |-> 0]
NoSignature == [root |-> NoEvidence, key |-> NoKey]

PayloadInit ==
  /\ keyFile \in {NoKey, Torn} /\ used = {} /\ events = 0 /\ wire = [evidence |-> NoEvidence, root |-> NoEvidence] /\ excused = {}
  /\ cachedKeypair = [p \in Processes |-> NoKey] /\ fresh = [p \in Processes |-> NoKey]
  /\ step = [p \in Processes |-> "idle"] /\ event = [p \in Processes |-> NoEvent]
  /\ evidence = [p \in Processes |-> NoEvidence]
  /\ signature = [p \in Processes |-> NoSignature]

Goto(p, s) == step' = [step EXCEPT ![p] = s]

---------------------------------------------------------------------------
\* parseStackForEvidence: with a source context the frames are those of the
\* context, without their files; otherwise those of the stack.
StackForEvidence(context) == IF context = {} THEN Stack ELSE 0 .. Cardinality(context) - 1
TopHasFile(context) == context = {} /\ Stack # {}

\* buildEvidencePack: a frame gets the slice and the locals of its index.
BuildEvidencePack(e) ==
  LET frames == StackForEvidence(e.context) IN
  [frames |-> Cardinality(frames), slices |-> e.context \cap frames,
   locals |-> e.locals \cap frames, contracts |-> e.expected, tokens |-> 0]

\* The size of what is counted, standing for estimateTokensTiktoken.
EvidenceTokens(ev) == 1 + ev.frames + Cardinality(ev.slices) + Cardinality(ev.locals)
                        + IF ev.contracts THEN 1 ELSE 0
\* The whole payload holds the evidence and the envelope around it.
PayloadTokens(ev) == EvidenceTokens(ev) + 1

\* The enrichment: the frames whose source is found, the contracts of the top
\* frame's file; each import may fail and leaves its field out.
Enrich(p) ==
  /\ step[p] = "idle" /\ events < MaxEvents
  /\ events' = events + 1
  /\ \E context \in SUBSET Stack, locals \in {{}, Stack}, intent \in BOOLEAN :
       event' = [event EXCEPT ![p] = [context |-> context, locals |-> locals,
                                      expected |-> intent /\ TopHasFile(context)]]
  /\ Goto(p, "build")
  /\ UNCHANGED <<keyFile, cachedKeypair, fresh, evidence, signature, used, wire, excused>>

BuildPayloadV2Unsigned(p) ==
  /\ step[p] = "build"
  /\ LET ev == BuildEvidencePack(event[p]) IN
     evidence' = [evidence EXCEPT ![p] = [ev EXCEPT !.tokens = EvidenceTokens(ev)]]
  /\ Goto(p, "key")
  /\ UNCHANGED <<keyFile, cachedKeypair, fresh, event, signature, used, events, wire, excused>>

---------------------------------------------------------------------------
\* getOrCreateKeypair: the key in memory, else the file's, else a new one.
Creating(p) == {q \in Processes \ {p} : step[q] \in {"open", "write"}}

CachedKey(p) ==
  /\ step[p] = "key" /\ cachedKeypair[p] # NoKey
  /\ Goto(p, "sign")
  /\ UNCHANGED <<keyFile, cachedKeypair, fresh, event, evidence, signature, used, events, wire, excused>>

LoadKeypair(p) ==
  /\ step[p] = "key" /\ cachedKeypair[p] = NoKey /\ keyFile \in Keys
  /\ cachedKeypair' = [cachedKeypair EXCEPT ![p] = keyFile]
  /\ Goto(p, "sign")
  /\ UNCHANGED <<keyFile, fresh, event, evidence, signature, used, events, wire, excused>>

\* Mutation: the file is not read.
GenerateAlways(p) ==
  /\ step[p] = "key" /\ cachedKeypair[p] = NoKey
  /\ excused' = excused \cup (IF Creating(p) # {} THEN {"overlap"} ELSE {})
  /\ \E k \in Keys \ used :
       /\ used' = used \cup {k}
       /\ fresh' = [fresh EXCEPT ![p] = k]
  /\ Goto(p, "open")
  /\ UNCHANGED <<keyFile, cachedKeypair, event, evidence, signature, events, wire>>

\* No file, a torn one, or a read that fails: loadKeypair answers null and a
\* new key is generated.
GenerateKeypair(p) ==
  /\ step[p] = "key" /\ cachedKeypair[p] = NoKey
  /\ excused' = excused \cup (IF keyFile \in Keys THEN {"read error"} ELSE {})
                        \cup (IF Creating(p) # {} THEN {"overlap"} ELSE {})
  /\ \E k \in Keys \ used :
       /\ used' = used \cup {k}
       /\ fresh' = [fresh EXCEPT ![p] = k]
  /\ Goto(p, "open")
  /\ UNCHANGED <<keyFile, cachedKeypair, event, evidence, signature, events, wire>>

\* saveKeypair: writeFileSync truncates, then writes.
SaveOpen(p) ==
  /\ step[p] = "open"
  /\ keyFile' = Torn
  /\ Goto(p, "write")
  /\ UNCHANGED <<cachedKeypair, fresh, event, evidence, signature, used, events, wire, excused>>

\* The write may fail after the truncation, or the open before it: the event
\* goes out as v1 and the key is forgotten.
SaveFails(p) ==
  /\ step[p] \in {"open", "write"}
  /\ fresh' = [fresh EXCEPT ![p] = NoKey]
  /\ Goto(p, "idle")
  /\ UNCHANGED <<keyFile, cachedKeypair, event, evidence, signature, used, events, wire, excused>>

SaveWrite(p) ==
  /\ step[p] = "write"
  /\ keyFile' = fresh[p]
  /\ cachedKeypair' = [cachedKeypair EXCEPT ![p] = fresh[p]]
  /\ fresh' = [fresh EXCEPT ![p] = NoKey]
  /\ Goto(p, "sign")
  /\ UNCHANGED <<event, evidence, signature, used, events, wire, excused>>

---------------------------------------------------------------------------
\* The root is over the evidence as it is now.
SignReceiptId(p) ==
  /\ step[p] = "sign"
  /\ signature' = [signature EXCEPT ![p] = [root |-> evidence[p], key |-> cachedKeypair[p]]]
  /\ Goto(p, "finish")
  /\ UNCHANGED <<keyFile, cachedKeypair, fresh, event, evidence, used, events, wire, excused>>

\* The last statement counts the signed payload and writes the evidence's
\* total over.
SignedEvidence(p) == [evidence[p] EXCEPT !.tokens = PayloadTokens(evidence[p])]

Finish(p) ==
  /\ step[p] = "finish"
  /\ wire' = [evidence |-> SignedEvidence(p), root |-> signature[p].root]
  /\ evidence' = [evidence EXCEPT ![p] = NoEvidence]
  /\ signature' = [signature EXCEPT ![p] = NoSignature]
  /\ event' = [event EXCEPT ![p] = NoEvent]
  /\ Goto(p, "idle")
  /\ UNCHANGED <<keyFile, cachedKeypair, fresh, used, events, excused>>

\* The process dies and starts again: what it had in memory is gone.
Crash(p) ==
  /\ step[p] # "idle" \/ cachedKeypair[p] # NoKey
  /\ cachedKeypair' = [cachedKeypair EXCEPT ![p] = NoKey]
  /\ fresh' = [fresh EXCEPT ![p] = NoKey]
  /\ event' = [event EXCEPT ![p] = NoEvent]
  /\ evidence' = [evidence EXCEPT ![p] = NoEvidence]
  /\ signature' = [signature EXCEPT ![p] = NoSignature]
  /\ Goto(p, "idle")
  /\ UNCHANGED <<keyFile, used, events, wire, excused>>

PayloadNext ==
  \E p \in Processes :
    \/ Enrich(p) \/ BuildPayloadV2Unsigned(p)
    \/ CachedKey(p) \/ LoadKeypair(p) \/ GenerateKeypair(p)
    \/ SaveOpen(p) \/ SaveFails(p) \/ SaveWrite(p)
    \/ SignReceiptId(p) \/ Finish(p) \/ Crash(p)

PayloadTypeOK ==
  /\ keyFile \in Keys \cup {NoKey, Torn}
  /\ \A p \in Processes : step[p] \in Steps /\ cachedKeypair[p] \in Keys \cup {NoKey}

---------------------------------------------------------------------------
\* The SDK of a machine has one identity: a key in memory is the one in the
\* file, unless two processes created at once or a read of the file failed.
OneIdentity ==
  excused = {} =>
    \A p \in Processes : cachedKeypair[p] # NoKey => cachedKeypair[p] = keyFile

\* Who verifies a payload recomputes the root from the evidence it received.
RootCoversEvidence == wire.root = wire.evidence

---------------------------------------------------------------------------
(* The token budget *)

Parts == {"causalGraph", "expected", "after", "precursors", "breadcrumbs",
          "closureChains", "otherLocals", "firstLocals", "asyncStack", "container",
          "runtimeSnap", "hypotheses"}

\* Drop k removes these parts: V2_FIELD_DROP_PRIORITY.  The container is not a
\* drop of its own.
DropOrder == <<"causalGraph", "expected", "after", "precursors", "breadcrumbs",
               "closureChains", "otherLocals", "firstLocals", "runtimeSnap", "hypotheses">>

EstimateTokens(e) == (CoreBytes + SumFunction(e) + 3) \div 4
Fits(e, budget) == EstimateTokens(e) <= budget

Without(e, parts) == [f \in Parts |-> IF f \in parts THEN 0 ELSE e[f]]

\* One numbered step: the part goes when the event is still over the budget.
DropStep(e, part, budget) ==
  IF ~Fits(e, budget) /\ e[part] > 0
  THEN Without(e, {part}) ELSE e

\* Step 7: the other frames' locals, the first frame's, then the container
\* once nothing is left in it.
DropLocals(e, budget) ==
  IF Fits(e, budget) \/ e["firstLocals"] = 0 THEN e
  ELSE LET left == DropStep(DropStep(e, "otherLocals", budget), "firstLocals", budget)
       IN IF \A f \in {"firstLocals", "closureChains", "asyncStack"} : left[f] = 0
          THEN Without(left, {"container"}) ELSE left

ApplyTokenBudget(e, budget) ==
  LET drop1 == DropStep(e, "causalGraph", budget)
      drop2 == DropStep(drop1, "expected", budget)
      drop3 == DropStep(drop2, "after", budget)
      drop4 == DropStep(drop3, "precursors", budget)
      drop5 == DropStep(drop4, "breadcrumbs", budget)
      drop6 == DropStep(drop5, "closureChains", budget)
      drop7 == DropLocals(drop6, budget)
      drop8 == DropStep(drop7, "runtimeSnap", budget)
  IN DropStep(drop8, "hypotheses", budget)

\* The events a sender can build: other frames' locals come with a first
\* frame, and whatever the forensics hold comes with their container.
WellFormed(e) ==
  /\ e["otherLocals"] > 0 => e["firstLocals"] > 0
  /\ e["container"] > 0 <=>
       \E f \in {"closureChains", "firstLocals", "asyncStack"} : e[f] > 0

\* What the drop priority promises: after the first k drops.
AfterDrops(e, k) ==
  LET gone == {DropOrder[i] : i \in 1 .. k}
      empty == /\ e["firstLocals"] > 0 /\ "firstLocals" \in gone
               /\ e["asyncStack"] = 0
  IN Without(e, gone \cup IF empty THEN {"container"} ELSE {})

\* The result is the event after the fewest drops that make it fit, or after
\* all of them when none does.
LeastDrops(e, budget, result) ==
  LET fits == {k \in 0 .. Len(DropOrder) : Fits(AfterDrops(e, k), budget)}
      k == IF fits = {} THEN Len(DropOrder) ELSE CHOOSE n \in fits : \A m \in fits : n <= m
  IN result = AfterDrops(e, k)

=============================================================================
