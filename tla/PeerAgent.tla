-------------------------------- MODULE PeerAgent --------------------------------
(***************************************************************************)
(* The peer agent (src/src/agent/): onBeforeSend asks a model about an     *)
(* event, runs the tools it calls for and attaches its hypotheses.         *)
(*                                                                         *)
(* Time passes only while a chat is out; each chat has the whole deadline  *)
(* to itself.  What the model answers is arbitrary.                        *)
(***************************************************************************)
EXTENDS Naturals, Sequences, SequencesExt, FiniteSets

CONSTANTS
  Deadline,             \* deadlineMs, in units of MinLeft
  MinLeft,              \* no chat begins with less
  MAX_TOOL_ITERATIONS,
  MaxCalls,             \* bound: tool calls of one answer
  MaxEntries            \* bound: entries of an answer

ASSUME PeerAgentAssumption ==
  /\ {Deadline, MinLeft, MAX_TOOL_ITERATIONS} \subseteq Nat \ {0}
  /\ {MaxCalls, MaxEntries} \subseteq Nat

AgentTools == {"getLocalsAtFrame", "evaluateInFrame", "matchFingerprint", "diffSinceDeploy", "other"}
\* Arguments that parse; that do not; that parse to null.
Arguments == {"json", "broken", "null"}
Severities == <<"info", "warning", "critical">>
MaxHypotheses == 3

VARIABLES
  enabled,     \* setup ran with a key and without the switch in the environment
  minRank,     \* rank of minSeverity
  asking,      \* the event given to onBeforeSend
  chatState,   \* where diagnose is
  elapsed,     \* time since t0
  chats,       \* chats begun
  dialogue,    \* messages
  egress       \* what onBeforeSend returned

agentVars == <<enabled, minRank, asking, chatState, elapsed, chats, dialogue, egress>>

NotYet == [returned |-> FALSE, hypotheses |-> <<>>, schema |-> ""]
Entries == {"good", "over", "bad"}

\* Hypotheses an event already has, and what the tools look up in it.
AskedEvents == [rank : 1 .. Len(Severities), known : BOOLEAN, locals : BOOLEAN, git : BOOLEAN]

AgentInit ==
  /\ enabled \in BOOLEAN /\ minRank \in 1 .. Len(Severities)
  /\ asking \in AskedEvents
  /\ chatState = "given" /\ elapsed = 0 /\ chats = 0
  /\ dialogue = <<>> /\ egress = NotYet

Said(role, id, calls) == [role |-> role, id |-> id, calls |-> calls]

---------------------------------------------------------------------------
Return(hypotheses) ==
  /\ chatState' = "done"
  /\ egress' = IF hypotheses = <<>> THEN [NotYet EXCEPT !.returned = TRUE]
               ELSE [returned |-> TRUE, hypotheses |-> hypotheses, schema |-> "2.0"]

\* Off, below the threshold, or with hypotheses of another source.
PassThrough ==
  /\ chatState = "given" /\ (~enabled \/ asking.rank < minRank \/ asking.known)
  /\ Return(<<>>)
  /\ UNCHANGED <<enabled, minRank, asking, elapsed, chats, dialogue>>

Diagnose ==
  /\ chatState = "given" /\ enabled /\ asking.rank >= minRank /\ ~asking.known
  /\ dialogue' = <<Said("system", 0, <<>>), Said("user", 0, <<>>)>>
  /\ chatState' = "turn"
  /\ UNCHANGED <<enabled, minRank, asking, elapsed, chats, egress>>

Remaining == IF elapsed > Deadline THEN 0 ELSE Deadline - elapsed

ChatBegins ==
  /\ chatState = "turn" /\ chats < MAX_TOOL_ITERATIONS /\ Remaining >= MinLeft
  /\ chats' = chats + 1 /\ chatState' = "out"
  /\ UNCHANGED <<enabled, minRank, asking, elapsed, dialogue, egress>>

\* The loop ends without an answer.
GiveUp ==
  /\ chatState = "turn" /\ ~(chats < MAX_TOOL_ITERATIONS /\ Remaining >= MinLeft)
  /\ Return(<<>>)
  /\ UNCHANGED <<enabled, minRank, asking, elapsed, chats, dialogue>>

Passes == \E d \in 0 .. Deadline : elapsed' = elapsed + d

\* An HTTP error, the timeout of the chat, or an answer that has no choice.
ChatFails ==
  /\ chatState = "out" /\ Passes
  /\ Return(<<>>)
  /\ UNCHANGED <<enabled, minRank, asking, chats, dialogue>>

\* What a tool finds: most answers are errors the model can read.
GetLocalsAtFrame == IF asking.locals THEN "locals" ELSE "error"
EvaluateInFrame == "error"
MatchFingerprint == "no match"
DiffSinceDeploy == IF asking.git THEN "diff" ELSE "error"

\* null has no fields to read: an exception, which diagnose catches.
ToolThrows(call) ==
  call.args = "null" /\ call.tool \notin {"diffSinceDeploy", "other"}

RunTool(call) ==
  CASE call.args = "broken" -> "error"
    [] call.tool = "getLocalsAtFrame" -> GetLocalsAtFrame
    [] call.tool = "evaluateInFrame" -> EvaluateInFrame
    [] call.tool = "matchFingerprint" -> MatchFingerprint
    [] call.tool = "diffSinceDeploy" -> DiffSinceDeploy
    [] OTHER -> "error"

ToolCalls == UNION {[1 .. n -> [tool : AgentTools, args : Arguments]] : n \in 1 .. MaxCalls}
Answers(calls) == [k \in DOMAIN calls |-> Said("tool", <<chats, k>>, <<RunTool(calls[k])>>)]

ModelCallsTools ==
  /\ chatState = "out" /\ Passes
  /\ \E calls \in ToolCalls :
       LET ids == [k \in DOMAIN calls |-> <<chats, k>>] IN
       IF \E k \in DOMAIN calls : ToolThrows(calls[k])
       THEN Return(<<>>) /\ UNCHANGED dialogue
       ELSE /\ dialogue' = dialogue \o <<Said("assistant", 0, ids)>> \o Answers(calls)
            /\ chatState' = "turn" /\ UNCHANGED egress
  /\ UNCHANGED <<enabled, minRank, asking, chats>>

\* parseHypotheses: of a list, the first three that are well formed, their
\* numbers brought into 0..1; of anything else nothing.
Clamp01(entry) == IF entry = "over" THEN "good" ELSE entry
WellFormed(answer) == {k \in DOMAIN answer : answer[k] # "bad"}
NthOf(ks, n) == CHOOSE k \in ks : Cardinality({j \in ks : j <= k}) = n
ParseHypotheses(answer) ==
  LET ks == WellFormed(answer)
      taken == IF Cardinality(ks) > MaxHypotheses THEN MaxHypotheses ELSE Cardinality(ks)
  IN [n \in 1 .. taken |-> Clamp01(answer[NthOf(ks, n)])]

ModelAnswers ==
  /\ chatState = "out" /\ Passes
  /\ \E n \in 0 .. MaxEntries : \E answer \in [1 .. n -> Entries] : Return(ParseHypotheses(answer))
  /\ UNCHANGED <<enabled, minRank, asking, chats, dialogue>>

AgentNext ==
  \/ PassThrough \/ Diagnose \/ ChatBegins \/ GiveUp
  \/ ChatFails \/ ModelCallsTools \/ ModelAnswers

---------------------------------------------------------------------------
AgentTypeOK ==
  /\ enabled \in BOOLEAN /\ minRank \in 1 .. Len(Severities) /\ asking \in AskedEvents
  /\ chatState \in {"given", "turn", "out", "done"}
  /\ elapsed \in Nat /\ chats \in 0 .. MAX_TOOL_ITERATIONS

\* The model gets one answer to each call of a tool, right after it and in
\* order, or no further chat (agent.ts:123-138).
EveryCallAnswered ==
  chatState \in {"turn", "out"} =>
    \A n \in DOMAIN dialogue : dialogue[n].role = "assistant" =>
      LET ids == dialogue[n].calls IN
      /\ n + Len(ids) <= Len(dialogue)
      /\ \A k \in DOMAIN ids : /\ dialogue[n + k].role = "tool" /\ dialogue[n + k].id = ids[k]
                               /\ dialogue[n + k].calls # <<>>

\* An event leaves as it came, or with one to three sound hypotheses if it had
\* none and was severe enough; at the latest when a chat begun just before the
\* deadline has used its own (integration.ts:70-88).
EventLeaves ==
  /\ elapsed < 2 * Deadline
  /\ egress.returned = (chatState = "done")
  /\ egress.hypotheses # <<>> =>
       /\ ~asking.known /\ enabled /\ asking.rank >= minRank
       /\ Len(egress.hypotheses) <= MaxHypotheses /\ egress.schema = "2.0"
       /\ ToSet(egress.hypotheses) = {"good"}
  /\ egress.hypotheses = <<>> => egress.schema = ""

=============================================================================
