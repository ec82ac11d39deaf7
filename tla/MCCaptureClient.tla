--------------------------- MODULE MCCaptureClient ---------------------------
(* A small instance of CaptureClient: an exception, two deploy markers, and *)
(* two calls of init, each choosing among four configurations, two local.   *)
EXTENDS CaptureClient

CONSTANTS c1, d1, d2, agent, replay, fleet, broken, f1, r1, r2

MCCaptures == {c1}
MCExceptions == {c1}
MCDeployOf == <<d1, d2>>
MCFingerprintOf == [e \in {c1, d1, d2} |->
                      CASE e = c1 -> "a" [] e = d1 -> "d" [] e = d2 -> "e"]

\* One integration is listed twice, one fails to set up, one has no hook.
MCFull == [integrations |-> <<fleet, broken, fleet, replay>>, redact |-> TRUE,
           beforeSend |-> TRUE, release |-> r1, local |-> FALSE, substrate |-> TRUE]
MCPlain == [integrations |-> <<replay, agent>>, redact |-> FALSE,
            beforeSend |-> FALSE, release |-> r2, local |-> FALSE, substrate |-> FALSE]
MCLocal == [integrations |-> <<>>, redact |-> FALSE, beforeSend |-> FALSE,
            release |-> r1, local |-> TRUE, substrate |-> FALSE]
MCQuiet == [integrations |-> <<>>, redact |-> TRUE, beforeSend |-> FALSE,
            release |-> r1, local |-> TRUE, substrate |-> FALSE]
MCConfigs == {MCFull, MCPlain, MCLocal, MCQuiet}
MCHooked == {agent, fleet}
MCSetupThrows == {broken}
MCUnserialisable == {}
MCFlushers == {f1}

=============================================================================
