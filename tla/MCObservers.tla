------------------------------ MODULE MCObservers ------------------------------
(* A small instance of Observers.                                              *)
EXTENDS Observers

CONSTANTS integration, direct, u1, u2, t1, t2, e1, e2, p, q, x1, x2, x3,
          i1, i2, s1, s2, r1,
          req1, req2, w1, w2, g1, g2, i3, n1, n2, click1, click2, click3, nav,
          tab1, tab2, new1, new2, host, sampler1, sampler2, f1, f2, f3, fp1,
          init1, init2, host1, host2

MCCallers == {integration, direct}
MCUndoers == {u1, u2}
MCThrows == {t1, t2}
MCEvents == {e1, e2}
\* e1 is the event of t1; e2 one that wraps it and names its line further down.
MCLines == (t1 :> <<"a">>) @@ (t2 :> <<"b">>) @@ (e1 :> <<"a">>) @@ (e2 :> <<"c", "a">>)
MCThreads == {p, q}
MCExceptions == {x1, x2}
MCObjectIds == {i1, i2}
MCToolIds == <<5, 4>>
MCSessions == {s1, s2}
MCRequests == {r1}
MCHandled == {req1, req2}
MCUnwrapped == {req1}
MCWorkers == {w1, w2}
MCKinds == {"own", "context", "thread", "swapped", "locked", "global", "ambient"}
MCNodeKind == {"swapped"}
MCErrors == {x1, x2, x3}
MCIds == {i1, i2, i3}
MCRequested == {g1, g2}
MCSessionInits == {n1, n2}
MCInteractions == {click1, click2, click3}
MCNavigations == {nav}
MCTabs == {tab1, tab2}
MCFreshIds == {new1, new2}
MCHostIds == {host}
MCSamplerStates == {sampler1, sampler2}
MCFetches == {f1, f2, f3}
MCFingerprints == {fp1}
MCHosts == {host1, host2}
\* From the first to the last of these the heap grows by 6 %, with a dip in between
\* that does not count; from the first to the second the nodes grow by 50.
MCPageSizes == {[heapBytes |-> m[1], domNodes |-> m[2]] :
                  m \in {<<100, 1000>>, <<107, 960>>, <<106, 1050>>}}
MCInits == {init1, init2}
MCReleases == {<<"r1", "r1">>, <<"r1", "r2">>, <<"", "r1">>}
MCSettings(choice) ==
  {init1 :> [hook |-> h[1], release |-> r[1]] @@ init2 :> [hook |-> h[2], release |-> r[2]] :
     h \in [1 .. 2 -> choice], r \in MCReleases}
MCPrograms ==
  [settings : MCSettings(SendHooks), kind : {"exception", "panic"}]
    \cup [settings : MCSettings({"none"}), kind : CaptureKinds]

=============================================================================
