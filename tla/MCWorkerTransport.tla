-------------------------- MODULE MCWorkerTransport --------------------------
(* A small instance of WorkerTransport: e1 and e2 share a fingerprint and e2  *)
(* happens again and again; e4 cannot be serialised.                         *)
EXTENDS WorkerTransport

CONSTANTS e1, e2, e3, e4, f1

MCEvents == {e1, e2, e3, e4}
MCFingerprintOf ==
  [e \in MCEvents |-> CASE e \in {e1, e2} -> "a" [] e = e3 -> "b" [] e = e4 -> "c"]
MCUnserialisable == {e4}
MCRecurring == {e2}
MCFlushers == {f1}
MCBoth == {"go", "python"}

=============================================================================
