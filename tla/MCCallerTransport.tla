-------------------------- MODULE MCCallerTransport --------------------------
(* A small instance of CallerTransport: e1 and e2 share a fingerprint, e2    *)
(* cannot be serialised, and the buffer holds two events.                    *)
EXTENDS CallerTransport

CONSTANTS e1, e2, e3, e4, f1

MCEvents == {e1, e2, e3, e4}
MCFingerprintOf ==
  [e \in MCEvents |-> CASE e \in {e1, e2} -> "a" [] e = e3 -> "b" [] e = e4 -> "c"]
MCUnserialisable == {e2}
MCFlushers == {f1}
MCAll == {"browser", "java", "csharp", "rust"}
MCJava == {"java"}

=============================================================================
