--------------------------- MODULE MCNodeTransport ---------------------------
(* A small instance of NodeTransport: two events share a fingerprint, two    *)
(* have their own, and one more cannot be serialised.  With a buffer of two, *)
(* a batch of two can come back to a buffer that filled while it was out.    *)
EXTENDS NodeTransport

CONSTANTS e1, e2, e3, e4, e5, f1, f2

MCEvents == {e1, e2, e3, e4, e5}
MCFingerprintOf ==
  [e \in MCEvents |-> CASE e \in {e1, e2} -> "a"
                        [] e = e3 -> "b"
                        [] e = e4 -> "c"
                        [] e = e5 -> "d"]
MCUnserialisable == {e5}
MCFlushers == {f1}

=============================================================================
