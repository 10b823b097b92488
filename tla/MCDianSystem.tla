---------------------------- MODULE MCDianSystem ----------------------------
(* Instances of DianSystem for TLC.                                        *)
EXTENDS DianSystem

\* What the clients of the instance send.
TestRequests ==
  {Call("OPTIONS", NoSession, "full")}
  \cup {Setup(k) : k \in Keys}
  \cup {Call("PLAY", s, r) : s \in SessionIds \cup {NoSession}, r \in {"slice", "full"}}
  \cup {Call("TEARDOWN", s, "full") : s \in SessionIds \cup {NoSession}}

=============================================================================
