---------------------------- MODULE MCRtspServer ----------------------------
(* Instances of RtspServer for TLC.                                        *)
EXTENDS RtspServerProperties, TLC

Req(m, s) == [method |-> m, session |-> s, cseq |-> TRUE, fate |-> "ok"]

SetupRequests == {Req("SETUP", NoSession)}

SessionRequests ==
  SetupRequests \cup {Req(m, s) : m \in {"PLAY", "TEARDOWN"}, s \in SessionIds}

\* Every other way through _handle.
OtherRequests ==
  {Req("OPTIONS", NoSession), Req("OTHER", NoSession), Req("GARBLED", NoSession),
   Req("PLAY", NoSession)}
  \cup {[Req("SETUP", NoSession) EXCEPT !.fate = f] : f \in {"refused", "badurl", "throws"}}
  \cup {[Req("PLAY", s) EXCEPT !.fate = f] : f \in {"refused", "throws"}, s \in SessionIds}
  \cup {[Req("PLAY", s) EXCEPT !.cseq = FALSE] : s \in SessionIds}

AllRequests == SessionRequests \cup OtherRequests

Symmetry ==
  Permutations(Threads) \cup Permutations(Conns) \cup Permutations(Handles)
    \cup Permutations(SessionIds)

=============================================================================
