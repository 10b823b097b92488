---------------------------- MODULE MCDianServer ----------------------------
(* Instances of DianServer for TLC.                                        *)
EXTENDS DianServerProperties, TLC

Req(m, s) ==
  [method |-> m, transport |-> TRUE, auth |-> "right", url |-> "file",
   session |-> s, range |-> "full"]

\* The requests about sessions, from peers with the right key or none.
SessionRequests ==
  {Req("SETUP", NoSession), [Req("SETUP", NoSession) EXCEPT !.auth = "absent"]}
  \cup {Req(m, s) : m \in {"PLAY", "TEARDOWN"}, s \in SessionIds}

\* Every way a request can be refused, or end its worker.
FaultyRequests ==
  {Req("OPTIONS", NoSession), Req("OTHER", NoSession), Req("GARBLED", NoSession),
   [Req("SETUP", NoSession) EXCEPT !.transport = FALSE],
   [Req("SETUP", NoSession) EXCEPT !.auth = "wrong"],
   Req("PLAY", NoSession), Req("TEARDOWN", BadSession)}
  \cup {[Req("SETUP", NoSession) EXCEPT !.url = u] : u \in {"missing", "directory", "invalid"}}
  \cup {[Req("PLAY", s) EXCEPT !.range = r] :
          s \in SessionIds, r \in {"open", "backward"}}

AllRequests == SessionRequests \cup FaultyRequests

Symmetry == Permutations(Threads) \cup Permutations(Conns) \cup Permutations(SessionIds)

=============================================================================
