------------------------- MODULE DianServerProperties -------------------------
(***************************************************************************)
(* What makes the worker pool of DianServer correct, the strengthening of  *)
(* its invariants that is inductive, and the abstract specification the    *)
(* pool implements, SessionRegistry.                                       *)
(***************************************************************************)
EXTENDS DianServer

Serving(t) == pc[t] \notin {"accept", "dead"}

Served(c) == \E t \in Threads : Serving(t) /\ cur[t] = c

\* A connection is served by one worker at a time: without it the requests of
\* one peer would be read by two loops (server.py:34-39).
OneWorkerPerConn ==
  \A t, u \in Threads : Serving(t) /\ Serving(u) /\ cur[t] = cur[u] => t = u

OwnedLabels == {"owned", "media", "lastbody", "closing", "popping"}

\* Once a worker has seen that the session is its connection's (line 75 or 92)
\* the unlocked accesses that follow (79, 81, 96, 97) still find it there: no
\* other worker can have torn it down in between.
OwnedSession ==
  \A t \in Threads :
    pc[t] \in OwnedLabels =>
      req[t].session \in SessionIds /\ sessions[req[t].session] = cur[t]

\* ... and it is that connection both halves of the answer go to, even when the
\* request is one that a reset made the worker handle again (lines 40-43).
OwnedAnswersOwn ==
  \A t \in Threads :
    /\ pc[t] \in OwnedLabels => sock[t] = cur[t]
    /\ pc[t] \in {"media", "lastbody"} => out[t] = cur[t]

\* The KeyError of the unlocked dict (lines 75 and 92) only ends a worker that
\* was handed the id of another connection's session, which is gone for good.
KeyErrorOnlyForeign ==
  \A t \in Threads : cause[t] = "keyerror" =>
    /\ req[t].session \in SessionIds /\ sessions[req[t].session] = NoConn
    /\ grant[req[t].session].conn \notin {NoConn, cur[t]}

\* With the Windows errno a reset never makes a worker handle a request of
\* another connection (lines 40-43): `req` is the connection's own.
HandlesOwnRequest ==
  ResetErrno = 10054 =>
    \A t \in Threads : pc[t] \in {"handle", "found", "owned"} => sock[t] = cur[t]

\* Media (206) only reaches the connection its session was set up on, with the
\* right key if the server asks for one, and only because that connection asked
\* for it: the worker that sends it handles a PLAY it has read there (lines 56-62,
\* 75-81, base.py:217, 234).
MediaToGrantee ==
  \A c \in Conns :
    reply'[c].status = 206 /\ reply'[c] # reply[c] =>
      LET s == reply'[c].session IN
      /\ sessions[s] = c /\ grant[s].conn = c
      /\ UseAuth => grant[s].auth = "right"
      /\ \E t \in Threads :
           pc[t] = "owned" /\ cur[t] = c /\ sock[t] = c /\ req[t].method = "PLAY" /\ req[t].session = s

MediaOnlyToGrantee == [][MediaToGrantee]_vars

\* A session that lost its worker: nobody reads its connection any more.
Orphan(s) == sessions[s] # NoConn /\ ~Served(sessions[s])

\* Sessions are only removed by a TEARDOWN on their own connection (line 97),
\* so one that outlives its worker, or the second one of a connection, is never
\* removed: the dict keeps it, its file and its socket.
OrphanStable == [][\A s \in SessionIds : Orphan(s) => Orphan(s)']_vars

-----------------------------------------------------------------------------
(* The inductive invariant: why the properties above hold                  *)

Accepted == {"open", "broken", "closed"}

\* A connection a worker reads, or a session belongs to, left the queue.
LinksAccepted ==
  /\ \A t \in Threads : Serving(t) => cur[t] \in Conns /\ link[cur[t]] \in Accepted
  /\ \A s \in SessionIds : grant[s].conn # NoConn => link[grant[s].conn] \in Accepted

\* A session belongs to the connection its id was made for.
SessionsGranted ==
  /\ \A s \in SessionIds : sessions[s] # NoConn => grant[s].conn = sessions[s]
  /\ UseAuth => \A s \in SessionIds : grant[s].conn # NoConn => grant[s].auth = "right"

Granted(r) == r \in Requests /\ r.session \in SessionIds => grant[r.session].conn # NoConn

\* Whoever names an id, names one that was made.
NamedIdsGranted ==
  /\ \A s \in known : grant[s].conn # NoConn
  /\ \A c \in Conns : Granted(inbox[c])
  /\ \A t \in Threads : Granted(req[t])

\* A worker handles a request it has read, if on an earlier connection then one
\* it has closed since, and that cannot name a session of this connection.
RequestsRead ==
  \A t \in Threads :
    /\ (req[t] # NoRequest) <=> (sock[t] # NoConn)
    /\ pc[t] \in {"handle", "found"} \cup OwnedLabels \cup BodyLabels => req[t] # NoRequest
    /\ pc[t] \in BodyLabels => out[t] = cur[t] /\ sock[t] = cur[t]
    /\ pc[t] = "popping" => link[cur[t]] = "closed"
    /\ (pc[t] = "accept" \/ (Serving(t) /\ sock[t] # cur[t])) /\ sock[t] # NoConn =>
         link[sock[t]] = "closed"
    /\ Serving(t) /\ sock[t] # cur[t] /\ req[t] # NoRequest /\ req[t].session \in SessionIds =>
         grant[req[t].session].conn # cur[t]

\* A session just looked up may be gone only if it is another connection's.
FoundSession ==
  \A t \in Threads : pc[t] = "found" =>
    LET s == req[t].session IN
    /\ s \in SessionIds /\ grant[s].conn # NoConn
    /\ grant[s].conn = cur[t] => sessions[s] = cur[t]

CauseOfDeath == \A t \in Threads : cause[t] # "none" => pc[t] = "dead"

PoolInv ==
  /\ TypeOK
  /\ LinksAccepted
  /\ OneWorkerPerConn
  /\ SessionsGranted
  /\ NamedIdsGranted
  /\ RequestsRead
  /\ FoundSession
  /\ OwnedSession
  /\ CauseOfDeath
  /\ KeyErrorOnlyForeign

-----------------------------------------------------------------------------
(* What the pool promises about its sessions: module SessionRegistry       *)

Registry == INSTANCE SessionRegistry WITH
  issued <- {s \in SessionIds : grant[s].conn # NoConn},
  owner <- sessions,
  shown <- [c \in Conns |-> IF reply[c].status = 206 THEN reply[c].session ELSE NoSession]

\* The unlocked dict behaves as the registry: an id is handed out once, belongs
\* to one connection, and never comes back after its TEARDOWN.
ImplementsRegistry == Registry!Spec

=============================================================================
