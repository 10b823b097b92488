----------------------------- MODULE DianServer -----------------------------
(***************************************************************************)
(* The worker pool of the Python server, src/model-2.3/dian/server.py, and *)
(* the Session objects of base.py it keeps.  Every worker runs             *)
(* _thread_boot: it accepts a connection, serves its requests one after    *)
(* the other until a TEARDOWN or a connection reset ends the inner loop,   *)
(* and accepts the next one.  The workers share one dict, _sessions, and   *)
(* no lock: under the interpreter lock one dict operation is atomic, a     *)
(* sequence of them is not, so every access to the dict starts a new step. *)
(*                                                                         *)
(* Peers are arbitrary TCP clients that keep one request outstanding (as   *)
(* client.py:21-23 does), and may disconnect or abort at any moment.       *)
(***************************************************************************)
EXTENDS Naturals, FiniteSets

CONSTANTS
  Threads,     \* the workers; _thread_num = Cardinality(Threads)
  Conns,       \* the connections ever made to the server
  SessionIds,  \* the values uuid.uuid4() returns, each of them once
  Requests,    \* the requests peers may send
  UseAuth,     \* _use_auth
  ResetErrno,  \* errno of ConnectionResetError: 10054 (Windows) or 104 (Linux)
  NoConn, NoRequest,
  NoSession,   \* no Session header
  BadSession   \* a Session header uuid.UUID() cannot parse

Methods == {"OPTIONS", "SETUP", "PLAY", "TEARDOWN", "OTHER", "GARBLED"}

(***************************************************************************)
(* What _thread_boot and Session tell apart in a request.  "GARBLED" is a  *)
(* head that RequestHead_re does not match; the kinds of Range are those   *)
(* of Session.play (module PlayRange computes them).                       *)
(***************************************************************************)
RequestType ==
  [method: Methods, transport: BOOLEAN, auth: {"absent", "wrong", "right"},
   url: {"file", "missing", "directory", "invalid"}, session: SessionIds \cup {NoSession, BadSession},
   range: {"full", "slice", "open", "backward", "nomatch"}]

ASSUME ConstantAssumption ==
  /\ Requests \subseteq RequestType
  /\ UseAuth \in BOOLEAN
  /\ ResetErrno \in {10054, 104}
  /\ NoConn \notin Conns
  /\ NoRequest \notin Requests
  /\ NoSession \notin SessionIds /\ BadSession \notin SessionIds

VARIABLES
  listening,  \* the listening socket of the server is open
  link,       \* server end of each connection; "broken" has raised its reset
  peer,       \* client end of each connection
  inbox,      \* the request in flight on each connection
  waiting,    \* the peer waits for the answer to a request
  reply,      \* the last answer the peer received
  pc,         \* where each worker is in _thread_boot
  cur,        \* its local variable `socket`
  req,        \* its local variable `req`, which outlives an iteration ...
  sock,       \* ... and req.sock
  out,        \* the socket the response under way goes to
  sessions,   \* the dict _sessions: the .socket of a Session, NoConn if no key
  grant,      \* history: the connection and credentials each id was made for
  known,      \* history: the ids that reached a peer
  cause       \* history: what ended a worker

answerVars == <<reply, waiting, known>>
netVars  == <<listening, link, peer, inbox, answerVars>>
threadVars == <<pc, cur, req, sock, out, cause>>
vars == <<netVars, threadVars, sessions, grant>>

\* Between the two sends of an answer: an empty body is to follow, the media, or
\* the empty body of the answer to a TEARDOWN.
BodyLabels == {"body", "media", "lastbody"}
Labels == {"accept", "read", "handle", "found", "owned", "closing", "popping", "dead"} \cup BodyLabels
Causes == {"none", "eof", "reset", "garbled", "unbound", "send", "uuid", "open", "range", "keyerror"}
NoGrant == [conn |-> NoConn, auth |-> "absent"]
Reply == [status: {0, 200, 206, 400, 401, 403, 404, 453, 454, 455, 461},
          session: SessionIds \cup {NoSession}]
Answer(n, s) == [status |-> n, session |-> s]

TypeOK ==
  /\ listening \in BOOLEAN
  /\ link \in [Conns -> {"new", "queued", "open", "broken", "closed"}]
  /\ peer \in [Conns -> {"up", "fin", "rst"}]
  /\ inbox \in [Conns -> Requests \cup {NoRequest}]
  /\ waiting \in [Conns -> BOOLEAN]
  /\ reply \in [Conns -> Reply]
  /\ pc \in [Threads -> Labels]
  /\ cur \in [Threads -> Conns \cup {NoConn}]
  /\ req \in [Threads -> Requests \cup {NoRequest}]
  /\ sock \in [Threads -> Conns \cup {NoConn}]
  /\ out \in [Threads -> Conns \cup {NoConn}]
  /\ sessions \in [SessionIds -> Conns \cup {NoConn}]
  /\ grant \in [SessionIds -> [conn: Conns \cup {NoConn}, auth: {"absent", "wrong", "right"}]]
  /\ known \subseteq SessionIds
  /\ cause \in [Threads -> Causes]

\* The state once start() has bound and started every worker.
Init ==
  /\ listening = TRUE
  /\ link = [c \in Conns |-> "new"]
  /\ peer = [c \in Conns |-> "up"]
  /\ inbox = [c \in Conns |-> NoRequest]
  /\ waiting = [c \in Conns |-> FALSE]
  /\ reply = [c \in Conns |-> Answer(0, NoSession)]
  /\ pc = [t \in Threads |-> "accept"]
  /\ cur = [t \in Threads |-> NoConn]
  /\ req = [t \in Threads |-> NoRequest]
  /\ sock = [t \in Threads |-> NoConn]
  /\ out = [t \in Threads |-> NoConn]
  /\ sessions = [s \in SessionIds |-> NoConn]
  /\ grant = [s \in SessionIds |-> NoGrant]
  /\ known = {}
  /\ cause = [t \in Threads |-> "none"]

-----------------------------------------------------------------------------
(* Peers (client.py, or any other TCP client)                              *)

Queued == {c \in Conns : link[c] = "queued"}

\* listen(_thread_num) bounds the connections the kernel holds for accept.
Connect(c) ==
  /\ listening
  /\ link[c] = "new" /\ peer[c] = "up"
  /\ Cardinality(Queued) < Cardinality(Threads)
  /\ link' = [link EXCEPT ![c] = "queued"]
  /\ UNCHANGED <<listening, peer, inbox, answerVars, threadVars, sessions, grant>>

\* A peer only names ids that left the server: nobody guesses a uuid.
Send(c, r) ==
  /\ link[c] \in {"queued", "open"} /\ peer[c] = "up"
  /\ ~waiting[c]
  /\ r.session \in known \cup {NoSession, BadSession}
  /\ inbox' = [inbox EXCEPT ![c] = r]
  /\ waiting' = [waiting EXCEPT ![c] = TRUE]
  /\ UNCHANGED <<listening, link, peer, reply, known, threadVars, sessions, grant>>

\* The peer closes its end (FIN), after which its kernel may answer with RST.
Disconnect(c) ==
  /\ link[c] # "new" /\ peer[c] = "up"
  /\ peer' = [peer EXCEPT ![c] = "fin"]
  /\ UNCHANGED <<listening, link, inbox, answerVars, threadVars, sessions, grant>>

Abort(c) ==
  /\ link[c] # "new" /\ peer[c] \in {"up", "fin"}
  /\ peer' = [peer EXCEPT ![c] = "rst"]
  /\ UNCHANGED <<listening, link, inbox, answerVars, threadVars, sessions, grant>>

-----------------------------------------------------------------------------
(* How a request of a worker ends                                          *)

Goto(t, l) == pc' = [pc EXCEPT ![t] = l]

(***************************************************************************)
(* An exception no handler of _thread_boot catches ends the worker.  Its   *)
(* frame drops the last reference to the socket, which closes it, unless a *)
(* Session in the dict still refers to it.                                 *)
(***************************************************************************)
Die(t, why) ==
  /\ Goto(t, "dead")
  /\ cause' = [cause EXCEPT ![t] = why]
  /\ link' = IF \E s \in SessionIds : sessions'[s] = cur[t] THEN link
             ELSE [link EXCEPT ![cur[t]] = "closed"]

(***************************************************************************)
(* The two `except ConnectionResetError` clauses: with the Windows errno   *)
(* close and leave the connection, else fall through to what follows, l.   *)
(* The error has been raised then: the next recv returns b'' and the next  *)
(* send raises BrokenPipeError.                                            *)
(***************************************************************************)
ResetCaught(t, l) ==
  /\ UNCHANGED cause
  /\ IF ResetErrno = 10054
     THEN Goto(t, "accept") /\ link' = [link EXCEPT ![cur[t]] = "closed"]
     ELSE Goto(t, l) /\ link' = [link EXCEPT ![cur[t]] = "broken"]

(***************************************************************************)
(* One send on the socket c, after which the worker goes to l.  When the   *)
(* peer has closed, it still succeeds; after a reset it raises             *)
(* ConnectionResetError or another OSError; on a broken socket, or one     *)
(* this server closed, it raises an OSError nobody catches.                *)
(***************************************************************************)
Sendable(c) == link[c] = "open" /\ peer[c] # "rst"

SendOn(t, c, l) ==
  \/ Sendable(c) /\ Goto(t, l) /\ UNCHANGED <<link, cause>>
  \/ link[c] = "open" /\ peer[c] = "rst" /\ ResetCaught(t, "read")
  \/ ~Sendable(c) /\ Die(t, "send")

(***************************************************************************)
(* Response.response() sends twice: first the head of the answer r, which  *)
(* is all a peer waits for.  The worker goes to l, one of BodyLabels, and  *)
(* the peer may ask again or leave before SendBody sends the rest.         *)
(***************************************************************************)
Respond(t, c, r, l) ==
  /\ SendOn(t, c, l)
  /\ out' = IF Sendable(c) THEN [out EXCEPT ![t] = c] ELSE out
  /\ IF Sendable(c) /\ peer[c] = "up"
     THEN /\ reply' = [reply EXCEPT ![c] = r]
          /\ waiting' = [waiting EXCEPT ![c] = FALSE]
          /\ known' = known \cup ({r.session} \cap SessionIds)
     ELSE UNCHANGED answerVars

\* Every request handled by a worker leaves these alone.
Frame == UNCHANGED <<listening, peer, cur, req, sock>>
HandlerFrame == Frame /\ UNCHANGED inbox

\* A worker that answers n and goes on, with no effect on the sessions.
Refuse(t, n) ==
  /\ UNCHANGED <<sessions, grant>>
  /\ Respond(t, sock[t], Answer(n, NoSession), "body")
  /\ HandlerFrame

\* A worker killed by an exception, with no effect on the sessions.
Raise(t, why) ==
  /\ UNCHANGED <<sessions, grant>>
  /\ Die(t, why)
  /\ UNCHANGED <<answerVars, out>>
  /\ HandlerFrame

\* The body follows the head (lines 136-139).  The file of a range that ends well
\* before it starts raises ValueError when it is read, before the send.
SendBody(t) ==
  /\ pc[t] \in BodyLabels
  /\ LET unreadable == pc[t] = "media" /\ req[t].range = "backward" IN
     \/ unreadable /\ Raise(t, "range")
     \/ /\ ~unreadable
        /\ UNCHANGED <<answerVars, sessions, grant>>
        /\ SendOn(t, out[t], IF pc[t] = "lastbody" THEN "closing" ELSE "read")
        /\ out' = [out EXCEPT ![t] = NoConn]
        /\ HandlerFrame

-----------------------------------------------------------------------------
(* _thread_boot: accept and read                                           *)

\* Mutant: the connection is also left to the next worker that accepts.
AcceptTwice(t, c) ==
  /\ pc[t] = "accept" /\ listening /\ link[c] \in {"queued", "open"}
  /\ link' = [link EXCEPT ![c] = "open"]
  /\ cur' = [cur EXCEPT ![t] = c]
  /\ Goto(t, "read")
  /\ UNCHANGED <<listening, peer, inbox, answerVars, req, sock, out, cause, sessions, grant>>

Accept(t, c) ==
  /\ pc[t] = "accept" /\ listening
  /\ link[c] = "queued"
  /\ link' = [link EXCEPT ![c] = "open"]
  /\ cur' = [cur EXCEPT ![t] = c]
  /\ Goto(t, "read")
  /\ UNCHANGED <<listening, peer, inbox, answerVars, req, sock, out, cause, sessions, grant>>

\* Request.unparse returns: data that arrived is read even if the peer is gone.
Read(t) ==
  /\ pc[t] = "read"
  /\ inbox[cur[t]] # NoRequest
  /\ inbox[cur[t]].method # "GARBLED"
  /\ req' = [req EXCEPT ![t] = inbox[cur[t]]]
  /\ sock' = [sock EXCEPT ![t] = cur[t]]
  /\ inbox' = [inbox EXCEPT ![cur[t]] = NoRequest]
  /\ Goto(t, "handle")
  /\ UNCHANGED <<listening, link, peer, answerVars, cur, out, cause, sessions, grant>>

\* unparse raises Exception("Invalid head"): a head that does not match ...
ReadGarbled(t) ==
  /\ pc[t] = "read"
  /\ inbox[cur[t]] # NoRequest
  /\ inbox[cur[t]].method = "GARBLED"
  /\ Raise(t, "garbled")

\* ... or no data at all, since recv returns b'' once the peer has closed, and
\* after the socket has raised its error.
ReadEof(t) ==
  /\ pc[t] = "read"
  /\ inbox[cur[t]] = NoRequest
  /\ peer[cur[t]] = "fin" \/ link[cur[t]] = "broken"
  /\ Raise(t, "eof")

\* Mutant: line 42 without the break of line 43.
ReadResetNoBreak(t) ==
  /\ pc[t] = "read"
  /\ peer[cur[t]] = "rst" /\ link[cur[t]] = "open" /\ req[t] # NoRequest
  /\ link' = [link EXCEPT ![cur[t]] = "closed"]
  /\ Goto(t, "handle")
  /\ UNCHANGED <<sessions, grant, answerVars, inbox, out, cause>> /\ Frame

\* recv raises ConnectionResetError, and what had arrived is lost.  The handler
\* that falls through leaves `req` as an earlier iteration left it, or unbound.
ReadReset(t) ==
  /\ pc[t] = "read"
  /\ peer[cur[t]] = "rst" /\ link[cur[t]] = "open"
  /\ inbox' = [inbox EXCEPT ![cur[t]] = NoRequest]
  /\ UNCHANGED <<sessions, grant, answerVars, out>>
  /\ IF ResetErrno # 10054 /\ req[t] = NoRequest
     THEN Die(t, "unbound")
     ELSE ResetCaught(t, "handle")
  /\ Frame

\* recv fails with another OSError (ConnectionAbortedError, TimeoutError).
ReadFails(t) ==
  /\ pc[t] = "read"
  /\ peer[cur[t]] = "rst" /\ link[cur[t]] = "open"
  /\ Raise(t, "reset")

-----------------------------------------------------------------------------
(* _thread_boot: the handlers                                              *)

Handling(t, m) == pc[t] = "handle" /\ req[t].method = m

Options(t) ==
  \/ Handling(t, "OPTIONS") /\ Refuse(t, 200)
  \/ Handling(t, "OTHER") /\ Refuse(t, 400)

\* Mutant: any key will do.
AnyKey(r) == UseAuth /\ r.auth = "absent"

Unauthorized(r) == UseAuth /\ r.auth # "right"

SetupRefused(t) ==
  /\ Handling(t, "SETUP")
  /\ LET r == req[t] IN
     \/ ~r.transport /\ Refuse(t, 461)
     \/ r.transport /\ Unauthorized(r) /\ r.auth = "absent" /\ Refuse(t, 401)
     \/ r.transport /\ Unauthorized(r) /\ r.auth = "wrong" /\ Refuse(t, 403)
     \/ r.transport /\ ~Unauthorized(r) /\ r.url = "invalid" /\ Refuse(t, 400)
     \/ r.transport /\ ~Unauthorized(r) /\ r.url = "directory" /\ Raise(t, "open")

\* Mutant: ids are drawn again, as nothing checks them against the dict.
ReusedIds == {s \in SessionIds : TRUE}

Fresh == {s \in SessionIds : grant[s].conn = NoConn}

\* uuid4() has made an id; Session() finds no file, and answers 404 with the
\* id although it will not be in the dict, or the Session is entered.
SetupGranted(t) ==
  /\ Handling(t, "SETUP")
  /\ req[t].transport /\ ~Unauthorized(req[t]) /\ req[t].url \in {"file", "missing"}
  /\ \E s \in Fresh :
       /\ grant' = [grant EXCEPT ![s] = [conn |-> cur[t], auth |-> req[t].auth]]
       /\ \/ /\ req[t].url = "missing"
             /\ UNCHANGED sessions
             /\ Respond(t, sock[t], Answer(404, s), "body")
          \/ /\ req[t].url = "file"
             /\ sessions' = [sessions EXCEPT ![s] = cur[t]]
             /\ Respond(t, sock[t], Answer(200, s), "body")
  /\ HandlerFrame

\* Mutant: an unknown session is answered with a status no caller knows.
LookupMistyped(t) ==
  /\ Handling(t, "PLAY") \/ Handling(t, "TEARDOWN")
  /\ req[t].session \in SessionIds
  /\ \/ sessions[req[t].session] = NoConn /\ Refuse(t, 445)
     \/ /\ sessions[req[t].session] # NoConn
        /\ Goto(t, "found")
        /\ UNCHANGED <<link, answerVars, out, cause, sessions, grant>>
        /\ HandlerFrame

\* PLAY and TEARDOWN, first access: `if session not in self._sessions`.
Lookup(t) ==
  /\ Handling(t, "PLAY") \/ Handling(t, "TEARDOWN")
  /\ LET s == req[t].session IN
     \/ s = NoSession /\ Refuse(t, 453)
     \/ s = BadSession /\ Raise(t, "uuid")
     \/ s \in SessionIds /\ sessions[s] = NoConn /\ Refuse(t, 454)
     \/ /\ s \in SessionIds /\ sessions[s] # NoConn
        /\ Goto(t, "found")
        /\ UNCHANGED <<link, answerVars, out, cause, sessions, grant>>
        /\ HandlerFrame

\* Mutant: TEARDOWN and PLAY take any session that exists.
NoOwnerCheck(t) ==
  /\ pc[t] = "found"
  /\ sessions[req[t].session] # NoConn
  /\ Goto(t, "owned")
  /\ UNCHANGED <<link, answerVars, out, cause, sessions, grant>> /\ HandlerFrame

\* Second access: `if self._sessions[session].socket != socket`.  Another
\* worker may have removed the key since Lookup: KeyError.
CheckOwner(t) ==
  /\ pc[t] = "found"
  /\ LET s == req[t].session IN
     \/ sessions[s] = NoConn /\ Raise(t, "keyerror")
     \/ sessions[s] \notin {NoConn, cur[t]} /\ Refuse(t, 455)
     \/ /\ sessions[s] = cur[t]
        /\ Goto(t, "owned")
        /\ UNCHANGED <<link, answerVars, out, cause, sessions, grant>>
        /\ HandlerFrame

\* Third access: self._sessions[session].play(...), answered on the socket of
\* the Session's SETUP request.  int(None) raises TypeError for an open range.
Play(t) ==
  /\ pc[t] = "owned" /\ req[t].method = "PLAY"
  /\ LET s == req[t].session IN
     \/ sessions[s] = NoConn /\ Raise(t, "keyerror")
     \/ /\ sessions[s] # NoConn
        /\ req[t].range \in {"open", "nomatch"}
        /\ Raise(t, "range")
     \/ /\ sessions[s] # NoConn
        /\ req[t].range \in {"full", "slice", "backward"}
        /\ UNCHANGED <<sessions, grant>>
        /\ Respond(t, sessions[s], Answer(206, s), "media")
        /\ HandlerFrame

\* TEARDOWN answers first ...
TeardownAnswer(t) ==
  /\ pc[t] = "owned" /\ req[t].method = "TEARDOWN"
  /\ UNCHANGED <<sessions, grant>>
  /\ Respond(t, sock[t], Answer(200, NoSession), "lastbody")
  /\ HandlerFrame

\* Mutant: lines 96 and 97 swapped.
PopBeforeClose(t) ==
  /\ pc[t] = "closing"
  /\ sessions' = [sessions EXCEPT ![req[t].session] = NoConn]
  /\ Goto(t, "popping")
  /\ UNCHANGED <<link, answerVars, out, cause, grant>> /\ HandlerFrame

\* ... then, once its empty body is sent, closes the file and the socket of the Session ...
TeardownClose(t) ==
  /\ pc[t] = "closing"
  /\ LET s == req[t].session IN
     \/ sessions[s] = NoConn /\ Raise(t, "keyerror")
     \/ /\ sessions[s] # NoConn
        /\ link' = [link EXCEPT ![sessions[s]] = "closed"]
        /\ Goto(t, "popping")
        /\ UNCHANGED <<answerVars, out, cause, sessions, grant>>
        /\ HandlerFrame

\* Mutants: no break after the pop; no pop.
TeardownPopStays(t) ==
  /\ pc[t] = "popping"
  /\ sessions' = [sessions EXCEPT ![req[t].session] = NoConn]
  /\ Goto(t, "read")
  /\ UNCHANGED <<link, answerVars, out, cause, grant>> /\ HandlerFrame
TeardownPopKeeps(t) ==
  /\ pc[t] = "popping"
  /\ Goto(t, "accept")
  /\ UNCHANGED <<link, answerVars, out, cause, sessions, grant>> /\ HandlerFrame

\* ... and pops it, and the worker accepts again.
TeardownPop(t) ==
  /\ pc[t] = "popping"
  /\ LET s == req[t].session IN
     \/ sessions[s] = NoConn /\ Raise(t, "keyerror")
     \/ /\ sessions[s] # NoConn
        /\ sessions' = [sessions EXCEPT ![s] = NoConn]
        /\ Goto(t, "accept")
        /\ UNCHANGED <<link, answerVars, out, cause, grant>>
        /\ HandlerFrame

\* Mutant: the listening socket stays open.
StopSilent ==
  /\ listening /\ \A t \in Threads : pc[t] = "dead"
  /\ UNCHANGED vars

\* start() returns from its joins when every worker is dead, and closes the
\* listening socket: the kernel drops the connections nobody accepted.
Stop ==
  /\ listening
  /\ \A t \in Threads : pc[t] = "dead"
  /\ listening' = FALSE
  /\ link' = [c \in Conns |-> IF link[c] = "queued" THEN "closed" ELSE link[c]]
  /\ UNCHANGED <<peer, inbox, answerVars, threadVars, sessions, grant>>

-----------------------------------------------------------------------------

Peer(c) ==
  \/ Connect(c)
  \/ \E r \in Requests : Send(c, r)
  \/ Disconnect(c)
  \/ Abort(c)

Handler(t) ==
  \/ Options(t) \/ SetupRefused(t) \/ SetupGranted(t)
  \/ Lookup(t) \/ CheckOwner(t) \/ Play(t)
  \/ TeardownAnswer(t) \/ TeardownClose(t) \/ TeardownPop(t)
  \/ SendBody(t)

Worker(t) ==
  \/ \E c \in Conns : Accept(t, c)
  \/ Read(t) \/ ReadGarbled(t) \/ ReadEof(t) \/ ReadReset(t) \/ ReadFails(t)
  \/ Handler(t)

Next == (\E t \in Threads : Worker(t)) \/ Stop \/ (\E c \in Conns : Peer(c))

Spec == Init /\ [][Next]_vars

=============================================================================
