----------------------------- MODULE RtspServer -----------------------------
(***************************************************************************)
(* The threaded C++ server, src/cpp/src/server.cpp, with what it uses of   *)
(* base.cpp.  Every thread of start() accepts a connection and serves its  *)
(* requests until the socket fails or a request is bad.  The threads share *)
(* the map `sessions` under the mutex `sessions_lock`, which they release  *)
(* between looking a session up, using it and erasing it.                  *)
(*                                                                         *)
(* A thread knows its connection by a SOCKET handle only.  The kernel may  *)
(* give a handle that was closed to the next connection, and both close()  *)
(* and the destructor of class socket close it (base.cpp:27-30, 92-96).    *)
(*                                                                         *)
(* The library as server-main.cpp uses it: a play callback, no others.     *)
(* Peers keep one request outstanding.                                     *)
(***************************************************************************)
EXTENDS Naturals, FiniteSets

CONSTANTS
  Threads,     \* started by start(thread_num)
  Conns,       \* the connections ever made to the server
  Handles,     \* the SOCKET values the kernel uses for them
  SessionIds,  \* the values of to_string(rand()) + to_string(rand())
  Requests,    \* the requests peers may send
  Resets,      \* the connections whose peers may reset
  NoConn, NoHandle, NoRequest, NoSession, NoThread

(***************************************************************************)
(* What _handle and the callback tell apart.  "OTHER" is a method without  *)
(* a handler, "GARBLED" a head parseThis refuses.  The fate of a request   *)
(* is what becomes of it once its session was found, or of a SETUP:        *)
(* answered (ok), refused (401; 404, 400 or 416), or an exception, from    *)
(* getURI (badurl) or after it (throws: no TCP transport; stoi).           *)
(***************************************************************************)
RequestType ==
  [method: {"OPTIONS", "SETUP", "PLAY", "TEARDOWN", "OTHER", "GARBLED"},
   session: SessionIds \cup {NoSession}, cseq: BOOLEAN,
   fate: {"ok", "refused", "badurl", "throws"}]

ASSUME RtspAssumption ==
  /\ Requests \subseteq RequestType
  /\ Resets \subseteq Conns
  /\ NoConn \notin Conns /\ NoThread \notin Threads /\ NoSession \notin SessionIds
  /\ NoHandle \notin Handles
  /\ NoRequest \notin RequestType
  /\ IsFiniteSet(Handles) /\ IsFiniteSet(Conns) /\ Cardinality(Conns) <= Cardinality(Handles)

VARIABLES
  link,      \* each connection, on the server's side
  peer,      \* its other end
  inbox,     \* the request in flight on it
  waiting,   \* the peer waits for an answer
  reply,     \* the last answer it got; .session is the id SETUP or PLAY name
  conn,      \* the kernel's table: the connection of each handle
  pc,        \* where each thread is
  sock,      \* its local variable `client`
  req,       \* its local variable `request`
  id,        \* its local variable `session.id`
  sessions,  \* the map; "blank" is what operator[] makes of a missing key
  mutex,     \* the thread that holds sessions_lock between two steps
  crashed,   \* what ended the process: an exception nobody caught, or a bad access
  stray,     \* history: a destructor closed another thread's connection
  users      \* history: the connections that were told or named a session

netVars == <<link, peer, inbox, waiting, reply>>
threadVars == <<pc, sock, req, id>>
vars == <<netVars, conn, threadVars, sessions, mutex, crashed, stray, users>>

Labels == {"accept", "read", "handle", "named", "inserted", "found", "playing",
           "played", "erasing", "bad", "closed", "leaving"}
Answer(n, s) == [status |-> n, session |-> s]
Empty == [method |-> "OTHER", session |-> NoSession, cseq |-> FALSE, fate |-> "ok"]
\* The request of a thread: read from a peer, or what an error left of one.
Parsed == RequestType \cup {NoRequest}

TypeOK ==
  /\ link \in [Conns -> {"new", "queued", "open", "closed"}]
  /\ peer \in [Conns -> {"up", "fin", "rst"}]
  /\ inbox \in [Conns -> Requests \cup {NoRequest}]
  /\ waiting \in [Conns -> BOOLEAN]
  /\ reply \in [Conns -> [status: {0, 200, 206, 400, 401, 404, 405, 454, 500},
                          session: SessionIds \cup {NoSession}]]
  /\ conn \in [Handles -> Conns \cup {NoConn}]
  /\ pc \in [Threads -> Labels]
  /\ sock \in [Threads -> Handles \cup {NoHandle}]
  /\ req \in [Threads -> Parsed]
  /\ id \in [Threads -> SessionIds \cup {NoSession}]
  /\ sessions \in [SessionIds -> {"none", "setup", "blank"}]
  /\ mutex \in Threads \cup {NoThread}
  /\ crashed \in {"no", "thrown", "dangling"} /\ stray \in BOOLEAN
  /\ users \in [SessionIds -> SUBSET Conns]

Init ==
  /\ link = [c \in Conns |-> "new"]
  /\ peer = [c \in Conns |-> "up"]
  /\ inbox = [c \in Conns |-> NoRequest]
  /\ waiting = [c \in Conns |-> FALSE]
  /\ reply = [c \in Conns |-> Answer(0, NoSession)]
  /\ conn = [h \in Handles |-> NoConn]
  /\ pc = [t \in Threads |-> "accept"]
  /\ sock = [t \in Threads |-> NoHandle]
  /\ req = [t \in Threads |-> NoRequest]
  /\ id = [t \in Threads |-> NoSession]
  /\ sessions = [s \in SessionIds |-> "none"]
  /\ mutex = NoThread
  /\ crashed = "no" /\ stray = FALSE
  /\ users = [s \in SessionIds |-> {}]

-----------------------------------------------------------------------------
(* Peers                                                                   *)

Connect(c) ==
  /\ crashed = "no"
  /\ link[c] = "new" /\ peer[c] = "up"
  /\ link' = [link EXCEPT ![c] = "queued"]
  /\ UNCHANGED <<peer, inbox, waiting, reply, conn, threadVars, sessions, mutex, crashed, stray, users>>

\* A peer names a session some peer was told of.
Told == {s \in SessionIds : users[s] # {}}

Named(s, c) == users' = [x \in SessionIds |-> IF x = s THEN users[x] \cup {c} ELSE users[x]]

Send(c, r) ==
  /\ link[c] \in {"queued", "open"} /\ peer[c] = "up"
  /\ ~waiting[c]
  /\ r.session \in Told \cup {NoSession}
  /\ inbox' = [inbox EXCEPT ![c] = r]
  /\ waiting' = [waiting EXCEPT ![c] = TRUE]
  /\ Named(r.session, c)
  /\ UNCHANGED <<link, peer, reply, conn, threadVars, sessions, mutex, crashed, stray>>

Disconnect(c) ==
  /\ link[c] # "new" /\ peer[c] = "up"
  /\ peer' = [peer EXCEPT ![c] = "fin"]
  /\ UNCHANGED <<link, inbox, waiting, reply, conn, threadVars, sessions, mutex, crashed, stray, users>>

\* The peer resets: it aborts, or its kernel answers what comes after its FIN.
Abort(c) ==
  /\ c \in Resets /\ link[c] # "new" /\ peer[c] # "rst"
  /\ peer' = [peer EXCEPT ![c] = "rst"]
  /\ UNCHANGED <<link, inbox, waiting, reply, conn, threadVars, sessions, mutex, crashed, stray, users>>

-----------------------------------------------------------------------------
(* Sockets                                                                 *)

Mine(t) == conn[sock[t]]
Goto(t, l) == pc' = [pc EXCEPT ![t] = l]

\* The handle is no socket any more, or the peer's reset was received.
Broken(t) == Mine(t) \in {NoConn} \cup {c \in Conns : peer[c] = "rst"}

\* send() to a peer that is there, or that has closed and does not read it.
Deliver(t, r) ==
  /\ ~Broken(t)
  /\ IF peer[Mine(t)] = "up"
     THEN /\ reply' = [reply EXCEPT ![Mine(t)] = r]
          /\ waiting' = [waiting EXCEPT ![Mine(t)] = FALSE]
     ELSE UNCHANGED <<reply, waiting>>
  /\ UNCHANGED <<link, peer, inbox>>

\* closesocket: whatever connection the handle stands for now is closed.
CloseHandle(t) ==
  /\ conn' = [conn EXCEPT ![sock[t]] = NoConn]
  /\ link' = [c \in Conns |-> IF c = Mine(t) THEN "closed" ELSE link[c]]

\* Response::send in a handler.  SendError carries no code (base.cpp:78), so the
\* test for 10054 (line 81) fails and the thread goes on reading.
Respond(t, r, l) ==
  /\ \/ Deliver(t, r) /\ Goto(t, l)
     \/ Broken(t) /\ Goto(t, "read") /\ UNCHANGED netVars
  /\ UNCHANGED <<conn, sock, req, crashed, stray>>

Lock(t) == mutex \in {NoThread, t}

-----------------------------------------------------------------------------
(* start(): accept, parse, and the bad ends of a connection                *)

Accept(t, c) ==
  /\ pc[t] = "accept" /\ link[c] = "queued"
  /\ \E h \in Handles :
       /\ conn[h] = NoConn
       /\ conn' = [conn EXCEPT ![h] = c]
       /\ sock' = [sock EXCEPT ![t] = h]
  /\ link' = [link EXCEPT ![c] = "open"]
  /\ Goto(t, "read")
  /\ UNCHANGED <<peer, inbox, waiting, reply, req, id, sessions, mutex, crashed, stray, users>>

\* The server is gone, and its kernel closes every connection.
Crash(why) ==
  /\ crashed' = why
  /\ link' = [c \in Conns |-> IF link[c] = "new" THEN "new" ELSE "closed"]
  /\ UNCHANGED <<peer, inbox, waiting, reply, conn, threadVars, sessions, mutex, stray, users>>

\* std::terminate: accept() may fail on a connection that was reset in the queue,
\* and nobody catches its AcceptError (server.cpp:47, base.cpp:54-57).
AcceptFails(t) ==
  /\ pc[t] = "accept"
  /\ \E c \in Conns : link[c] = "queued" /\ peer[c] = "rst"
  /\ Crash("thrown")

ReadFrame == UNCHANGED <<link, peer, waiting, reply, conn, sock, id, sessions, mutex, crashed, stray, users>>

\* parseThis returns a request.
Read(t) ==
  /\ pc[t] = "read" /\ ~Broken(t)
  /\ inbox[Mine(t)] # NoRequest /\ inbox[Mine(t)].method # "GARBLED"
  /\ req' = [req EXCEPT ![t] = inbox[Mine(t)]]
  /\ inbox' = [inbox EXCEPT ![Mine(t)] = NoRequest]
  /\ Goto(t, "handle")
  /\ ReadFrame

\* "parse error": a bad head, or the zero bytes recvUntil collects once recv
\* returns 0 because the peer has closed (base.cpp:115-119).
ReadBad(t) ==
  /\ pc[t] = "read" /\ ~Broken(t)
  /\ \/ inbox[Mine(t)] # NoRequest /\ inbox[Mine(t)].method = "GARBLED"
     \/ inbox[Mine(t)] = NoRequest /\ peer[Mine(t)] = "fin"
  /\ inbox' = [inbox EXCEPT ![Mine(t)] = NoRequest]
  /\ Goto(t, "bad")
  /\ UNCHANGED req
  /\ ReadFrame

\* Mutant: client.close() before the break of line 61.
ReadResetCloses(t) ==
  /\ pc[t] = "read" /\ Mine(t) # NoConn /\ Broken(t)
  /\ CloseHandle(t)
  /\ Goto(t, "leaving")
  /\ UNCHANGED <<peer, inbox, waiting, reply, sock, req, id, sessions, mutex, crashed, stray, users>>

\* RecvError: 10054 leaves the connection ...
ReadReset(t) ==
  /\ pc[t] = "read" /\ Mine(t) # NoConn /\ Broken(t)
  /\ inbox' = [inbox EXCEPT ![Mine(t)] = NoRequest]
  /\ Goto(t, "leaving")
  /\ UNCHANGED req
  /\ ReadFrame

\* What is left of a request whose last headers are lost, and what becomes of it: a
\* SETUP without its credentials is refused and without Transport throws, a PLAY
\* without Range gets the whole file.
Fates(r) ==
  {r.fate} \cup {f \in {"refused", "throws", "ok"} :
                   r.fate # "badurl" /\ ((f = "ok") <=> (r.method # "SETUP"))}

Parts(r) ==
  [method: {r.method}, session: {r.session, NoSession}, cseq: {r.cseq, FALSE}, fate: Fates(r)]

\* ... and any other code, a handle closed by someone else for one, falls through
\* to _handle with as much of the request as was parsed.
ReadFails(t) ==
  /\ pc[t] = "read" /\ Broken(t)
  /\ \/ req' = [req EXCEPT ![t] = Empty]
     \/ \E c \in Conns :
          /\ c = Mine(t) \/ (Mine(t) = NoConn /\ link[c] = "closed")
          /\ inbox[c] # NoRequest /\ inbox[c].method # "GARBLED"
          /\ \E r \in Parts(inbox[c]) : req' = [req EXCEPT ![t] = r]
  /\ inbox' = [c \in Conns |-> IF c = Mine(t) THEN NoRequest ELSE inbox[c]]
  /\ Goto(t, "handle")
  /\ ReadFrame

\* The two catch (...): answer 400 or 500, close, leave ...
AnswerBad(t) ==
  /\ pc[t] = "bad" /\ ~Broken(t)
  /\ IF peer[Mine(t)] = "up"
     THEN /\ \E n \in {400, 500} : reply' = [reply EXCEPT ![Mine(t)] = Answer(n, NoSession)]
          /\ waiting' = [waiting EXCEPT ![Mine(t)] = FALSE]
     ELSE UNCHANGED <<reply, waiting>>
  /\ CloseHandle(t)
  /\ Goto(t, "closed")
  /\ UNCHANGED <<peer, inbox, sock, req, id, sessions, mutex, crashed, stray, users>>

\* Mutant: the send in the handler always fails, "Response already sended".
AnswerBadAgain(t) == pc[t] = "bad" /\ Crash("thrown")

\* ... but an exception of that send has no handler left.
AnswerBadFails(t) == pc[t] = "bad" /\ Broken(t) /\ Crash("thrown")

\* The destructor of `client` at the end of the outer loop's body.
Leave(t) ==
  /\ pc[t] \in {"leaving", "closed"}
  /\ CloseHandle(t)
  /\ stray' = (stray \/ (pc[t] = "closed" /\ Mine(t) # NoConn))
  /\ Goto(t, "accept")
  /\ sock' = [sock EXCEPT ![t] = NoHandle]
  /\ req' = [req EXCEPT ![t] = NoRequest]
  /\ id' = [id EXCEPT ![t] = NoSession]
  /\ UNCHANGED <<peer, inbox, waiting, reply, sessions, mutex, crashed, users>>

-----------------------------------------------------------------------------
(* _handle                                                                 *)

Handling(t, m) == pc[t] = "handle" /\ req[t].method = m

\* A step of a handler that sends nothing.
Quietly(t, l) == Goto(t, l) /\ UNCHANGED <<netVars, conn, sock, req, crashed, stray>>

Options(t) ==
  /\ \/ Handling(t, "OPTIONS") /\ Respond(t, Answer(200, NoSession), "read")
     \/ Handling(t, "OTHER") /\ Respond(t, Answer(405, NoSession), "read")
  /\ UNCHANGED <<id, sessions, mutex, users>>

\* getURI; then an id no session has, chosen under the lock.
SetupName(t) ==
  /\ Handling(t, "SETUP")
  /\ \/ req[t].fate = "badurl" /\ Quietly(t, "bad") /\ UNCHANGED id
     \/ /\ req[t].fate # "badurl" /\ Lock(t)
        /\ \E s \in SessionIds : sessions[s] = "none" /\ id' = [id EXCEPT ![t] = s]
        /\ Quietly(t, "named")
  /\ UNCHANGED <<sessions, mutex, users>>

SetupRefused(t) ==
  /\ pc[t] = "named"
  /\ \/ req[t].fate = "refused" /\ Respond(t, Answer(401, NoSession), "read")
     \/ req[t].fate = "throws" /\ Quietly(t, "bad")
  /\ UNCHANGED <<id, sessions, mutex, users>>

SetupInsert(t) ==
  /\ pc[t] = "named" /\ req[t].fate = "ok" /\ Lock(t)
  /\ sessions' = [sessions EXCEPT ![id[t]] = "setup"]
  /\ Quietly(t, "inserted")
  /\ UNCHANGED <<id, mutex, users>>

SetupAnswer(t) ==
  /\ pc[t] = "inserted"
  /\ Respond(t, Answer(200, id[t]), "read")
  /\ IF Broken(t) THEN UNCHANGED users ELSE Named(id[t], Mine(t))
  /\ UNCHANGED <<id, sessions, mutex>>

Known(s) == s \in SessionIds /\ sessions[s] # "none"

\* Mutants: a status nobody knows; a return without unlock(); no lookup at all.
LookupMistyped(t) ==
  /\ pc[t] = "handle" /\ req[t].method \in {"PLAY", "TEARDOWN"} /\ Lock(t)
  /\ Respond(t, Answer(453, NoSession), "read")
  /\ UNCHANGED <<id, sessions, mutex, users>>
LookupKeepsLock(t) ==
  /\ pc[t] = "handle" /\ req[t].method \in {"PLAY", "TEARDOWN"} /\ Lock(t)
  /\ \/ /\ ~Known(req[t].session)
        /\ Respond(t, Answer(454, NoSession), "read")
        /\ mutex' = t
     \/ /\ Known(req[t].session)
        /\ Quietly(t, "found")
        /\ UNCHANGED mutex
  /\ UNCHANGED <<id, sessions, users>>
LookupUnchecked(t) ==
  /\ pc[t] = "handle" /\ req[t].method \in {"PLAY", "TEARDOWN"} /\ Lock(t)
  /\ req[t].session \in SessionIds
  /\ Quietly(t, "found")
  /\ UNCHANGED <<id, sessions, mutex, users>>

\* PLAY and TEARDOWN: the 454 is sent under the lock, which the exception of a
\* send that fails never releases.
Lookup(t) ==
  /\ pc[t] = "handle" /\ req[t].method \in {"PLAY", "TEARDOWN"} /\ Lock(t)
  /\ \/ /\ ~Known(req[t].session)
        /\ Respond(t, Answer(454, NoSession), "read")
        /\ mutex' = IF Broken(t) THEN t ELSE mutex
     \/ /\ Known(req[t].session)
        /\ Quietly(t, "found")
        /\ UNCHANGED mutex
  /\ UNCHANGED <<id, sessions, users>>

\* TEARDOWN answers, then erases, and the connection goes on.
TeardownAnswer(t) ==
  /\ pc[t] = "found" /\ req[t].method = "TEARDOWN"
  /\ Respond(t, Answer(200, NoSession), "erasing")
  /\ UNCHANGED <<id, sessions, mutex, users>>

TeardownErase(t) ==
  /\ pc[t] = "erasing" /\ Lock(t)
  /\ sessions' = [sessions EXCEPT ![req[t].session] = "none"]
  /\ Quietly(t, "read")
  /\ UNCHANGED <<id, mutex, users>>

\* PLAY takes the lock again for sessions[...], which inserts a missing key.
PlayRefer(t) ==
  /\ pc[t] = "found" /\ req[t].method = "PLAY"
  /\ \/ /\ ~req[t].cseq
        /\ Respond(t, Answer(400, NoSession), "read")
        /\ UNCHANGED sessions
     \/ /\ req[t].cseq /\ Lock(t)
        /\ sessions' = [sessions EXCEPT ![req[t].session] = IF @ = "none" THEN "blank" ELSE @]
        /\ Quietly(t, "playing")
  /\ UNCHANGED <<id, mutex, users>>

\* The play callback, which answers by itself.  Once the response has a body, it
\* keeps it, sent or not.
Play(t) ==
  /\ pc[t] = "playing"
  /\ \/ /\ req[t].fate = "ok"
        /\ Deliver(t, Answer(206, req[t].session)) \/ (Broken(t) /\ UNCHANGED netVars)
        /\ Goto(t, "played")
        /\ UNCHANGED <<conn, sock, req, crashed, stray>>
     \/ req[t].fate = "refused" /\ Respond(t, Answer(404, NoSession), "read")
     \/ req[t].fate \in {"badurl", "throws"} /\ Quietly(t, "bad")
  /\ UNCHANGED <<id, sessions, mutex, users>>

\* ~Response deletes the body, and ~FileStreamReader closes a stream that was a
\* local variable of the callback: whatever the memory holds now.
Dispose(t) ==
  /\ pc[t] = "played"
  /\ \/ Quietly(t, "read") /\ UNCHANGED <<id, sessions, mutex, users>>
     \/ Crash("dangling")

-----------------------------------------------------------------------------

Peer(c) ==
  \/ Connect(c)
  \/ \E r \in Requests : Send(c, r)
  \/ Disconnect(c)
  \/ Abort(c)

Handler(t) ==
  \/ Options(t)
  \/ SetupName(t) \/ SetupRefused(t) \/ SetupInsert(t) \/ SetupAnswer(t)
  \/ Lookup(t) \/ TeardownAnswer(t) \/ TeardownErase(t)
  \/ PlayRefer(t) \/ Play(t) \/ Dispose(t)

Thread(t) ==
  /\ crashed = "no"
  /\ \/ \E c \in Conns : Accept(t, c)
     \/ Read(t) \/ ReadBad(t) \/ ReadReset(t) \/ ReadFails(t)
     \/ AcceptFails(t) \/ AnswerBad(t) \/ AnswerBadFails(t) \/ Leave(t)
     \/ Handler(t)

Next == (\E t \in Threads : Thread(t)) \/ (\E c \in Conns : Peer(c))

Spec == Init /\ [][Next]_vars

\* Every thread is scheduled; peers owe nothing.
FairSpec == Spec /\ \A t \in Threads : WF_vars(Thread(t))

=============================================================================
