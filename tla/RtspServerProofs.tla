-------------------------- MODULE RtspServerProofs --------------------------
(***************************************************************************)
(* Proofs of the safety properties of RtspServer, for any threads,         *)
(* connections, handles, ids and requests.                                 *)
(***************************************************************************)
EXTENDS RtspServerProperties, TLAPS

Busy == Labels \ {"accept", "closed"}
Statuses == {0, 200, 206, 400, 401, 404, 405, 454, 500}
Replies == [status: Statuses, session: SessionIds \cup {NoSession}]

(***************************************************************************)
(* A step of thread t in a handler, which goes on at l: it keeps its       *)
(* socket and its request, and changes at most the one session it names.   *)
(***************************************************************************)
Proceeds(t, l) ==
  /\ pc[t] \in Busy /\ l \in Busy
  /\ pc' = [pc EXCEPT ![t] = l]
  /\ UNCHANGED <<link, peer, inbox, conn, sock, req, crashed, stray>>
  /\ reply' \in [Conns -> Replies] /\ waiting' \in [Conns -> BOOLEAN]
  /\ id' \in [Threads -> SessionIds \cup {NoSession}]
  /\ \A u \in Threads \ {t} : id'[u] = id[u]
  /\ l \in {"named", "inserted"} => id'[t] \in SessionIds
  /\ l \in {"named", "inserted", "found", "erasing", "playing", "played"} => req[t] \in RequestType
  /\ l \in {"found", "erasing", "playing"} => req[t].session \in SessionIds
  /\ l # "handle"

\* What a step of a handler does to the sessions and to who is known to use them.
Touches(t, l) ==
  /\ sessions' \in [SessionIds -> {"none", "setup", "blank"}]
  /\ \A s \in SessionIds :
       /\ sessions'[s] = "none" /\ sessions[s] # "none" => pc[t] = "erasing" /\ req[t].session = s
       /\ sessions'[s] = "blank" /\ sessions[s] # "blank" =>
            pc[t] = "found" /\ req[t].session = s /\ sessions[s] = "none"
  /\ l = "found" => pc[t] = "handle" /\ sessions[req[t].session] # "none"
  /\ l = "erasing" => pc[t] = "found"
  /\ users' \in [SessionIds -> SUBSET Conns]
  /\ \A s \in SessionIds : users[s] \subseteq users'[s]
  /\ mutex' \in Threads \cup {NoThread}
  /\ mutex' # NoThread => mutex # NoThread \/ Broken(t)

\* What the invariant says of a thread that serves a connection.
LEMMA ServingFacts ==
  ASSUME RtspInv, NEW t \in Threads, pc[t] # "accept"
  PROVE  /\ sock[t] \in Handles
         /\ Mine(t) \in Conns \cup {NoConn}
         /\ ~Broken(t) => Mine(t) \in Conns
         /\ Broken(t) /\ pc[t] # "closed" => Hurt
  BY DEF RtspInv, ThreadsReady, TypeOK, Mine, Broken, OwnHandle, Serving, Hurt

\* A step that notes more users, moves no thread to an unready point, and takes
\* from the sessions only what the thread itself erases, keeps the invariant.
LEMMA ProceedsInv ==
  ASSUME RtspInv, NEW t \in Threads, NEW l \in Busy, Proceeds(t, l), Touches(t, l)
  PROVE  RtspInv'
<1> USE DEF RtspInv
<1>1. TypeOK'
  BY DEF TypeOK, Proceeds, Touches, Busy, Replies, Statuses
<1>2. ThreadsReady'
  BY DEF ThreadsReady, TypeOK, Proceeds, Busy
<1>3. HandlesDistinct'
  BY DEF HandlesDistinct, Proceeds
<1>4. OwnHandle'
  BY DEF OwnHandle, Proceeds, Serving, Mine, TypeOK, Busy
<1>5. OnlyFailuresEndService'
  BY ServingFacts DEF OnlyFailuresEndService, Hurt, Proceeds, Touches, Busy
<1>6. UsersNoted'
  <2>1. \A c \in Conns :
          inbox'[c] # NoRequest /\ inbox'[c].session # NoSession => c \in users'[inbox'[c].session]
    <3> SUFFICES ASSUME NEW c \in Conns, inbox[c] # NoRequest, inbox[c].session # NoSession
                 PROVE  c \in users'[inbox[c].session]
      BY DEF Proceeds
    <3>1. inbox[c].session \in SessionIds
      BY RtspAssumption DEF TypeOK, RtspAssumption, RequestType
    <3> QED
      BY <3>1 DEF UsersNoted, Touches
  <2>2. ASSUME ~stray, NEW u \in Threads,
               pc'[u] \in {"handle", "found", "erasing"}, req[u].session # NoSession
        PROVE  Mine(u) \in users'[req[u].session]
    <3>1. pc[u] \in {"handle", "found", "erasing"}
      BY <2>2 DEF Proceeds, Touches, TypeOK
    <3>2. req[u].session \in SessionIds
      BY <2>2, <3>1 DEF ThreadsReady, RequestType
    <3> QED
      BY <2>2, <3>1, <3>2 DEF UsersNoted, Touches
  <2> QED
    BY <2>1, <2>2 DEF UsersNoted, Proceeds, Mine
<1>7. \A s \in SessionIds : Shared(s) => Shared(s)'
  BY DEF Shared, Proceeds, Touches
<1>8. FoundStays'
  <2>1. ASSUME NEW u \in Threads, pc'[u] = "found"
        PROVE  u = t \/ (pc[u] = "found" /\ req[u].session \in SessionIds)
    BY <2>1 DEF Proceeds, TypeOK, ThreadsReady
  <2>2. ASSUME NEW u \in Threads \ {t}, NEW s \in SessionIds, pc[u] = "found", req[u].session = s
        PROVE  sessions'[s] # "none" \/ Shared(s)'
    <3>1. CASE Shared(s)
      BY <1>7, <3>1
    <3>2. CASE sessions[s] # "none" /\ ~stray /\ sessions'[s] = "none"
      <4>1. pc[t] = "erasing" /\ req[t].session = s
        BY <3>2 DEF Touches
      <4>2. Mine(t) # Mine(u)
        BY <2>2, <3>2, <4>1, ServingFacts DEF OwnHandle, HandlesDistinct, Serving, Mine
      <4>3. Mine(t) \in users[s] /\ Mine(u) \in users[s]
        BY <2>2, <3>2, <4>1, RtspAssumption DEF UsersNoted, RtspAssumption
      <4>4. Shared(s)
        BY <4>2, <4>3 DEF Shared
      <4> QED
        BY <1>7, <4>4
    <3>3. sessions[s] # "none" \/ Shared(s)
      BY <2>2 DEF FoundStays
    <3>4. stray => Shared(s)
      BY DEF Shared
    <3> QED
      BY <3>1, <3>2, <3>3, <3>4
  <2>3. pc'[t] = "found" => sessions'[req[t].session] # "none"
    <3> SUFFICES ASSUME pc'[t] = "found" PROVE sessions'[req[t].session] # "none"
      OBVIOUS
    <3>1. l = "found" /\ req[t].session \in SessionIds
      BY DEF Proceeds, TypeOK
    <3> QED
      BY <3>1 DEF Touches
  <2>4. req' = req
    BY DEF Proceeds
  <2>5. \A u \in Threads : pc'[u] = "found" =>
          sessions'[req[u].session] # "none" \/ Shared(req[u].session)'
    BY <2>1, <2>2, <2>3, <2>4
  <2> QED
    BY <2>4, <2>5 DEF FoundStays
<1>9. BlankNeedsSharing'
  BY <1>7 DEF BlankNeedsSharing, Proceeds, Touches, FoundStays
<1> QED
  BY <1>1, <1>2, <1>3, <1>4, <1>5, <1>6, <1>8, <1>9

\* The end of the process changes no more than the links.
LEMMA CrashInv ==
  ASSUME RtspInv, NEW w \in {"thrown", "dangling"}, Crash(w), w = "thrown" => Hurt
  PROVE  RtspInv'
<1> USE DEF RtspInv, Crash, threadVars
<1>1. TypeOK'
  BY DEF TypeOK
<1>2. ThreadsReady' /\ OwnHandle' /\ UsersNoted' /\ FoundStays' /\ BlankNeedsSharing'
  BY DEF ThreadsReady, OwnHandle, Serving, Mine, UsersNoted, FoundStays, BlankNeedsSharing, Shared
<1>3. HandlesDistinct'
  BY DEF HandlesDistinct, TypeOK
<1>4. OnlyFailuresEndService'
  BY DEF OnlyFailuresEndService, Hurt
<1> QED
  BY <1>1, <1>2, <1>3, <1>4

-----------------------------------------------------------------------------
(* The steps of the handlers                                               *)

\* A send, answered or failed, and a step that sends nothing.
LEMMA RespondProceeds ==
  ASSUME RtspInv, NEW t \in Threads, pc[t] \in Busy,
         NEW r \in Replies, NEW l \in Busy, Respond(t, r, l)
  PROVE  /\ UNCHANGED <<link, peer, inbox, conn, sock, req, crashed, stray>>
         /\ reply' \in [Conns -> Replies] /\ waiting' \in [Conns -> BOOLEAN]
         /\ pc' = [pc EXCEPT ![t] = l] \/ pc' = [pc EXCEPT ![t] = "read"]
<1>1. reply \in [Conns -> Replies] /\ waiting \in [Conns -> BOOLEAN]
  BY DEF RtspInv, TypeOK, Replies, Statuses
<1> QED
  BY <1>1 DEF Respond, Deliver, Goto, netVars

LEMMA QuietProceeds ==
  ASSUME RtspInv, NEW t \in Threads, pc[t] \in Busy, NEW l \in Busy, Quietly(t, l)
  PROVE  /\ UNCHANGED <<link, peer, inbox, conn, sock, req, crashed, stray>>
         /\ reply' \in [Conns -> Replies] /\ waiting' \in [Conns -> BOOLEAN]
         /\ pc' = [pc EXCEPT ![t] = l]
  BY DEF Quietly, Goto, netVars, RtspInv, TypeOK, Replies, Statuses

\* A step that leaves the sessions alone touches nothing the invariant rests on.
LEMMA LeavesSessions ==
  ASSUME RtspInv, NEW t \in Threads, NEW l \in Busy \ {"found", "erasing"},
         UNCHANGED <<sessions, mutex, users>>
  PROVE  Touches(t, l)
  BY DEF Touches, RtspInv, TypeOK

LEMMA HandlerInv ==
  ASSUME RtspInv, NEW t \in Threads, Handler(t)
  PROVE  RtspInv'
<1> DEFINE Keeps == \E l \in Busy : Proceeds(t, l) /\ Touches(t, l)
<1> SUFFICES Keeps \/ (pc[t] = "played" /\ Crash("dangling"))
  <2>1. CASE Keeps
    BY <2>1, ProceedsInv
  <2>2. CASE pc[t] = "played" /\ Crash("dangling")
    BY <2>2, CrashInv
  <2> QED
    BY <2>1, <2>2
<1>1. /\ id \in [Threads -> SessionIds \cup {NoSession}]
      /\ sessions \in [SessionIds -> {"none", "setup", "blank"}]
      /\ users \in [SessionIds -> SUBSET Conns]
      /\ mutex \in Threads \cup {NoThread}
  BY DEF RtspInv, TypeOK
<1>2. /\ pc[t] \in {"handle", "named", "inserted", "found", "erasing", "playing", "played"}
             => req[t] \in RequestType /\ req[t].session \in SessionIds \cup {NoSession}
      /\ pc[t] \in {"named", "inserted"} => id[t] \in SessionIds
      /\ pc[t] \in {"found", "erasing", "playing"} => req[t].session \in SessionIds
  BY DEF RtspInv, ThreadsReady, RequestType
<1>3. \A n \in Statuses, s \in SessionIds \cup {NoSession} : Answer(n, s) \in Replies
  BY DEF Answer, Replies
<1>4. ASSUME Options(t) PROVE Keeps
  <2>1. pc[t] \in Busy /\ "read" \in Busy
    BY <1>4 DEF Options, Handling, Busy, Labels
  <2>2. \E r \in Replies : Respond(t, r, "read")
    BY <1>3, <1>4 DEF Options, Statuses
  <2>3. Proceeds(t, "read")
    BY <1>1, <1>4, <2>1, <2>2, RespondProceeds DEF Options, Proceeds
  <2> QED
    BY <1>4, <2>1, <2>3, LeavesSessions DEF Options
<1>5. ASSUME SetupName(t) PROVE Keeps
  <2>1. /\ pc[t] \in Busy /\ {"bad", "named"} \subseteq Busy
        /\ UNCHANGED <<sessions, mutex, users>>
    BY <1>5 DEF SetupName, Handling, Busy, Labels
  <2>2. CASE Quietly(t, "bad") /\ UNCHANGED id
    <3>1. Proceeds(t, "bad")
      BY <1>1, <2>1, <2>2, QuietProceeds DEF Proceeds
    <3> QED
      BY <2>1, <3>1, LeavesSessions
  <2>3. CASE Quietly(t, "named") /\ \E s \in SessionIds : id' = [id EXCEPT ![t] = s]
    <3>1. Proceeds(t, "named")
      BY <1>1, <1>2, <1>5, <2>1, <2>3, QuietProceeds DEF Proceeds, SetupName, Handling
    <3> QED
      BY <2>1, <3>1, LeavesSessions
  <2> QED
    BY <1>5, <2>2, <2>3 DEF SetupName
<1>6. ASSUME SetupRefused(t) PROVE Keeps
  <2>1. /\ pc[t] \in Busy /\ {"bad", "read"} \subseteq Busy
        /\ UNCHANGED <<id, sessions, mutex, users>>
    BY <1>6 DEF SetupRefused, Busy, Labels
  <2>2. CASE Quietly(t, "bad")
    <3>1. Proceeds(t, "bad")
      BY <1>1, <2>1, <2>2, QuietProceeds DEF Proceeds
    <3> QED
      BY <2>1, <3>1, LeavesSessions
  <2>3. CASE Respond(t, Answer(401, NoSession), "read")
    <3>1. Proceeds(t, "read")
      BY <1>1, <1>3, <2>1, <2>3, RespondProceeds DEF Proceeds, Statuses
    <3> QED
      BY <2>1, <3>1, LeavesSessions
  <2> QED
    BY <1>6, <2>2, <2>3 DEF SetupRefused
<1>7. ASSUME SetupInsert(t) PROVE Keeps
  <2>1. pc[t] = "named" /\ pc[t] \in Busy /\ "inserted" \in Busy
    BY <1>7 DEF SetupInsert, Busy, Labels
  <2>2. Proceeds(t, "inserted")
    BY <1>1, <1>2, <1>7, <2>1, QuietProceeds DEF Proceeds, SetupInsert
  <2>3. Touches(t, "inserted")
    BY <1>1, <1>2, <1>7, <2>1 DEF Touches, SetupInsert
  <2> QED
    BY <2>1, <2>2, <2>3
<1>8. ASSUME SetupAnswer(t) PROVE Keeps
  <2>1. /\ pc[t] = "inserted" /\ pc[t] \in Busy /\ "read" \in Busy
        /\ UNCHANGED <<id, sessions, mutex>>
    BY <1>8 DEF SetupAnswer, Busy, Labels
  <2>2. Proceeds(t, "read")
    BY <1>1, <1>2, <1>3, <1>8, <2>1, RespondProceeds DEF Proceeds, SetupAnswer, Statuses
  <2>3. ~Broken(t) => Mine(t) \in Conns
    BY <2>1, ServingFacts
  <2>4. Touches(t, "read")
    BY <1>1, <1>2, <1>8, <2>1, <2>3 DEF Touches, SetupAnswer, Named
  <2> QED
    BY <2>1, <2>2, <2>4
<1>9. ASSUME Lookup(t) PROVE Keeps
  <2>1. /\ pc[t] = "handle" /\ pc[t] \in Busy /\ {"read", "found"} \subseteq Busy
        /\ UNCHANGED <<id, sessions, users>>
    BY <1>9 DEF Lookup, Busy, Labels
  <2>2. CASE /\ Respond(t, Answer(454, NoSession), "read")
             /\ mutex' = IF Broken(t) THEN t ELSE mutex
    <3>1. Proceeds(t, "read")
      BY <1>1, <1>3, <2>1, <2>2, RespondProceeds DEF Proceeds, Statuses
    <3>2. Touches(t, "read")
      BY <1>1, <2>1, <2>2 DEF Touches
    <3> QED
      BY <2>1, <3>1, <3>2
  <2>3. CASE Known(req[t].session) /\ Quietly(t, "found") /\ UNCHANGED mutex
    <3>1. Proceeds(t, "found")
      BY <1>1, <1>2, <2>1, <2>3, QuietProceeds DEF Proceeds, Known
    <3>2. Touches(t, "found")
      BY <1>1, <2>1, <2>3 DEF Touches, Known
    <3> QED
      BY <2>1, <3>1, <3>2
  <2> QED
    BY <1>9, <2>2, <2>3 DEF Lookup
<1>10. ASSUME TeardownAnswer(t) PROVE Keeps
  <2>1. /\ pc[t] = "found" /\ pc[t] \in Busy /\ {"read", "erasing"} \subseteq Busy
        /\ UNCHANGED <<id, sessions, mutex, users>>
    BY <1>10 DEF TeardownAnswer, Busy, Labels
  <2>2. Proceeds(t, "erasing") \/ Proceeds(t, "read")
    BY <1>1, <1>2, <1>3, <1>10, <2>1, RespondProceeds DEF Proceeds, TeardownAnswer, Statuses
  <2>3. Touches(t, "erasing") /\ Touches(t, "read")
    BY <1>1, <2>1 DEF Touches
  <2> QED
    BY <2>1, <2>2, <2>3
<1>11. ASSUME TeardownErase(t) PROVE Keeps
  <2>1. pc[t] = "erasing" /\ pc[t] \in Busy /\ "read" \in Busy
    BY <1>11 DEF TeardownErase, Busy, Labels
  <2>2. Proceeds(t, "read")
    BY <1>1, <1>11, <2>1, QuietProceeds DEF Proceeds, TeardownErase
  <2>3. Touches(t, "read")
    BY <1>1, <1>2, <1>11, <2>1 DEF Touches, TeardownErase
  <2> QED
    BY <2>1, <2>2, <2>3
<1>12. ASSUME PlayRefer(t) PROVE Keeps
  <2>1. /\ pc[t] = "found" /\ pc[t] \in Busy /\ {"read", "playing"} \subseteq Busy
        /\ UNCHANGED <<id, mutex, users>>
    BY <1>12 DEF PlayRefer, Busy, Labels
  <2>2. CASE Respond(t, Answer(400, NoSession), "read") /\ UNCHANGED sessions
    <3>1. Proceeds(t, "read")
      BY <1>1, <1>3, <2>1, <2>2, RespondProceeds DEF Proceeds, Statuses
    <3> QED
      BY <2>1, <2>2, <3>1, LeavesSessions
  <2>3. CASE /\ sessions' = [sessions EXCEPT ![req[t].session] = IF @ = "none" THEN "blank" ELSE @]
             /\ Quietly(t, "playing")
    <3>1. Proceeds(t, "playing")
      BY <1>1, <1>2, <2>1, <2>3, QuietProceeds DEF Proceeds
    <3>2. Touches(t, "playing")
      BY <1>1, <1>2, <2>1, <2>3 DEF Touches
    <3> QED
      BY <2>1, <3>1, <3>2
  <2> QED
    BY <1>12, <2>2, <2>3 DEF PlayRefer
<1>13. ASSUME Play(t) PROVE Keeps
  <2>1. /\ pc[t] = "playing" /\ pc[t] \in Busy /\ {"read", "bad", "played"} \subseteq Busy
        /\ UNCHANGED <<id, sessions, mutex, users>>
    BY <1>13 DEF Play, Busy, Labels
  <2>2. CASE /\ Deliver(t, Answer(206, req[t].session)) \/ (Broken(t) /\ UNCHANGED netVars)
             /\ Goto(t, "played")
             /\ UNCHANGED <<conn, sock, req, crashed, stray>>
    <3>1. Respond(t, Answer(206, req[t].session), "played") \/ Quietly(t, "played")
      BY <2>2 DEF Respond, Quietly
    <3>2. Proceeds(t, "played")
      <4>1. CASE Quietly(t, "played")
        BY <1>1, <1>2, <2>1, <4>1, QuietProceeds DEF Proceeds
      <4>2. CASE Deliver(t, Answer(206, req[t].session))
        <5>1. Answer(206, req[t].session) \in Replies
          BY <1>2, <1>3, <2>1 DEF Statuses
        <5>2. reply \in [Conns -> Replies] /\ waiting \in [Conns -> BOOLEAN]
          BY DEF RtspInv, TypeOK, Replies, Statuses
        <5>3. /\ reply' \in [Conns -> Replies] /\ waiting' \in [Conns -> BOOLEAN]
              /\ UNCHANGED <<link, peer, inbox>>
          BY <4>2, <5>1, <5>2 DEF Deliver
        <5> QED
          BY <1>1, <1>2, <2>1, <2>2, <5>3 DEF Proceeds, Goto
      <4> QED
        BY <2>2, <4>1, <4>2 DEF Quietly
    <3> QED
      BY <2>1, <3>2, LeavesSessions
  <2>3. CASE Respond(t, Answer(404, NoSession), "read")
    <3>1. Proceeds(t, "read")
      BY <1>1, <1>3, <2>1, <2>3, RespondProceeds DEF Proceeds, Statuses
    <3> QED
      BY <2>1, <3>1, LeavesSessions
  <2>4. CASE Quietly(t, "bad")
    <3>1. Proceeds(t, "bad")
      BY <1>1, <2>1, <2>4, QuietProceeds DEF Proceeds
    <3> QED
      BY <2>1, <3>1, LeavesSessions
  <2> QED
    BY <1>13, <2>2, <2>3, <2>4 DEF Play
<1>14. ASSUME Dispose(t) PROVE Keeps \/ (pc[t] = "played" /\ Crash("dangling"))
  <2>1. pc[t] = "played" /\ pc[t] \in Busy /\ "read" \in Busy
    BY <1>14 DEF Dispose, Busy, Labels
  <2>2. CASE Quietly(t, "read") /\ UNCHANGED <<id, sessions, mutex, users>>
    <3>1. Proceeds(t, "read")
      BY <1>1, <2>1, <2>2, QuietProceeds DEF Proceeds
    <3> QED
      BY <2>1, <2>2, <3>1, LeavesSessions
  <2> QED
    BY <1>14, <2>1, <2>2 DEF Dispose
<1> QED
  BY <1>4, <1>5, <1>6, <1>7, <1>8, <1>9, <1>10, <1>11, <1>12, <1>13, <1>14 DEF Handler

-----------------------------------------------------------------------------
(* start(), and the peers                                                  *)

LEMMA InitInv == Init => RtspInv
<1> SUFFICES ASSUME Init PROVE RtspInv
  OBVIOUS
<1> USE DEF Init
<1>1. TypeOK
  <2>1. /\ link \in [Conns -> {"new", "queued", "open", "closed"}]
        /\ peer \in [Conns -> {"up", "fin", "rst"}] /\ inbox \in [Conns -> Requests \cup {NoRequest}]
        /\ waiting \in [Conns -> BOOLEAN] /\ conn \in [Handles -> Conns \cup {NoConn}]
    OBVIOUS
  <2>2. reply \in [Conns -> [status: {0, 200, 206, 400, 401, 404, 405, 454, 500},
                             session: SessionIds \cup {NoSession}]]
    BY DEF Answer
  <2>3. /\ pc \in [Threads -> Labels] /\ sock \in [Threads -> Handles \cup {NoHandle}]
        /\ req \in [Threads -> Parsed] /\ id \in [Threads -> SessionIds \cup {NoSession}]
    BY DEF Labels, Parsed
  <2>4. /\ sessions \in [SessionIds -> {"none", "setup", "blank"}]
        /\ mutex \in Threads \cup {NoThread} /\ users \in [SessionIds -> SUBSET Conns]
        /\ crashed \in {"no", "thrown", "dangling"} /\ stray \in BOOLEAN
    OBVIOUS
  <2> HIDE DEF Init
  <2> QED
    BY <2>1, <2>2, <2>3, <2>4 DEF TypeOK
<1>2. ThreadsReady /\ HandlesDistinct /\ OwnHandle /\ FoundStays /\ BlankNeedsSharing
  BY DEF ThreadsReady, HandlesDistinct, OwnHandle, Serving, FoundStays, BlankNeedsSharing
<1>3. OnlyFailuresEndService /\ UsersNoted
  BY DEF OnlyFailuresEndService, UsersNoted
<1> QED
  BY <1>1, <1>2, <1>3 DEF RtspInv

\* A step of start() by thread t: it goes from one connection, or request, to the
\* next, and leaves the sessions and their users alone.
Moves(t, l) ==
  /\ l \in Labels \ {"named", "inserted", "found", "erasing", "playing"}
  /\ pc' = [pc EXCEPT ![t] = l]
  /\ UNCHANGED <<peer, sessions, mutex, crashed, users>>
  /\ \A u \in Threads \ {t} : sock'[u] = sock[u] /\ req'[u] = req[u] /\ id'[u] = id[u]

LEMMA MovesInv ==
  ASSUME RtspInv, NEW t \in Threads, NEW l \in Labels, Moves(t, l),
         TypeOK', HandlesDistinct', OwnHandle', UsersNoted',
         l # "accept" => sock'[t] \in Handles,
         l \in {"handle", "played"} => req'[t] \in RequestType,
         stray => stray'
  PROVE  RtspInv'
<1> USE DEF RtspInv
<1>1. ThreadsReady'
  BY DEF ThreadsReady, Moves, TypeOK
<1>2. OnlyFailuresEndService'
  BY DEF OnlyFailuresEndService, Hurt, Moves, TypeOK
<1>3. \A s \in SessionIds : Shared(s) => Shared(s)'
  BY DEF Shared, Moves
<1>4. FoundStays'
  BY <1>3 DEF FoundStays, Moves, TypeOK, ThreadsReady
<1>5. BlankNeedsSharing'
  BY <1>3 DEF BlankNeedsSharing, Moves
<1> QED
  BY <1>1, <1>2, <1>4, <1>5

\* The handle of a thread that serves is nobody else's.
LEMMA AcceptInv ==
  ASSUME RtspInv, NEW t \in Threads, NEW c \in Conns, Accept(t, c)
  PROVE  RtspInv'
<1> USE DEF RtspInv
<1>1. PICK h \in Handles : /\ conn[h] = NoConn
                           /\ conn' = [conn EXCEPT ![h] = c]
                           /\ sock' = [sock EXCEPT ![t] = h]
  BY DEF Accept
<1>2. /\ pc[t] = "accept" /\ link[c] = "queued"
      /\ pc' = [pc EXCEPT ![t] = "read"]
      /\ link' = [link EXCEPT ![c] = "open"]
      /\ UNCHANGED <<peer, inbox, waiting, reply, req, id, sessions, mutex, crashed, stray, users>>
  BY DEF Accept, Goto
<1>3. TypeOK'
  BY <1>1, <1>2 DEF TypeOK, Labels
<1>4. HandlesDistinct'
  BY <1>1, <1>2, RtspAssumption DEF HandlesDistinct, TypeOK, RtspAssumption
<1>5. OwnHandle'
  BY <1>1, <1>2, RtspAssumption DEF OwnHandle, Serving, Mine, TypeOK, RtspAssumption
<1>6. UsersNoted'
  <2>1. \A u \in Threads : pc'[u] \in {"handle", "found", "erasing"} =>
          u # t /\ (~stray => Mine(u)' = Mine(u))
    BY <1>1, <1>2 DEF TypeOK, OwnHandle, Serving, Mine
  <2> QED
    BY <1>2, <2>1 DEF UsersNoted, TypeOK
<1>7. Moves(t, "read") /\ sock'[t] \in Handles
  BY <1>1, <1>2 DEF Moves, TypeOK, Labels
<1> QED
  BY <1>2, <1>3, <1>4, <1>5, <1>6, <1>7, MovesInv DEF Labels

\* What a thread reads from its connection, or makes of what it could not read.
LEMMA ReadInv ==
  ASSUME RtspInv, NEW t \in Threads, NEW l \in {"handle", "bad", "leaving"},
         pc[t] = "read", Goto(t, l), ReadFrame,
         inbox' = [c \in Conns |-> IF c = Mine(t) THEN NoRequest ELSE inbox[c]],
         \/ req' = req /\ l # "handle"
         \/ \E r \in RequestType :
              /\ req' = [req EXCEPT ![t] = r]
              /\ \/ r.session = NoSession \/ stray
                 \/ Mine(t) \in Conns /\ inbox[Mine(t)] # NoRequest /\ inbox[Mine(t)].session = r.session
  PROVE  RtspInv'
<1> USE DEF RtspInv, ReadFrame, Goto
<1>1. sock[t] \in Handles
  BY ServingFacts
<1>2. TypeOK'
  BY <1>1 DEF TypeOK, Labels, Parsed
<1>3. HandlesDistinct' /\ OwnHandle'
  BY DEF HandlesDistinct, OwnHandle, Serving, Mine, TypeOK
<1>4. UsersNoted'
  <2>1. \A u \in Threads : Mine(u)' = Mine(u)
    BY DEF Mine
  <2>2. \A c \in Conns : inbox'[c] # NoRequest => inbox'[c] = inbox[c]
    OBVIOUS
  <2>3. \A u \in Threads \ {t} : pc'[u] = pc[u] /\ req'[u] = req[u]
    BY DEF TypeOK
  <2>4. ~stray /\ pc'[t] = "handle" /\ req'[t].session # NoSession => Mine(t) \in users[req'[t].session]
    BY RtspAssumption DEF UsersNoted, RtspAssumption, TypeOK
  <2>5. pc'[t] \notin {"found", "erasing"}
    BY DEF TypeOK
  <2> QED
    BY <2>1, <2>2, <2>3, <2>4, <2>5 DEF UsersNoted
<1>5. Moves(t, l) /\ l \in Labels
  BY DEF Moves, TypeOK, Labels
<1>6. l = "handle" => req'[t] \in RequestType
  BY DEF TypeOK
<1> QED
  BY <1>1, <1>2, <1>3, <1>4, <1>5, <1>6, MovesInv

\* What is left of a request is one, for the same session or for none.
LEMMA PartsOf ==
  ASSUME NEW q \in RequestType, NEW r \in Parts(q)
  PROVE  r \in RequestType /\ r.session \in {NoSession, q.session}
<1>1. Fates(q) \subseteq {"ok", "refused", "badurl", "throws"}
  BY DEF Fates, RequestType
<1> QED
  BY <1>1 DEF Parts, RequestType

\* A thread closes its handle.
LEMMA CloseInv ==
  ASSUME RtspInv, NEW t \in Threads, NEW l \in {"closed", "accept"}, Moves(t, l),
         CloseHandle(t), pc[t] # "accept", inbox' = inbox,
         reply' \in [Conns -> Replies], waiting' \in [Conns -> BOOLEAN],
         sock' \in [Threads -> Handles \cup {NoHandle}], req' \in [Threads -> Parsed],
         id' \in [Threads -> SessionIds \cup {NoSession}],
         l = "closed" => sock'[t] = sock[t],
         stray' = (stray \/ (pc[t] = "closed" /\ Mine(t) # NoConn))
  PROVE  RtspInv'
<1> USE DEF RtspInv
<1>1. /\ sock[t] \in Handles /\ Mine(t) \in Conns \cup {NoConn}
      /\ conn' = [conn EXCEPT ![sock[t]] = NoConn]
      /\ link' = [c \in Conns |-> IF c = Mine(t) THEN "closed" ELSE link[c]]
  BY ServingFacts DEF CloseHandle
<1>0. /\ stray' \in BOOLEAN
      /\ ~stray' => ~stray /\ (pc[t] = "closed" => Mine(t) = NoConn)
      /\ stray => stray'
  OBVIOUS
<1>2. TypeOK'
  <2>1. link' \in [Conns -> {"new", "queued", "open", "closed"}] /\ conn' \in [Handles -> Conns \cup {NoConn}]
    BY <1>1 DEF TypeOK
  <2>2. pc' \in [Threads -> Labels]
    BY DEF Moves, TypeOK, Labels
  <2>3. /\ peer' = peer /\ inbox' = inbox /\ sessions' = sessions /\ mutex' = mutex
        /\ crashed' = crashed /\ users' = users
    BY DEF Moves
  <2> QED
    BY <1>0, <2>1, <2>2, <2>3 DEF TypeOK, Replies, Statuses
<1>3. HandlesDistinct'
  BY <1>1, RtspAssumption DEF HandlesDistinct, TypeOK, RtspAssumption
<1>4. ASSUME ~stray', NEW u \in Threads, pc'[u] \notin {"accept", "closed"}
      PROVE  u # t /\ pc[u] = pc'[u] /\ sock'[u] = sock[u] /\ req'[u] = req[u] /\ Mine(u)' = Mine(u)
  <2>1. u # t /\ pc[u] = pc'[u] /\ sock'[u] = sock[u] /\ req'[u] = req[u]
    BY <1>4 DEF Moves, TypeOK
  <2>2. ~stray /\ (pc[t] = "closed" => Mine(t) = NoConn)
    BY <1>0, <1>4
  <2>3. CASE pc[t] = "closed"
    <3>1. conn' = conn
      BY <1>1, <2>2, <2>3 DEF Mine, TypeOK
    <3> QED
      BY <2>1, <3>1 DEF Mine
  <2>4. CASE pc[t] # "closed"
    BY <1>1, <1>4, <2>1, <2>2, <2>4 DEF OwnHandle, Serving, Mine, TypeOK
  <2> QED
    BY <2>1, <2>3, <2>4
<1>5. OwnHandle'
  BY <1>0, <1>4 DEF OwnHandle, Serving
<1>6. UsersNoted'
  <2>1. inbox' = inbox /\ users' = users
    BY DEF Moves
  <2>2. ASSUME ~stray', NEW u \in Threads, pc'[u] \in {"handle", "found", "erasing"},
               req'[u].session # NoSession
        PROVE  Mine(u)' \in users[req'[u].session]
    BY <1>0, <1>4, <2>2 DEF UsersNoted
  <2> QED
    BY <2>1, <2>2 DEF UsersNoted
<1> QED
  BY <1>0, <1>1, <1>2, <1>3, <1>5, <1>6, MovesInv DEF Labels

LEMMA ThreadInv ==
  ASSUME RtspInv, NEW t \in Threads, Thread(t)
  PROVE  RtspInv'
<1>0. inbox \in [Conns -> Requests \cup {NoRequest}]
  BY DEF RtspInv, TypeOK
<1>1. TypeOK
  BY DEF RtspInv
<1>2. ASSUME Read(t) PROVE RtspInv'
  <2>1. /\ pc[t] = "read" /\ Mine(t) \in Conns /\ inbox[Mine(t)] # NoRequest
        /\ req' = [req EXCEPT ![t] = inbox[Mine(t)]]
        /\ inbox' = [inbox EXCEPT ![Mine(t)] = NoRequest]
        /\ Goto(t, "handle") /\ ReadFrame
    BY <1>2, ServingFacts DEF Read
  <2>2. inbox[Mine(t)] \in RequestType
    BY <1>1, <2>1, RtspAssumption DEF TypeOK, RtspAssumption
  <2>3. inbox' = [c \in Conns |-> IF c = Mine(t) THEN NoRequest ELSE inbox[c]]
    BY <1>0, <2>1
  <2> QED
    BY <2>1, <2>2, <2>3, ReadInv
<1>3. ASSUME ReadBad(t) PROVE RtspInv'
  <2>1. /\ pc[t] = "read" /\ inbox' = [inbox EXCEPT ![Mine(t)] = NoRequest]
        /\ Goto(t, "bad") /\ req' = req /\ ReadFrame
    BY <1>3 DEF ReadBad
  <2>2. inbox' = [c \in Conns |-> IF c = Mine(t) THEN NoRequest ELSE inbox[c]]
    BY <1>0, <2>1
  <2> QED
    BY <2>1, <2>2, ReadInv, ZenonT(60)
<1>4. ASSUME ReadReset(t) PROVE RtspInv'
  <2>1. /\ pc[t] = "read" /\ inbox' = [inbox EXCEPT ![Mine(t)] = NoRequest]
        /\ Goto(t, "leaving") /\ req' = req /\ ReadFrame
    BY <1>4 DEF ReadReset
  <2>2. inbox' = [c \in Conns |-> IF c = Mine(t) THEN NoRequest ELSE inbox[c]]
    BY <1>0, <2>1
  <2> QED
    BY <2>1, <2>2, ReadInv
<1>5. ASSUME ReadFails(t) PROVE RtspInv'
  <2>1. /\ pc[t] = "read" /\ Goto(t, "handle") /\ ReadFrame
        /\ inbox' = [c \in Conns |-> IF c = Mine(t) THEN NoRequest ELSE inbox[c]]
    BY <1>5 DEF ReadFails
  <2>2. \E r \in RequestType :
          /\ req' = [req EXCEPT ![t] = r]
          /\ \/ r.session = NoSession \/ stray
             \/ Mine(t) \in Conns /\ inbox[Mine(t)] # NoRequest /\ inbox[Mine(t)].session = r.session
    <3>1. CASE req' = [req EXCEPT ![t] = Empty]
      <4>1. Empty \in RequestType /\ Empty.session = NoSession
        BY DEF Empty, RequestType
      <4> QED
        BY <3>1, <4>1
    <3>2. ASSUME NEW c \in Conns, c = Mine(t) \/ Mine(t) = NoConn, inbox[c] # NoRequest,
                 NEW r \in Parts(inbox[c]), req' = [req EXCEPT ![t] = r]
          PROVE  /\ r \in RequestType
                 /\ \/ r.session = NoSession \/ stray
                    \/ Mine(t) \in Conns /\ inbox[Mine(t)] # NoRequest /\ inbox[Mine(t)].session = r.session
      <4>1. inbox[c] \in RequestType
        BY <1>1, <3>2, RtspAssumption DEF TypeOK, RtspAssumption
      <4>2. r \in RequestType /\ r.session \in {NoSession, inbox[c].session}
        BY <3>2, <4>1, PartsOf
      <4>3. Mine(t) = NoConn => stray
        BY <2>1 DEF RtspInv, OwnHandle, Serving
      <4> QED
        BY <3>2, <4>2, <4>3
    <3> QED
      BY <1>5, <3>1, <3>2 DEF ReadFails
  <2> QED
    BY <2>1, <2>2, ReadInv
<1>6. ASSUME AnswerBad(t) PROVE RtspInv'
  <2>1. /\ pc[t] = "bad" /\ CloseHandle(t) /\ Goto(t, "closed")
        /\ UNCHANGED <<peer, inbox, sock, req, id, sessions, mutex, crashed, stray, users>>
    BY <1>6 DEF AnswerBad
  <2>2. reply' \in [Conns -> Replies] /\ waiting' \in [Conns -> BOOLEAN]
    <3>1. reply \in [Conns -> Replies] /\ waiting \in [Conns -> BOOLEAN]
      BY <1>1 DEF TypeOK, Replies, Statuses
    <3>2. \A n \in {400, 500} : Answer(n, NoSession) \in Replies
      BY DEF Answer, Replies, Statuses
    <3>3. CASE UNCHANGED <<reply, waiting>>
      BY <3>1, <3>3
    <3>4. ASSUME NEW n \in {400, 500},
                 reply' = [reply EXCEPT ![Mine(t)] = Answer(n, NoSession)],
                 waiting' = [waiting EXCEPT ![Mine(t)] = FALSE]
          PROVE  reply' \in [Conns -> Replies] /\ waiting' \in [Conns -> BOOLEAN]
      <4>1. Answer(n, NoSession) \in Replies
        BY <3>2
      <4> HIDE DEF Answer
      <4> QED
        BY <3>1, <3>4, <4>1
    <3> QED
      BY <1>6, <3>3, <3>4 DEF AnswerBad
  <2>3. Moves(t, "closed")
    BY <2>1 DEF Moves, Goto, Labels
  <2>4. stray' = (stray \/ (pc[t] = "closed" /\ Mine(t) # NoConn))
    BY <1>1, <2>1 DEF TypeOK
  <2>5. /\ sock' \in [Threads -> Handles \cup {NoHandle}] /\ req' \in [Threads -> Parsed]
        /\ id' \in [Threads -> SessionIds \cup {NoSession}]
    BY <1>1, <2>1 DEF TypeOK
  <2> QED
    BY <2>1, <2>2, <2>3, <2>4, <2>5, CloseInv
<1>7. ASSUME Leave(t) PROVE RtspInv'
  <2>1. /\ pc[t] \in {"leaving", "closed"} /\ CloseHandle(t) /\ Goto(t, "accept")
        /\ stray' = (stray \/ (pc[t] = "closed" /\ Mine(t) # NoConn))
        /\ sock' = [sock EXCEPT ![t] = NoHandle]
        /\ req' = [req EXCEPT ![t] = NoRequest]
        /\ id' = [id EXCEPT ![t] = NoSession]
        /\ UNCHANGED <<peer, inbox, waiting, reply, sessions, mutex, crashed, users>>
    BY <1>7 DEF Leave
  <2>2. Moves(t, "accept")
    BY <1>1, <2>1 DEF Moves, Goto, Labels, TypeOK
  <2>3. /\ reply' \in [Conns -> Replies] /\ waiting' \in [Conns -> BOOLEAN]
        /\ sock' \in [Threads -> Handles \cup {NoHandle}] /\ req' \in [Threads -> Parsed]
        /\ id' \in [Threads -> SessionIds \cup {NoSession}]
    BY <1>1, <2>1 DEF TypeOK, Replies, Statuses, Parsed
  <2> QED
    BY <2>1, <2>2, <2>3, CloseInv
<1>8. ASSUME AcceptFails(t) PROVE RtspInv'
  BY <1>8, CrashInv DEF AcceptFails, Hurt
<1>9. ASSUME AnswerBadFails(t) PROVE RtspInv'
  BY <1>9, CrashInv, ServingFacts DEF AnswerBadFails
<1>10. ASSUME NEW c \in Conns, Accept(t, c) PROVE RtspInv'
  BY <1>10, AcceptInv
<1>11. ASSUME Handler(t) PROVE RtspInv'
  BY <1>11, HandlerInv
<1>12. \/ \E c \in Conns : Accept(t, c)
       \/ Read(t) \/ ReadBad(t) \/ ReadReset(t) \/ ReadFails(t)
       \/ AcceptFails(t) \/ AnswerBad(t) \/ AnswerBadFails(t) \/ Leave(t) \/ Handler(t)
  BY DEF Thread
<1> HIDE DEF RtspInv
<1> QED
  BY <1>2, <1>3, <1>4, <1>5, <1>6, <1>7, <1>8, <1>9, <1>10, <1>11, <1>12, Zenon

\* A step of a peer, which changes nothing of the server's.
LEMMA PeerInv ==
  ASSUME RtspInv, NEW c \in Conns, Peer(c)
  PROVE  RtspInv'
<1> USE DEF RtspInv
<1>1. /\ UNCHANGED <<conn, threadVars, sessions, mutex, crashed, stray>>
      /\ UNCHANGED reply
      /\ \A d \in Conns : peer[d] = "rst" => peer'[d] = "rst"
      /\ \A d \in Conns : link[d] \in {"open", "closed"} => link'[d] = link[d]
  BY DEF Peer, Connect, Send, Disconnect, Abort, TypeOK
<1>2. TypeOK' /\ \A s \in SessionIds : users[s] \subseteq users'[s]
  <2>1. CASE Connect(c) \/ Disconnect(c) \/ Abort(c)
    <3>1. CASE Connect(c)
      BY <1>1, <3>1 DEF Connect, TypeOK, threadVars
    <3>2. CASE Disconnect(c)
      BY <1>1, <3>2 DEF Disconnect, TypeOK, threadVars
    <3>3. CASE Abort(c)
      BY <1>1, <3>3 DEF Abort, TypeOK, threadVars
    <3> QED
      BY <2>1, <3>1, <3>2, <3>3, Zenon
  <2>2. ASSUME NEW r \in Requests, Send(c, r)
        PROVE  TypeOK' /\ \A s \in SessionIds : users[s] \subseteq users'[s]
    BY <1>1, <2>2 DEF Send, Named, TypeOK, threadVars
  <2> QED
    BY <2>1, <2>2 DEF Peer
<1>3. ThreadsReady' /\ HandlesDistinct' /\ OwnHandle'
  BY <1>1 DEF ThreadsReady, HandlesDistinct, OwnHandle, Serving, Mine, threadVars, TypeOK
<1>4. OnlyFailuresEndService'
  BY <1>1 DEF OnlyFailuresEndService, Hurt
<1>5. \A d \in Conns : inbox'[d] # NoRequest /\ inbox'[d].session # NoSession =>
        d \in users'[inbox'[d].session]
  <2>1. CASE inbox' = inbox
    <3>1. \A d \in Conns : inbox[d] # NoRequest => inbox[d].session \in SessionIds \cup {NoSession}
      BY RtspAssumption DEF TypeOK, RtspAssumption, RequestType
    <3> QED
      BY <1>2, <2>1, <3>1 DEF UsersNoted
  <2>2. ASSUME NEW r \in Requests, Send(c, r)
        PROVE  \A d \in Conns : inbox'[d] # NoRequest /\ inbox'[d].session # NoSession =>
                 d \in users'[inbox'[d].session]
    <3>1. \A d \in Conns : inbox[d] # NoRequest => inbox[d].session \in SessionIds \cup {NoSession}
      BY RtspAssumption DEF TypeOK, RtspAssumption, RequestType
    <3>2. r.session # NoSession => r.session \in SessionIds /\ c \in users'[r.session]
      BY <2>2, RtspAssumption DEF Send, Named, RtspAssumption, RequestType
    <3> QED
      BY <1>2, <2>2, <3>1, <3>2 DEF UsersNoted, Send, TypeOK
  <2> QED
    BY <2>1, <2>2 DEF Peer, Connect, Disconnect, Abort
<1>6. UsersNoted'
  <2>1. \A t \in Threads : pc[t] \in {"handle", "found", "erasing"} =>
          req[t].session \in SessionIds \cup {NoSession}
    BY DEF ThreadsReady, RequestType
  <2> QED
    BY <1>1, <1>2, <1>5, <2>1 DEF UsersNoted, Mine, threadVars
<1>7. \A s \in SessionIds : Shared(s) => Shared(s)'
  BY <1>1, <1>2 DEF Shared
<1>8. FoundStays' /\ BlankNeedsSharing'
  BY <1>1, <1>7 DEF FoundStays, BlankNeedsSharing, ThreadsReady, threadVars
<1> QED
  BY <1>2, <1>3, <1>4, <1>6, <1>8

LEMMA StutterInv ==
  ASSUME RtspInv, UNCHANGED vars
  PROVE  RtspInv'
<1> USE DEF RtspInv, vars, netVars, threadVars
<1>1. TypeOK' /\ ThreadsReady' /\ HandlesDistinct'
  BY DEF TypeOK, ThreadsReady, HandlesDistinct
<1>2. OwnHandle' /\ OnlyFailuresEndService' /\ UsersNoted'
  BY DEF OwnHandle, Serving, Mine, OnlyFailuresEndService, Hurt, UsersNoted
<1>3. FoundStays' /\ BlankNeedsSharing'
  BY DEF FoundStays, BlankNeedsSharing, Shared
<1> QED
  BY <1>1, <1>2, <1>3

-----------------------------------------------------------------------------
(* The theorems                                                            *)

\* RtspInv holds of the C++ server for any threads, connections, handles, ids and
\* requests (server.cpp, start and _handle).
THEOREM RtspInvariant == Spec => []RtspInv
<1>1. Init => RtspInv
  BY InitInv
<1>2. RtspInv /\ [Next]_vars => RtspInv'
  BY ThreadInv, PeerInv, StutterInv DEF Next
<1> QED
  BY <1>1, <1>2, PTL DEF Spec

\* The variables keep their types (server.cpp:34-105).
THEOREM RtspTypes == Spec => []TypeOK
  BY RtspInvariant, PTL DEF RtspInv

\* Without a reset or a handle closed twice no exception ends the process or
\* keeps sessions_lock (server.cpp:47, 67, 91, 185-190, 213-218).
THEOREM RtspOnlyFailuresEndService == Spec => []OnlyFailuresEndService
  BY RtspInvariant, PTL DEF RtspInv

\* Until a destructor closes a handle that was given away, every thread has an open
\* handle of its own (base.cpp:27-30, server.cpp:68, 92).
THEOREM RtspOwnHandle == Spec => []OwnHandle
  BY RtspInvariant, PTL DEF RtspInv

\* A blank session takes two users of its id, or two threads on a connection
\* (server.cpp:183-194, 205-211, 229).
THEOREM RtspBlankNeedsSharing == Spec => []BlankNeedsSharing
  BY RtspInvariant, PTL DEF RtspInv

=============================================================================
