--------------------------- MODULE DianServerProofs ---------------------------
(***************************************************************************)
(* Proofs of the safety properties of DianServer, for every pool, every    *)
(* set of connections and requests, and both values of the errno.          *)
(***************************************************************************)
EXTENDS DianServerProperties, TLAPS

ConnStates == {"new", "queued", "open", "broken", "closed"}

(***************************************************************************)
(* A step of worker t that sends or fails: it touches no connection but    *)
(* its own.  Most disjuncts of the handlers are such.                      *)
(***************************************************************************)
Settles(t) ==
  /\ link' \in [Conns -> ConnStates]
  /\ pc' \in [Threads -> Labels]
  /\ reply' \in [Conns -> Reply]
  /\ waiting' \in [Conns -> BOOLEAN]
  /\ cause' \in [Threads -> Causes]
  /\ known' \subseteq SessionIds
  /\ \A c \in Conns \ {cur[t]} : link'[c] = link[c]
  /\ link'[cur[t]] \in Accepted
  /\ link[cur[t]] = "closed" => link'[cur[t]] = "closed"
  /\ \A u \in Threads \ {t} : pc'[u] = pc[u] /\ cause'[u] = cause[u]
  /\ pc'[t] = "accept" => link'[cur[t]] = "closed"
  /\ cause'[t] # "none" => pc'[t] = "dead"
  /\ out' \in [Threads -> Conns \cup {NoConn}]
  /\ \A u \in Threads \ {t} : out'[u] = out[u]

\* A send on the worker's own connection, or on one it has closed, settles.
LEMMA SendOnSettles ==
  ASSUME PoolInv,
         NEW t \in Threads, Serving(t),
         NEW c \in Conns, c = cur[t] \/ link[c] = "closed",
         NEW l \in Labels \ {"accept", "dead"},
         SendOn(t, c, l),
         reply' \in [Conns -> Reply], waiting' \in [Conns -> BOOLEAN], known' \subseteq SessionIds,
         NEW x \in Conns \cup {NoConn}, out' = [out EXCEPT ![t] = x]
  PROVE  /\ Settles(t)
         /\ pc'[t] \in {"read", "accept", "dead"} \/ (pc'[t] = l /\ Sendable(c))
         /\ cause'[t] # "keyerror"
<1>1. /\ cur[t] \in Conns /\ link[cur[t]] \in Accepted /\ cause[t] = "none"
      /\ link \in [Conns -> ConnStates] /\ pc \in [Threads -> Labels]
      /\ cause \in [Threads -> Causes]
  BY DEF PoolInv, TypeOK, LinksAccepted, CauseOfDeath, Serving, Causes, ConnStates
<1>2. /\ out' \in [Threads -> Conns \cup {NoConn}]
      /\ \A u \in Threads \ {t} : out'[u] = out[u]
  BY DEF PoolInv, TypeOK
<1>3. CASE ResetCaught(t, "read") /\ link[c] = "open"
  BY <1>1, <1>2, <1>3 DEF ResetCaught, Goto, Settles, Labels, Accepted, ConnStates
<1>4. CASE Die(t, "send")
  BY <1>1, <1>2, <1>4 DEF Die, Goto, Settles, Labels, Accepted, ConnStates, Causes
<1>5. CASE UNCHANGED <<link, cause>> /\ Goto(t, l) /\ Sendable(c)
  BY <1>1, <1>2, <1>5 DEF Goto, Settles, Labels, Accepted, ConnStates
<1> QED
  BY <1>3, <1>4, <1>5 DEF SendOn

\* The head of an answer settles, and leaves its body to be sent after it.
LEMMA RespondSettles ==
  ASSUME PoolInv,
         NEW t \in Threads, Serving(t),
         NEW c \in Conns, c = cur[t] \/ link[c] = "closed",
         NEW r \in Reply, NEW l \in BodyLabels,
         Respond(t, c, r, l)
  PROVE  /\ Settles(t)
         /\ pc'[t] \in {"read", "accept", "dead"} \/ (pc'[t] = l /\ out'[t] = cur[t] /\ c = cur[t])
         /\ cause'[t] # "keyerror"
         /\ known' \subseteq known \cup {r.session}
<1>1. /\ reply \in [Conns -> Reply] /\ waiting \in [Conns -> BOOLEAN] /\ known \subseteq SessionIds
      /\ out \in [Threads -> Conns \cup {NoConn}]
  BY DEF PoolInv, TypeOK
<1>2. /\ reply' \in [Conns -> Reply] /\ waiting' \in [Conns -> BOOLEAN] /\ known' \subseteq SessionIds
      /\ known' \subseteq known \cup {r.session}
  <2>1. CASE UNCHANGED answerVars
    BY <1>1, <2>1 DEF answerVars
  <2>2. CASE /\ reply' = [reply EXCEPT ![c] = r]
             /\ waiting' = [waiting EXCEPT ![c] = FALSE]
             /\ known' = known \cup ({r.session} \cap SessionIds)
    BY <1>1, <2>2
  <2> QED
    BY <2>1, <2>2 DEF Respond
<1>3. PICK x \in Conns \cup {NoConn} :
        out' = [out EXCEPT ![t] = x] /\ (Sendable(c) => x = c)
  <2>1. CASE Sendable(c)
    BY <2>1 DEF Respond
  <2>2. CASE ~Sendable(c)
    <3>1. out' = [out EXCEPT ![t] = out[t]] /\ out[t] \in Conns \cup {NoConn}
      BY <1>1, <2>2 DEF Respond
    <3> QED
      BY <2>2, <3>1
  <2> QED
    BY <2>1, <2>2
<1>4. SendOn(t, c, l) /\ l \in Labels \ {"accept", "dead"}
  BY DEF Respond, Labels, BodyLabels
<1>5. /\ Settles(t) /\ cause'[t] # "keyerror"
      /\ pc'[t] \in {"read", "accept", "dead"} \/ (pc'[t] = l /\ Sendable(c))
  BY <1>2, <1>3, <1>4, SendOnSettles
<1>6. Sendable(c) => out'[t] = c /\ c = cur[t]
  BY <1>1, <1>3 DEF Sendable
<1> QED
  BY <1>2, <1>5, <1>6

\* A step that settles leaves the rest of the state alone, and so its types.
LEMMA SettlesTypes ==
  ASSUME TypeOK, NEW t \in Threads, Settles(t),
         inbox' \in [Conns -> Requests \cup {NoRequest}],
         UNCHANGED <<sessions, grant>>, Frame
  PROVE  TypeOK'
<1>1. /\ link' \in [Conns -> {"new", "queued", "open", "broken", "closed"}]
      /\ pc' \in [Threads -> Labels] /\ reply' \in [Conns -> Reply]
      /\ waiting' \in [Conns -> BOOLEAN] /\ cause' \in [Threads -> Causes]
      /\ known' \subseteq SessionIds /\ out' \in [Threads -> Conns \cup {NoConn}]
  BY DEF Settles, ConnStates
<1>2. /\ listening' = listening /\ peer' = peer /\ cur' = cur /\ req' = req /\ sock' = sock
      /\ sessions' = sessions /\ grant' = grant
  BY DEF Frame
<1> QED
  BY <1>1, <1>2 DEF TypeOK

\* A step that settles preserves the invariant, whatever the request was, if the
\* worker that goes on with a session has it.
LEMMA SettlesInv ==
  ASSUME PoolInv,
         NEW t \in Threads, Serving(t), Settles(t),
         \/ pc'[t] \in {"read", "accept", "dead"}
         \/ /\ pc'[t] \in {"handle", "closing"} \cup BodyLabels /\ req[t] # NoRequest
            /\ pc'[t] \in BodyLabels => out'[t] = cur[t] /\ sock[t] = cur[t]
            /\ pc'[t] \in OwnedLabels =>
                 req[t].session \in SessionIds /\ sessions[req[t].session] = cur[t],
         cause'[t] = "keyerror" =>
           /\ req[t].session \in SessionIds /\ sessions[req[t].session] = NoConn
           /\ grant[req[t].session].conn \notin {NoConn, cur[t]},
         \A s \in known' : s \in known \/ grant[s].conn # NoConn,
         \A c \in Conns : inbox'[c] \in {inbox[c], NoRequest},
         inbox' \in [Conns -> Requests \cup {NoRequest}],
         UNCHANGED <<sessions, grant>>, Frame
  PROVE  PoolInv'
<1> USE DEF PoolInv
<1>1. TypeOK'
  BY SettlesTypes
<1>2. LinksAccepted'
  <2>1. \A c \in Conns : link[c] \in Accepted => link'[c] \in Accepted
    BY DEF Settles
  <2>2. \A u \in Threads : cur'[u] = cur[u] /\ (Serving(u)' => Serving(u))
    BY DEF Settles, Frame, Serving
  <2>3. LinksAccepted
    OBVIOUS
  <2>4. \A s \in SessionIds : grant[s].conn # NoConn => grant[s].conn \in Conns
    BY DEF TypeOK
  <2> QED
    BY <2>1, <2>2, <2>3, <2>4 DEF LinksAccepted
<1>3. OneWorkerPerConn'
  BY DEF OneWorkerPerConn, Settles, Frame, Serving
<1>4. SessionsGranted'
  BY DEF SessionsGranted
<1>5. NamedIdsGranted'
  BY ConstantAssumption DEF NamedIdsGranted, Granted, Frame, ConstantAssumption
<1>6. RequestsRead'
  <2>1. \A c \in Conns : link[c] = "closed" => link'[c] = "closed"
    BY DEF Settles
  <2>2. \A u \in Threads \ {t} : pc'[u] = pc[u]
    BY DEF Settles
  <2>3. pc'[t] = "accept" => link'[cur[t]] = "closed"
    BY DEF Settles
  <2>4. /\ cur \in [Threads -> Conns \cup {NoConn}] /\ sock \in [Threads -> Conns \cup {NoConn}]
        /\ \A u \in Threads : Serving(u) => cur[u] \in Conns
    BY DEF TypeOK, LinksAccepted
  <2>5. \A u \in Threads \ {t} : out'[u] = out[u]
    BY DEF Settles
  <2> QED
    BY <2>1, <2>2, <2>3, <2>4, <2>5 DEF RequestsRead, Frame, Serving, BodyLabels, OwnedLabels
<1>7. FoundSession'
  BY DEF FoundSession, Settles, Frame, BodyLabels
<1>8. OwnedSession'
  BY DEF OwnedSession, Settles, Frame, OwnedLabels, BodyLabels
<1>9. CauseOfDeath'
  BY DEF CauseOfDeath, Settles, Serving
<1>10. KeyErrorOnlyForeign'
  BY DEF KeyErrorOnlyForeign, Settles, Frame
<1> QED
  BY <1>1, <1>2, <1>3, <1>4, <1>5, <1>6, <1>7, <1>8, <1>9, <1>10

-----------------------------------------------------------------------------
(* Each action preserves the invariant                                     *)

\* The initial state satisfies the invariant.
LEMMA InitInv == Init => PoolInv
  BY ConstantAssumption
  DEF ConstantAssumption, Init, PoolInv, TypeOK, LinksAccepted, OneWorkerPerConn,
      SessionsGranted, NamedIdsGranted, Granted, RequestsRead, FoundSession,
      OwnedSession, CauseOfDeath, KeyErrorOnlyForeign, Serving, Labels, Causes,
      NoGrant, Reply, Answer, BodyLabels, OwnedLabels

\* A step that moves no worker and touches no connection a worker accepted.
LEMMA BystanderInv ==
  ASSUME PoolInv, TypeOK',
         \A c \in Conns : link[c] \in Accepted => link'[c] = link[c],
         NamedIdsGranted',
         UNCHANGED <<threadVars, sessions, grant>>
  PROVE  PoolInv'
<1> USE DEF PoolInv, threadVars
<1>1. LinksAccepted'
  BY DEF LinksAccepted, Serving, TypeOK, NoGrant
<1>2. OneWorkerPerConn'
  BY DEF OneWorkerPerConn, Serving
<1>3. SessionsGranted' /\ FoundSession' /\ OwnedSession' /\ CauseOfDeath' /\ KeyErrorOnlyForeign'
  BY DEF SessionsGranted, FoundSession, OwnedSession, CauseOfDeath, KeyErrorOnlyForeign
<1>4. RequestsRead'
  <2>1. \A c \in Conns : link[c] = "closed" => link'[c] = "closed"
    BY DEF Accepted
  <2> QED
    BY <2>1 DEF RequestsRead, LinksAccepted, Serving, TypeOK
<1> QED
  BY <1>1, <1>2, <1>3, <1>4

\* Peers preserve it: they only name ids that were made.
LEMMA PeerInv ==
  ASSUME PoolInv, NEW c \in Conns, Peer(c)
  PROVE  PoolInv'
<1> USE DEF PoolInv
<1>1. CASE Connect(c)
  <2>1. TypeOK'
    BY <1>1 DEF TypeOK, Connect, threadVars, answerVars
  <2>2. NamedIdsGranted'
    BY <1>1 DEF Connect, NamedIdsGranted, Granted, threadVars, answerVars
  <2> QED
    BY <1>1, <2>1, <2>2, BystanderInv DEF Connect, TypeOK, Accepted
<1>2. CASE \E r \in Requests : Send(c, r)
  <2> PICK r \in Requests : Send(c, r)
    BY <1>2
  <2>1. TypeOK'
    BY DEF TypeOK, Send, threadVars
  <2>2. NamedIdsGranted'
    BY ConstantAssumption
    DEF ConstantAssumption, Send, NamedIdsGranted, Granted, threadVars, TypeOK
  <2> QED
    BY <2>1, <2>2, BystanderInv DEF Send
<1>3. CASE Disconnect(c) \/ Abort(c)
  <2>1. TypeOK'
    BY <1>3 DEF TypeOK, Disconnect, Abort, threadVars, answerVars
  <2>2. NamedIdsGranted'
    BY <1>3 DEF Disconnect, Abort, NamedIdsGranted, Granted, threadVars, answerVars
  <2> QED
    BY <1>3, <2>1, <2>2, BystanderInv DEF Disconnect, Abort
<1> QED
  BY <1>1, <1>2, <1>3 DEF Peer

\* So does the end of start().
LEMMA StopInv == PoolInv /\ Stop => PoolInv'
<1> SUFFICES ASSUME PoolInv, Stop PROVE PoolInv'
  OBVIOUS
<1>1. TypeOK'
  BY DEF PoolInv, TypeOK, Stop, threadVars, answerVars
<1>2. NamedIdsGranted'
  BY DEF PoolInv, Stop, NamedIdsGranted, Granted, threadVars, answerVars
<1> QED
  BY <1>1, <1>2, BystanderInv DEF Stop, Accepted

\* Accepting a connection preserves it: nobody read that connection before.
LEMMA AcceptInv ==
  ASSUME PoolInv, NEW t \in Threads, NEW c \in Conns, Accept(t, c)
  PROVE  PoolInv'
<1> USE DEF PoolInv, Accept, answerVars, Goto
<1>0. /\ \A u \in Threads \ {t} : pc'[u] = pc[u] /\ cur'[u] = cur[u]
      /\ pc'[t] = "read" /\ cur'[t] = c /\ pc[t] = "accept"
      /\ \A d \in Conns \ {c} : link'[d] = link[d]
      /\ link[c] = "queued" /\ link'[c] = "open"
  BY DEF TypeOK
<1>1. TypeOK'
  BY DEF TypeOK, Labels
<1>2. LinksAccepted'
  BY <1>0 DEF LinksAccepted, Serving, Accepted, TypeOK
<1>3. OneWorkerPerConn'
  BY <1>0 DEF OneWorkerPerConn, LinksAccepted, Serving, Accepted
<1>4. SessionsGranted' /\ NamedIdsGranted' /\ FoundSession' /\ OwnedSession'
  BY <1>0 DEF SessionsGranted, NamedIdsGranted, Granted, FoundSession, OwnedSession, OwnedLabels
<1>5. RequestsRead'
  <2>1. \A s \in SessionIds : grant[s].conn # NoConn => grant[s].conn # c
    BY <1>0 DEF LinksAccepted, Accepted
  <2>2. \A d \in Conns : link[d] = "closed" => link'[d] = "closed"
    BY <1>0
  <2>3. req[t] # NoRequest => req[t] \in Requests /\ Granted(req[t])
    BY DEF TypeOK, NamedIdsGranted
  <2> QED
    BY <1>0, <2>1, <2>2, <2>3 DEF RequestsRead, Granted, TypeOK, Serving, LinksAccepted,
     OwnedLabels, BodyLabels
<1>6. CauseOfDeath' /\ KeyErrorOnlyForeign'
  BY <1>0 DEF CauseOfDeath, KeyErrorOnlyForeign
<1> QED
  BY <1>1, <1>2, <1>3, <1>4, <1>5, <1>6

\* Reading a request preserves it: what it names was made earlier.
LEMMA ReadInv ==
  ASSUME PoolInv, NEW t \in Threads, Read(t)
  PROVE  PoolInv'
<1> USE DEF PoolInv, Read, answerVars, Goto
<1>0. /\ \A u \in Threads \ {t} : pc'[u] = pc[u] /\ req'[u] = req[u] /\ sock'[u] = sock[u]
      /\ pc'[t] = "handle" /\ req'[t] = inbox[cur[t]] /\ sock'[t] = cur[t] /\ pc[t] = "read"
      /\ Serving(t) /\ cur[t] \in Conns /\ req'[t] \in Requests
  BY DEF TypeOK, Serving, LinksAccepted
<1>1. TypeOK'
  BY <1>0 DEF TypeOK, Labels
<1>2. LinksAccepted' /\ OneWorkerPerConn'
  BY <1>0 DEF LinksAccepted, OneWorkerPerConn, Serving
<1>3. NamedIdsGranted'
  BY <1>0, ConstantAssumption DEF NamedIdsGranted, Granted, TypeOK, ConstantAssumption
<1>4. SessionsGranted' /\ FoundSession' /\ OwnedSession' /\ CauseOfDeath'
  BY <1>0 DEF SessionsGranted, FoundSession, OwnedSession, CauseOfDeath, OwnedLabels
<1>5. RequestsRead'
  BY <1>0, ConstantAssumption DEF RequestsRead, Serving, OwnedLabels, BodyLabels, ConstantAssumption
<1>6. KeyErrorOnlyForeign'
  BY <1>0 DEF KeyErrorOnlyForeign, CauseOfDeath
<1> QED
  BY <1>1, <1>2, <1>3, <1>4, <1>5, <1>6

\* An exception nobody catches settles the request too.
LEMMA DieSettles ==
  ASSUME PoolInv, NEW t \in Threads, Serving(t), NEW why \in Causes,
         Die(t, why),
         reply' \in [Conns -> Reply], waiting' \in [Conns -> BOOLEAN], known' = known, out' = out
  PROVE  Settles(t) /\ pc'[t] = "dead" /\ cause'[t] = why
  BY DEF PoolInv, TypeOK, LinksAccepted, Die, Goto, Settles, Labels, Accepted, ConnStates, Serving

\* A worker killed by any exception but KeyError preserves it.
LEMMA RaiseInv ==
  ASSUME PoolInv, NEW t \in Threads, Serving(t), NEW why \in Causes \ {"keyerror"},
         Raise(t, why)
  PROVE  PoolInv'
<1>1. /\ Die(t, why) /\ UNCHANGED <<sessions, grant, reply, waiting, known, out, inbox>> /\ Frame
  BY DEF Raise, HandlerFrame, answerVars
<1>2. reply' \in [Conns -> Reply] /\ waiting' \in [Conns -> BOOLEAN]
  BY <1>1 DEF PoolInv, TypeOK
<1>3. Settles(t) /\ pc'[t] = "dead" /\ cause'[t] = why
  BY <1>1, <1>2, DieSettles
<1> QED
  BY <1>1, <1>3, SettlesInv DEF PoolInv, TypeOK

\* So does an answer that leaves the sessions alone.
LEMMA RefuseInv ==
  ASSUME PoolInv, NEW t \in Threads, Serving(t), req[t] # NoRequest,
         NEW n \in {200, 400, 401, 403, 453, 454, 455, 461}, Refuse(t, n)
  PROVE  PoolInv'
<1>1. /\ Respond(t, sock[t], Answer(n, NoSession), "body")
      /\ UNCHANGED <<sessions, grant, inbox>> /\ Frame
  BY DEF Refuse, HandlerFrame
<1>2. sock[t] \in Conns /\ (sock[t] = cur[t] \/ link[sock[t]] = "closed")
  BY DEF PoolInv, TypeOK, RequestsRead
<1>3. Answer(n, NoSession) \in Reply /\ Answer(n, NoSession).session = NoSession
  BY DEF Answer, Reply
<1>4. /\ Settles(t)
      /\ pc'[t] \in {"read", "accept", "dead"} \/ (pc'[t] = "body" /\ out'[t] = cur[t] /\ sock[t] = cur[t])
      /\ cause'[t] # "keyerror"
      /\ known' \subseteq known \cup {NoSession}
  BY <1>1, <1>2, <1>3, RespondSettles DEF BodyLabels
<1>5. inbox \in [Conns -> Requests \cup {NoRequest}] /\ NoSession \notin SessionIds
  BY ConstantAssumption DEF PoolInv, TypeOK, ConstantAssumption
<1>6. \A s \in known' : s \in known
  BY <1>4, <1>5 DEF Settles
<1> QED
  BY <1>1, <1>4, <1>5, <1>6, SettlesInv DEF BodyLabels, OwnedLabels

\* So does a read that fails, one that falls through to an old request included.
LEMMA ReadFailureInv ==
  ASSUME PoolInv, NEW t \in Threads,
         ReadGarbled(t) \/ ReadEof(t) \/ ReadReset(t) \/ ReadFails(t)
  PROVE  PoolInv'
<1>0. Serving(t) /\ cause[t] = "none" /\ cur[t] \in Conns
  BY DEF ReadGarbled, ReadEof, ReadReset, ReadFails, Serving, PoolInv, CauseOfDeath, LinksAccepted
<1>1. CASE ReadGarbled(t) \/ ReadEof(t) \/ ReadFails(t)
  BY <1>0, <1>1, RaiseInv DEF ReadGarbled, ReadEof, ReadFails, Causes
<1>2. CASE ReadReset(t)
  <2>1. /\ UNCHANGED <<sessions, grant, reply, waiting, known, out>> /\ Frame
        /\ inbox' \in [Conns -> Requests \cup {NoRequest}]
        /\ \A c \in Conns : inbox'[c] \in {inbox[c], NoRequest}
        /\ reply' \in [Conns -> Reply] /\ waiting' \in [Conns -> BOOLEAN]
    <3>1. /\ inbox \in [Conns -> Requests \cup {NoRequest}]
          /\ reply \in [Conns -> Reply] /\ waiting \in [Conns -> BOOLEAN]
      BY DEF PoolInv, TypeOK
    <3>2. /\ UNCHANGED <<sessions, grant, reply, waiting, known, out>> /\ Frame
          /\ inbox' = [inbox EXCEPT ![cur[t]] = NoRequest]
      BY <1>2 DEF ReadReset, answerVars
    <3> QED
      BY <3>1, <3>2
  <2>2. CASE Die(t, "unbound")
    <3>1. Settles(t) /\ pc'[t] = "dead" /\ cause'[t] = "unbound"
      BY <1>0, <2>1, <2>2, DieSettles DEF Causes
    <3> QED
      BY <1>0, <2>1, <3>1, SettlesInv
  <2>3. CASE ResetCaught(t, "handle") /\ ~(ResetErrno # 10054 /\ req[t] = NoRequest)
    <3>1. link[cur[t]] = "open"
      BY <1>2 DEF ReadReset
    <3>2. PICK l \in {"accept", "handle"}, x \in {"closed", "broken"} :
            /\ Goto(t, l) /\ link' = [link EXCEPT ![cur[t]] = x] /\ cause' = cause
            /\ l = "accept" => x = "closed"
            /\ l = "handle" => req[t] # NoRequest
      BY <2>3 DEF ResetCaught
    <3>3. /\ pc' \in [Threads -> Labels] /\ pc'[t] = l
          /\ \A u \in Threads \ {t} : pc'[u] = pc[u]
      BY <3>2 DEF Goto, PoolInv, TypeOK, Labels
    <3>4. /\ link' \in [Conns -> ConnStates] /\ link'[cur[t]] = x
          /\ \A c \in Conns \ {cur[t]} : link'[c] = link[c]
      BY <1>0, <3>2 DEF PoolInv, TypeOK, ConnStates
    <3>5. Settles(t) /\ cause'[t] = "none"
      BY <1>0, <2>1, <3>1, <3>2, <3>3, <3>4 DEF Settles, PoolInv, TypeOK, Accepted
    <3> QED
      BY <1>0, <2>1, <3>2, <3>3, <3>5, SettlesInv DEF BodyLabels, OwnedLabels
  <2> QED
    BY <1>2, <2>2, <2>3 DEF ReadReset
<1> QED
  BY <1>1, <1>2

\* A worker inside a handler has a request, and its own connection.
LEMMA HandlingFacts ==
  ASSUME PoolInv, NEW t \in Threads,
         pc[t] \in {"handle", "found"} \cup OwnedLabels \cup BodyLabels
  PROVE  /\ Serving(t) /\ cause[t] = "none"
         /\ req[t] # NoRequest /\ req[t] \in Requests
         /\ cur[t] \in Conns /\ link[cur[t]] \in Accepted /\ cur[t] # NoConn
         /\ sock[t] \in Conns /\ (sock[t] = cur[t] \/ link[sock[t]] = "closed")
  BY ConstantAssumption
  DEF PoolInv, TypeOK, RequestsRead, LinksAccepted, CauseOfDeath, Serving, ConstantAssumption,
      OwnedLabels, BodyLabels

\* The refusals of OPTIONS, unknown methods and SETUP preserve it.
LEMMA RefusalsInv ==
  ASSUME PoolInv, NEW t \in Threads, Options(t) \/ SetupRefused(t)
  PROVE  PoolInv'
<1>1. pc[t] = "handle"
  BY DEF Options, SetupRefused, Handling
<1>2. Serving(t) /\ req[t] # NoRequest
  BY <1>1, HandlingFacts
<1>3. \/ \E n \in {200, 400, 401, 403, 453, 454, 455, 461} : Refuse(t, n)
      \/ Raise(t, "open")
  BY DEF Options, SetupRefused
<1> QED
  BY <1>2, <1>3, RefuseInv, RaiseInv DEF Causes

\* A worker that goes on in its handler, and changes nothing else.
LEMMA GoesOnInv ==
  ASSUME PoolInv, NEW t \in Threads, Serving(t), req[t] # NoRequest,
         NEW l \in {"found", "owned"}, Goto(t, l),
         UNCHANGED <<link, reply, waiting, known, out, cause, sessions, grant, inbox>>, Frame,
         /\ req[t].session \in SessionIds
         /\ sessions[req[t].session] # NoConn
         /\ l = "owned" => sessions[req[t].session] = cur[t]
  PROVE  PoolInv'
<1> USE DEF PoolInv
<1>0. /\ \A u \in Threads \ {t} : pc'[u] = pc[u]
      /\ pc'[t] = l
  BY DEF TypeOK, Goto
<1>1. TypeOK'
  BY DEF TypeOK, Goto, Labels, Frame
<1>2. LinksAccepted' /\ OneWorkerPerConn' /\ NamedIdsGranted' /\ CauseOfDeath' /\ KeyErrorOnlyForeign'
  BY <1>0 DEF LinksAccepted, OneWorkerPerConn, NamedIdsGranted, Granted, CauseOfDeath,
              KeyErrorOnlyForeign, Serving, Frame
<1>3. SessionsGranted' /\ FoundSession' /\ OwnedSession'
  BY <1>0 DEF SessionsGranted, FoundSession, OwnedSession, OwnedLabels, Frame
<1>4. RequestsRead'
  BY <1>0 DEF RequestsRead, Serving, Frame, OwnedLabels, BodyLabels
<1> QED
  BY <1>1, <1>2, <1>3, <1>4

\* The first dict access of PLAY and TEARDOWN preserves it.
LEMMA LookupInv ==
  ASSUME PoolInv, NEW t \in Threads, Lookup(t)
  PROVE  PoolInv'
<1>1. pc[t] = "handle"
  BY DEF Lookup, Handling
<1>2. Serving(t) /\ req[t] # NoRequest
  BY <1>1, HandlingFacts
<1>3. CASE Refuse(t, 453) \/ Refuse(t, 454)
  BY <1>2, <1>3, RefuseInv
<1>4. CASE Raise(t, "uuid")
  BY <1>2, <1>4, RaiseInv DEF Causes
<1>5. CASE /\ req[t].session \in SessionIds /\ sessions[req[t].session] # NoConn
           /\ Goto(t, "found")
           /\ UNCHANGED <<link, answerVars, out, cause, sessions, grant>> /\ HandlerFrame
  BY <1>2, <1>5, GoesOnInv DEF HandlerFrame, answerVars
<1> QED
  BY <1>3, <1>4, <1>5 DEF Lookup

\* The second one does, KeyError included.
LEMMA CheckOwnerInv ==
  ASSUME PoolInv, NEW t \in Threads, CheckOwner(t)
  PROVE  PoolInv'
<1> DEFINE s == req[t].session
<1>1. pc[t] = "found"
  BY DEF CheckOwner
<1>2. Serving(t) /\ req[t] # NoRequest /\ cur[t] # NoConn /\ cause[t] = "none"
  BY <1>1, HandlingFacts
<1>3. s \in SessionIds /\ grant[s].conn # NoConn /\ (grant[s].conn = cur[t] => sessions[s] = cur[t])
  BY <1>1 DEF PoolInv, FoundSession
<1>4. CASE Refuse(t, 455)
  BY <1>2, <1>4, RefuseInv
<1>5. CASE /\ sessions[s] = cur[t] /\ Goto(t, "owned")
           /\ UNCHANGED <<link, answerVars, out, cause, sessions, grant>> /\ HandlerFrame
  BY <1>2, <1>3, <1>5, GoesOnInv DEF HandlerFrame, answerVars
<1>6. CASE sessions[s] = NoConn /\ Raise(t, "keyerror")
  <2>1. /\ Die(t, "keyerror") /\ Frame
        /\ UNCHANGED <<sessions, grant, reply, waiting, known, out, inbox>>
    BY <1>6 DEF Raise, HandlerFrame, answerVars
  <2>2. /\ reply \in [Conns -> Reply] /\ waiting \in [Conns -> BOOLEAN] /\ "keyerror" \in Causes
        /\ inbox \in [Conns -> Requests \cup {NoRequest}]
    BY DEF PoolInv, TypeOK, Causes
  <2>3. Settles(t) /\ pc'[t] = "dead" /\ cause'[t] = "keyerror"
    BY <1>2, <2>1, <2>2, DieSettles
  <2> QED
    BY <1>2, <1>3, <1>6, <2>1, <2>2, <2>3, SettlesInv
<1> QED
  BY <1>4, <1>5, <1>6 DEF CheckOwner

\* Past the ownership check the session is there, and is the connection's.
LEMMA OwnedFacts ==
  ASSUME PoolInv, NEW t \in Threads, pc[t] \in OwnedLabels
  PROVE  /\ req[t].session \in SessionIds
         /\ sessions[req[t].session] = cur[t] /\ grant[req[t].session].conn = cur[t]
         /\ sessions[req[t].session] # NoConn
         /\ sock[t] = cur[t]
<1>1. Serving(t) /\ cur[t] \in Conns /\ cur[t] # NoConn /\ req[t] # NoRequest
  BY HandlingFacts
<1>2. req[t].session \in SessionIds /\ sessions[req[t].session] = cur[t]
  BY DEF PoolInv, OwnedSession
<1>3. grant[req[t].session].conn = cur[t]
  BY <1>1, <1>2 DEF PoolInv, SessionsGranted
<1> QED
  BY <1>1, <1>2, <1>3 DEF PoolInv, RequestsRead

\* The second send of an answer: on the worker's connection, like the first.
LEMMA BodyFacts ==
  ASSUME PoolInv, NEW t \in Threads, pc[t] \in BodyLabels
  PROVE  out[t] = cur[t] /\ sock[t] = cur[t] /\ cur[t] \in Conns /\ Serving(t) /\ req[t] # NoRequest
<1>1. cur[t] \in Conns /\ Serving(t) /\ req[t] # NoRequest
  BY HandlingFacts
<1> QED
  BY <1>1 DEF PoolInv, RequestsRead

\* It preserves the invariant.
LEMMA SendBodyInv ==
  ASSUME PoolInv, NEW t \in Threads, SendBody(t)
  PROVE  PoolInv'
<1> DEFINE l == IF pc[t] = "lastbody" THEN "closing" ELSE "read"
<1>1. /\ pc[t] \in BodyLabels
      /\ out[t] = cur[t] /\ sock[t] = cur[t] /\ cur[t] \in Conns /\ Serving(t) /\ req[t] # NoRequest
  BY BodyFacts DEF SendBody
<1>2. CASE Raise(t, "range")
  BY <1>1, <1>2, RaiseInv DEF Causes
<1>3. CASE /\ SendOn(t, out[t], l) /\ out' = [out EXCEPT ![t] = NoConn]
           /\ UNCHANGED <<answerVars, sessions, grant>> /\ HandlerFrame
  <2>1. UNCHANGED <<reply, waiting, known, sessions, grant, inbox>> /\ Frame
    BY <1>3 DEF answerVars, HandlerFrame
  <2>2. /\ reply' \in [Conns -> Reply] /\ waiting' \in [Conns -> BOOLEAN] /\ known' \subseteq SessionIds
        /\ inbox' \in [Conns -> Requests \cup {NoRequest}]
    BY <2>1 DEF PoolInv, TypeOK
  <2>3. l \in Labels \ {"accept", "dead"}
    BY DEF Labels
  <2>4. /\ Settles(t) /\ cause'[t] # "keyerror"
        /\ pc'[t] \in {"read", "accept", "dead"} \/ pc'[t] = l
    BY <1>1, <1>3, <2>2, <2>3, SendOnSettles
  <2>5. pc'[t] = "closing" => req[t].session \in SessionIds /\ sessions[req[t].session] = cur[t]
    BY <2>4, OwnedFacts DEF OwnedLabels
  <2> QED
    BY <1>1, <2>1, <2>2, <2>4, <2>5, SettlesInv DEF BodyLabels, OwnedLabels
<1> QED
  BY <1>2, <1>3 DEF SendBody

\* PLAY preserves it.
LEMMA PlayInv ==
  ASSUME PoolInv, NEW t \in Threads, Play(t)
  PROVE  PoolInv'
<1> DEFINE s == req[t].session
<1>1. pc[t] = "owned" /\ pc[t] \in OwnedLabels
  BY DEF Play, OwnedLabels
<1>2. Serving(t) /\ cause[t] = "none" /\ cur[t] \in Conns /\ req[t] # NoRequest /\ sock[t] = cur[t]
  BY <1>1, HandlingFacts, OwnedFacts
<1>3. s \in SessionIds /\ sessions[s] = cur[t] /\ sessions[s] # NoConn /\ grant[s].conn # NoConn
  BY <1>1, OwnedFacts
<1>4. /\ Answer(206, s) \in Reply /\ Answer(206, s).session = s
      /\ inbox \in [Conns -> Requests \cup {NoRequest}]
      /\ reply \in [Conns -> Reply] /\ waiting \in [Conns -> BOOLEAN]
  BY <1>3 DEF Answer, Reply, PoolInv, TypeOK
<1>5. CASE Raise(t, "range")
  BY <1>2, <1>5, RaiseInv DEF Causes
<1>6. CASE /\ Respond(t, sessions[s], Answer(206, s), "media")
           /\ UNCHANGED <<sessions, grant>> /\ HandlerFrame
  <2>1. /\ Settles(t)
        /\ pc'[t] \in {"read", "accept", "dead"} \/ (pc'[t] = "media" /\ out'[t] = cur[t])
        /\ cause'[t] # "keyerror"
        /\ known' \subseteq known \cup {s}
    BY <1>2, <1>3, <1>4, <1>6, RespondSettles DEF BodyLabels
  <2>2. \A x \in known' : x \in known \/ grant[x].conn # NoConn
    BY <1>3, <2>1
  <2> QED
    BY <1>2, <1>3, <1>4, <1>6, <2>1, <2>2, SettlesInv DEF HandlerFrame, BodyLabels, OwnedLabels
<1> QED
  BY <1>3, <1>5, <1>6 DEF Play

\* The three steps of TEARDOWN preserve it.
LEMMA TeardownInv ==
  ASSUME PoolInv, NEW t \in Threads,
         TeardownAnswer(t) \/ TeardownClose(t) \/ TeardownPop(t)
  PROVE  PoolInv'
<1> DEFINE s == req[t].session
<1>1. pc[t] \in OwnedLabels
  BY DEF TeardownAnswer, TeardownClose, TeardownPop, OwnedLabels
<1>2. /\ Serving(t) /\ cause[t] = "none" /\ cur[t] \in Conns /\ link[cur[t]] \in Accepted
      /\ req[t] # NoRequest /\ sock[t] = cur[t]
  BY <1>1, HandlingFacts, OwnedFacts
<1>3. s \in SessionIds /\ sessions[s] = cur[t] /\ sessions[s] # NoConn /\ grant[s].conn = cur[t]
  BY <1>1, OwnedFacts
<1>4. CASE TeardownAnswer(t)
  <2> DEFINE a == Answer(200, NoSession)
  <2>1. Respond(t, cur[t], a, "lastbody") /\ UNCHANGED <<sessions, grant, inbox>> /\ Frame
    BY <1>2, <1>4 DEF TeardownAnswer, HandlerFrame
  <2>2. /\ a \in Reply /\ a.session = NoSession /\ NoSession \notin SessionIds
        /\ inbox \in [Conns -> Requests \cup {NoRequest}]
    BY ConstantAssumption DEF Answer, Reply, ConstantAssumption, PoolInv, TypeOK
  <2> HIDE DEF a
  <2>3. /\ Settles(t)
        /\ pc'[t] \in {"read", "accept", "dead"} \/ (pc'[t] = "lastbody" /\ out'[t] = cur[t])
        /\ cause'[t] # "keyerror"
        /\ known' \subseteq known \cup {NoSession}
    BY <1>2, <2>1, <2>2, RespondSettles DEF BodyLabels
  <2>4. \A x \in known' : x \in known
    BY <2>2, <2>3 DEF Settles
  <2> QED
    BY <1>2, <1>3, <2>1, <2>2, <2>3, <2>4, SettlesInv DEF BodyLabels, OwnedLabels
<1>5. CASE TeardownClose(t)
  <2> USE DEF PoolInv
  <2>1. /\ link' = [link EXCEPT ![cur[t]] = "closed"] /\ Goto(t, "popping")
        /\ UNCHANGED <<reply, waiting, known, out, cause, sessions, grant, inbox>> /\ Frame
        /\ \A u \in Threads \ {t} : pc'[u] = pc[u]
        /\ pc'[t] = "popping"
        /\ \A c \in Conns : link'[c] = IF c = cur[t] THEN "closed" ELSE link[c]
    BY <1>3, <1>5 DEF TeardownClose, HandlerFrame, answerVars, Goto, TypeOK
  <2>2. TypeOK' /\ NamedIdsGranted'
    BY <2>1 DEF TypeOK, NamedIdsGranted, Granted, Goto, Labels, Frame
  <2>3. LinksAccepted' /\ OneWorkerPerConn' /\ SessionsGranted'
    <3>1. \A c \in Conns : link[c] \in Accepted => link'[c] \in Accepted
      BY <2>1 DEF Accepted
    <3>2. \A u \in Threads : (Serving(u)' => Serving(u)) /\ cur'[u] = cur[u]
      BY <1>2, <2>1 DEF Frame, Serving
    <3>3. \A x \in SessionIds : grant[x].conn \in Conns \cup {NoConn}
      BY DEF TypeOK
    <3>4. LinksAccepted'
      BY <2>1, <3>1, <3>2, <3>3 DEF LinksAccepted
    <3>5. OneWorkerPerConn'
      BY <3>2 DEF OneWorkerPerConn
    <3>6. SessionsGranted'
      BY <2>1 DEF SessionsGranted
    <3> QED
      BY <3>4, <3>5, <3>6
  <2>4. RequestsRead'
    BY <1>2, <2>1 DEF RequestsRead, Frame, Serving, LinksAccepted, TypeOK, OwnedLabels, BodyLabels
  <2>5. FoundSession' /\ OwnedSession' /\ CauseOfDeath' /\ KeyErrorOnlyForeign'
    BY <1>2, <1>3, <2>1
    DEF FoundSession, OwnedSession, OwnedLabels, CauseOfDeath, KeyErrorOnlyForeign, Frame, Serving
  <2> QED
    BY <2>2, <2>3, <2>4, <2>5
<1>6. CASE TeardownPop(t)
  <2> USE DEF PoolInv
  <2>1. /\ sessions' = [sessions EXCEPT ![s] = NoConn] /\ Goto(t, "accept")
        /\ UNCHANGED <<link, reply, waiting, known, out, cause, grant, inbox>> /\ Frame
        /\ \A u \in Threads \ {t} : pc'[u] = pc[u]
        /\ pc'[t] = "accept" /\ link[cur[t]] = "closed"
        /\ \A x \in SessionIds : sessions'[x] = IF x = s THEN NoConn ELSE sessions[x]
    BY <1>3, <1>6 DEF TeardownPop, HandlerFrame, answerVars, Goto, TypeOK, RequestsRead
  <2>2. TypeOK' /\ NamedIdsGranted'
    BY <2>1 DEF TypeOK, NamedIdsGranted, Granted, Goto, Labels, Frame
  <2>3. LinksAccepted' /\ OneWorkerPerConn' /\ SessionsGranted'
    BY <2>1 DEF LinksAccepted, OneWorkerPerConn, SessionsGranted, Frame, Serving
  <2>4. RequestsRead'
    BY <1>2, <2>1 DEF RequestsRead, Frame, Serving, OwnedLabels, BodyLabels
  <2>5. \A u \in Threads \ {t} : Serving(u) => cur[u] # cur[t]
    BY <1>2 DEF OneWorkerPerConn
  <2>6. FoundSession' /\ OwnedSession'
    BY <1>3, <2>1, <2>5 DEF FoundSession, OwnedSession, OwnedLabels, Frame, Serving
  <2>7. CauseOfDeath' /\ KeyErrorOnlyForeign'
    BY <1>2, <2>1 DEF CauseOfDeath, KeyErrorOnlyForeign, Frame, Serving
  <2> QED
    BY <2>2, <2>3, <2>4, <2>6, <2>7
<1> QED
  BY <1>4, <1>5, <1>6

\* The id and the answer of a SETUP.
LEMMA SetupPick ==
  ASSUME NEW t \in Threads, SetupGranted(t)
  PROVE  \E s \in Fresh, n \in {200, 404} :
           /\ grant' = [grant EXCEPT ![s] = [conn |-> cur[t], auth |-> req[t].auth]]
           /\ sessions' \in {sessions, [sessions EXCEPT ![s] = cur[t]]}
           /\ Respond(t, sock[t], Answer(n, s), "body")
<1>1. PICK s \in Fresh :
        /\ grant' = [grant EXCEPT ![s] = [conn |-> cur[t], auth |-> req[t].auth]]
        /\ \/ /\ sessions' = sessions
              /\ Respond(t, sock[t], Answer(404, s), "body")
           \/ /\ sessions' = [sessions EXCEPT ![s] = cur[t]]
              /\ Respond(t, sock[t], Answer(200, s), "body")
  BY ZenonT(30) DEF SetupGranted
<1>2. CASE sessions' = sessions /\ Respond(t, sock[t], Answer(404, s), "body")
  <2>1. 404 \in {200, 404} /\ sessions' \in {sessions, [sessions EXCEPT ![s] = cur[t]]}
    BY <1>2
  <2> QED
    BY <1>1, <1>2, <2>1, ZenonT(60)
<1>3. CASE /\ sessions' = [sessions EXCEPT ![s] = cur[t]]
           /\ Respond(t, sock[t], Answer(200, s), "body")
  <2>1. 200 \in {200, 404} /\ sessions' \in {sessions, [sessions EXCEPT ![s] = cur[t]]}
    BY <1>3
  <2> QED
    BY <1>1, <1>3, <2>1, ZenonT(60)
<1> QED
  BY <1>1, <1>2, <1>3

\* SETUP makes an id nobody has, so no worker, request or session refers to it.
LEMMA SetupGrantedInv ==
  ASSUME PoolInv, NEW t \in Threads, SetupGranted(t)
  PROVE  PoolInv'
<1>1. pc[t] = "handle"
  BY DEF SetupGranted, Handling
<1>2. /\ Serving(t) /\ cause[t] = "none" /\ cur[t] \in Conns /\ link[cur[t]] \in Accepted
      /\ cur[t] # NoConn /\ req[t] # NoRequest /\ req[t] \in Requests
      /\ sock[t] \in Conns /\ (sock[t] = cur[t] \/ link[sock[t]] = "closed")
  BY <1>1, HandlingFacts
<1>3. PICK s \in Fresh :
        /\ grant' = [grant EXCEPT ![s] = [conn |-> cur[t], auth |-> req[t].auth]]
        /\ sessions' \in {sessions, [sessions EXCEPT ![s] = cur[t]]}
        /\ \E n \in {200, 404} : Respond(t, sock[t], Answer(n, s), "body")
  BY SetupPick
<1>4. /\ s \in SessionIds /\ grant[s].conn = NoConn /\ sessions[s] = NoConn
  <2>1. s \in SessionIds /\ grant[s].conn = NoConn
    BY <1>3 DEF Fresh
  <2>2. sessions[s] # NoConn => grant[s].conn = sessions[s]
    BY <2>1 DEF PoolInv, SessionsGranted
  <2> QED
    BY <2>1, <2>2
<1>5. UNCHANGED inbox /\ Frame /\ ~Unauthorized(req[t])
  BY DEF SetupGranted, HandlerFrame
<1>6. /\ Settles(t)
      /\ pc'[t] \in {"read", "accept", "dead"} \/ (pc'[t] = "body" /\ out'[t] = cur[t] /\ sock[t] = cur[t])
      /\ cause'[t] # "keyerror"
      /\ known' \subseteq known \cup {s}
  <2>1. PICK n \in {200, 404} : Respond(t, sock[t], Answer(n, s), "body")
    BY <1>3
  <2>2. Answer(n, s) \in Reply /\ Answer(n, s).session = s
    BY <1>4 DEF Answer, Reply
  <2> QED
    BY <1>2, <2>1, <2>2, RespondSettles DEF BodyLabels
<1>7. req[t].auth \in {"absent", "wrong", "right"} /\ (UseAuth => req[t].auth = "right")
  BY <1>2, <1>5, ConstantAssumption DEF Unauthorized, ConstantAssumption, RequestType
<1>8. /\ grant \in [SessionIds -> [conn: Conns \cup {NoConn}, auth: {"absent", "wrong", "right"}]]
      /\ sessions \in [SessionIds -> Conns \cup {NoConn}]
  BY DEF PoolInv, TypeOK
<1>9. /\ grant'[s].conn = cur[t] /\ grant'[s].auth = req[t].auth
      /\ sessions'[s] \in {NoConn, cur[t]}
      /\ \A x \in SessionIds \ {s} : grant'[x] = grant[x] /\ sessions'[x] = sessions[x]
  BY <1>3, <1>4, <1>8
<1> HIDE DEF Fresh
<1> USE DEF PoolInv
<1>10. TypeOK'
  <2>1. /\ listening \in BOOLEAN /\ peer \in [Conns -> {"up", "fin", "rst"}]
        /\ inbox \in [Conns -> Requests \cup {NoRequest}]
        /\ cur \in [Threads -> Conns \cup {NoConn}] /\ sock \in [Threads -> Conns \cup {NoConn}]
        /\ req \in [Threads -> Requests \cup {NoRequest}]
    BY DEF TypeOK
  <2>2. /\ listening' \in BOOLEAN /\ peer' \in [Conns -> {"up", "fin", "rst"}]
        /\ inbox' \in [Conns -> Requests \cup {NoRequest}]
        /\ cur' \in [Threads -> Conns \cup {NoConn}] /\ sock' \in [Threads -> Conns \cup {NoConn}]
        /\ req' \in [Threads -> Requests \cup {NoRequest}]
    BY <1>5, <2>1 DEF Frame
  <2>3. sessions' \in [SessionIds -> Conns \cup {NoConn}]
    BY <1>2, <1>3, <1>8
  <2>4. grant' \in [SessionIds -> [conn: Conns \cup {NoConn}, auth: {"absent", "wrong", "right"}]]
    BY <1>2, <1>3, <1>7, <1>8
  <2>5. known' \subseteq SessionIds
    BY <1>4, <1>6 DEF TypeOK
  <2>6. /\ link' \in [Conns -> {"new", "queued", "open", "broken", "closed"}]
        /\ waiting' \in [Conns -> BOOLEAN] /\ reply' \in [Conns -> Reply]
        /\ pc' \in [Threads -> Labels] /\ cause' \in [Threads -> Causes]
    BY <1>6 DEF Settles, ConnStates, TypeOK
  <2>7. out' \in [Threads -> Conns \cup {NoConn}]
    BY <1>6 DEF Settles
  <2> QED
    BY <2>2, <2>3, <2>4, <2>5, <2>6, <2>7 DEF TypeOK
<1>11. LinksAccepted'
  <2>1. \A c \in Conns : link[c] \in Accepted => link'[c] \in Accepted
    BY <1>2, <1>6 DEF Settles
  <2>2. \A u \in Threads : Serving(u)' => Serving(u) /\ cur'[u] = cur[u]
    BY <1>2, <1>5, <1>6 DEF Settles, Frame, Serving
  <2>3. \A x \in SessionIds : grant[x].conn \in Conns \cup {NoConn}
    BY <1>8
  <2> QED
    BY <1>2, <1>6, <1>9, <2>1, <2>2, <2>3 DEF LinksAccepted, Settles
<1>12. OneWorkerPerConn' /\ CauseOfDeath'
  BY <1>2, <1>5, <1>6 DEF OneWorkerPerConn, CauseOfDeath, Settles, Frame, Serving
<1>13. SessionsGranted'
  BY <1>2, <1>7, <1>9 DEF SessionsGranted
<1>14. NamedIdsGranted'
  <2>1. \A x \in SessionIds : grant[x].conn # NoConn => grant'[x].conn # NoConn
    BY <1>4, <1>9
  <2>2. grant'[s].conn # NoConn /\ known \subseteq SessionIds
    BY <1>2, <1>9 DEF TypeOK
  <2> QED
    BY <1>5, <1>6, <2>1, <2>2 DEF NamedIdsGranted, Granted, Frame
<1>15. \A u \in Threads : req[u] # NoRequest /\ req[u].session \in SessionIds => req[u].session # s
  BY <1>4 DEF NamedIdsGranted, Granted, TypeOK
<1>16. RequestsRead'
  <2>1. \A c \in Conns : link[c] = "closed" => link'[c] = "closed"
    BY <1>6 DEF Settles
  <2>2. \A u \in Threads : req'[u] # NoRequest /\ req'[u].session \in SessionIds =>
          grant'[req'[u].session] = grant[req[u].session]
    BY <1>5, <1>9, <1>15 DEF Frame
  <2> QED
    BY <1>2, <1>5, <1>6, <2>1, <2>2
    DEF RequestsRead, Settles, Frame, Serving, LinksAccepted, TypeOK, OwnedLabels, BodyLabels
<1>17. FoundSession' /\ OwnedSession'
  <2>1. \A u \in Threads : pc'[u] \in {"found"} \cup OwnedLabels =>
          pc[u] = pc'[u] /\ req'[u] # NoRequest /\ req'[u] = req[u] /\ cur'[u] = cur[u]
    BY <1>5, <1>6 DEF RequestsRead, Settles, Frame, OwnedLabels
  <2> QED
    BY <1>9, <1>15, <2>1 DEF FoundSession, OwnedSession
<1>18. KeyErrorOnlyForeign'
  <2>1. \A u \in Threads : cause'[u] = "keyerror" =>
          cause[u] = "keyerror" /\ req'[u] = req[u] /\ cur'[u] = cur[u]
    BY <1>5, <1>6 DEF Settles, Frame
  <2> QED
    BY <1>4, <1>9, <2>1 DEF KeyErrorOnlyForeign
<1> QED
  BY <1>10, <1>11, <1>12, <1>13, <1>14, <1>16, <1>17, <1>18

\* Every step preserves the invariant.
LEMMA NextInv == PoolInv /\ [Next]_vars => PoolInv'
<1> SUFFICES ASSUME PoolInv, [Next]_vars PROVE PoolInv'
  OBVIOUS
<1>1. CASE UNCHANGED vars
  BY <1>1 DEF vars, netVars, answerVars, threadVars, PoolInv, TypeOK, LinksAccepted,
     OneWorkerPerConn, SessionsGranted, NamedIdsGranted, Granted, RequestsRead,
     FoundSession, OwnedSession, CauseOfDeath, KeyErrorOnlyForeign, Serving
<1>2. ASSUME NEW t \in Threads, Worker(t) PROVE PoolInv'
  BY <1>2, AcceptInv, ReadInv, ReadFailureInv, RefusalsInv, SetupGrantedInv,
     LookupInv, CheckOwnerInv, PlayInv, TeardownInv, SendBodyInv DEF Worker, Handler
<1> QED
  BY <1>1, <1>2, StopInv, PeerInv DEF Next

\* The invariant holds in every state of every run.
THEOREM PoolInvariant == Spec => []PoolInv
  BY InitInv, NextInv, PTL DEF Spec

\* Type correctness of the pool.
THEOREM PoolTypes == Spec => []TypeOK
  BY PoolInvariant, PTL DEF PoolInv

\* No connection is read by two workers (server.py:34-39).
THEOREM PoolOneWorkerPerConn == Spec => []OneWorkerPerConn
  BY PoolInvariant, PTL DEF PoolInv

\* What a worker found to be its connection's session stays in the unlocked dict
\* until that worker removes it (server.py:75-81 and 92-97).
THEOREM PoolOwnedSession == Spec => []OwnedSession
  BY PoolInvariant, PTL DEF PoolInv

\* KeyError only ends a worker that was handed another connection's session
\* (server.py:75, 92).
THEOREM PoolKeyErrorOnlyForeign == Spec => []KeyErrorOnlyForeign
  BY PoolInvariant, PTL DEF PoolInv

\* The answers about a session go to the connection that owns it, even when a
\* reset made the worker handle an old request (server.py:40-43).
THEOREM PoolOwnedAnswersOwn == Spec => []OwnedAnswersOwn
<1>1. PoolInv => OwnedAnswersOwn
  BY OwnedFacts, BodyFacts DEF OwnedAnswersOwn, BodyLabels
<1> QED
  BY <1>1, PoolInvariant, PTL

-----------------------------------------------------------------------------
(* What a step may never do                                                *)

\* What a step of the pool does to the sessions: SETUP enters a new one of the
\* worker's connection, the end of a TEARDOWN removes one of its own.
LEMMA SessionSteps ==
  ASSUME PoolInv, [Next]_vars, NEW s \in SessionIds
  PROVE  \/ sessions'[s] = sessions[s]
         \/ sessions[s] = NoConn /\ grant[s].conn = NoConn
         \/ /\ sessions'[s] = NoConn
            /\ \E t \in Threads : Serving(t) /\ cur[t] = sessions[s]
<1>0. sessions \in [SessionIds -> Conns \cup {NoConn}]
  BY DEF PoolInv, TypeOK
<1>1. ASSUME NEW t \in Threads, TeardownPop(t)
      PROVE  \/ sessions'[s] = sessions[s]
             \/ /\ sessions'[s] = NoConn
                /\ Serving(t) /\ cur[t] = sessions[s]
  <2>1. pc[t] = "popping" /\ Serving(t)
    BY <1>1 DEF TeardownPop, Serving
  <2>2. sessions[req[t].session] = cur[t] /\ cur[t] # NoConn
    BY <2>1, OwnedFacts DEF OwnedLabels
  <2> QED
    BY <1>0, <1>1, <2>1, <2>2 DEF TeardownPop, Raise
<1>2. ASSUME NEW t \in Threads, SetupGranted(t)
      PROVE  sessions'[s] = sessions[s] \/ (sessions[s] = NoConn /\ grant[s].conn = NoConn)
  <2>1. PICK x \in Fresh : sessions' \in {sessions, [sessions EXCEPT ![x] = cur[t]]}
    BY <1>2 DEF SetupGranted
  <2> QED
    BY <1>0, <2>1 DEF Fresh, PoolInv, SessionsGranted
<1>3. ASSUME NEW t \in Threads, Worker(t), ~TeardownPop(t), ~SetupGranted(t)
      PROVE  sessions' = sessions
  BY <1>3 DEF Worker, Handler, Accept, Read, ReadGarbled, ReadEof, ReadReset, ReadFails, Options,
     SetupRefused, Lookup, CheckOwner, Play, TeardownAnswer, TeardownClose, SendBody, Refuse, Raise
<1>4. ASSUME Stop \/ (\E c \in Conns : Peer(c)) \/ UNCHANGED vars
      PROVE  sessions' = sessions
  BY <1>4 DEF Stop, Peer, Connect, Send, Disconnect, Abort, vars
<1> QED
  BY <1>1, <1>2, <1>3, <1>4 DEF Next

\* A step of one worker leaves the others where they are.
LEMMA OthersStay ==
  ASSUME PoolInv, NEW u \in Threads, Worker(u), ~(\E c \in Conns : Accept(u, c))
  PROVE  \A v \in Threads \ {u} : pc'[v] = pc[v]
<1>0. pc \in [Threads -> Labels]
  BY DEF PoolInv, TypeOK
<1>1. ASSUME NEW why, Die(u, why)
      PROVE  \A v \in Threads \ {u} : pc'[v] = pc[v]
  BY <1>0, <1>1 DEF Die, Goto
<1>2. ASSUME NEW c, NEW r, NEW l, Respond(u, c, r, l)
      PROVE  \A v \in Threads \ {u} : pc'[v] = pc[v]
  BY <1>0, <1>2 DEF Respond, SendOn, ResetCaught, Die, Goto
<1>3. CASE Read(u) \/ ReadReset(u)
  BY <1>0, <1>3 DEF Read, ReadReset, ResetCaught, Die, Goto
<1>4. CASE ReadGarbled(u) \/ ReadEof(u) \/ ReadFails(u) \/ Options(u) \/ SetupRefused(u)
  BY <1>1, <1>2, <1>4 DEF ReadGarbled, ReadEof, ReadFails, Options, SetupRefused, Refuse, Raise
<1>5. CASE SetupGranted(u) \/ TeardownAnswer(u)
  BY <1>2, <1>5 DEF SetupGranted, TeardownAnswer
<1>6. CASE Lookup(u) \/ CheckOwner(u) \/ TeardownClose(u) \/ TeardownPop(u)
  <2>1. ASSUME NEW l, Goto(u, l) PROVE \A v \in Threads \ {u} : pc'[v] = pc[v]
    BY <1>0, <2>1 DEF Goto
  <2> QED
    BY <1>1, <1>2, <1>6, <2>1 DEF Lookup, CheckOwner, TeardownClose, TeardownPop, Refuse, Raise
<1>7. CASE Play(u)
  BY <1>1, <1>2, <1>7 DEF Play, Raise
<1>8. CASE SendBody(u)
  BY <1>0, <1>1, <1>8 DEF SendBody, SendOn, ResetCaught, Goto, Raise
<1> QED
  BY <1>3, <1>4, <1>5, <1>6, <1>7, <1>8 DEF Worker, Handler

\* Who handles a request, read it from the connection it serves, as long as a
\* reset makes it leave.
LEMMA HandlesOwnNext ==
  ASSUME PoolInv, HandlesOwnRequest, [Next]_vars
  PROVE  HandlesOwnRequest'
<1> DEFINE H == {"handle", "found", "owned"}
<1>0. /\ pc \in [Threads -> Labels]
      /\ cur \in [Threads -> Conns \cup {NoConn}] /\ sock \in [Threads -> Conns \cup {NoConn}]
  BY DEF PoolInv, TypeOK
<1> SUFFICES ASSUME ResetErrno = 10054, NEW t \in Threads, pc'[t] \in H
             PROVE  sock'[t] = cur'[t]
  BY DEF HandlesOwnRequest
<1>1. pc[t] \in H => sock[t] = cur[t]
  BY DEF HandlesOwnRequest
<1>2. ASSUME NEW u \in Threads, NEW c \in Conns, Accept(u, c)
      PROVE  sock'[t] = cur'[t]
  <2>1. t # u
    BY <1>0, <1>2 DEF Accept, Goto
  <2> QED
    BY <1>0, <1>1, <1>2, <2>1 DEF Accept, Goto
<1>3. ASSUME NEW u \in Threads, Worker(u), ~(\E c \in Conns : Accept(u, c)), u # t
      PROVE  sock'[t] = cur'[t]
  <2>1. pc'[t] = pc[t]
    BY <1>3, OthersStay
  <2>2. sock'[t] = sock[t] /\ cur'[t] = cur[t]
    BY <1>0, <1>3 DEF Worker, Handler, Read, ReadGarbled, ReadEof, ReadReset, ReadFails, Options,
       SetupRefused, SetupGranted, Lookup, CheckOwner, Play, TeardownAnswer, TeardownClose,
       TeardownPop, SendBody, Refuse, Raise, HandlerFrame, Frame
  <2> QED
    BY <1>1, <2>1, <2>2
<1>4. CASE Read(t)
  BY <1>0, <1>4 DEF Read
<1>5. CASE ReadReset(t)
  <2>1. pc'[t] \in {"dead", "accept"}
    BY <1>0, <1>5 DEF ReadReset, ResetCaught, Die, Goto
  <2> QED
    BY <2>1
<1>6. CASE ReadGarbled(t) \/ ReadEof(t) \/ ReadFails(t)
  <2>1. pc'[t] = "dead"
    BY <1>0, <1>6 DEF ReadGarbled, ReadEof, ReadFails, Raise, Die, Goto
  <2> QED
    BY <2>1
<1>7. CASE TeardownClose(t) \/ TeardownPop(t)
  <2>1. pc'[t] \in {"dead", "popping", "accept"}
    BY <1>0, <1>7 DEF TeardownClose, TeardownPop, Raise, Die, Goto
  <2> QED
    BY <2>1
<1>8. CASE Options(t) \/ SetupRefused(t) \/ SetupGranted(t) \/ Lookup(t) \/ CheckOwner(t) \/ Play(t)
           \/ TeardownAnswer(t)
  <2>1. pc[t] \in H
    BY <1>8 DEF Options, SetupRefused, SetupGranted, Lookup, CheckOwner, Play, TeardownAnswer, Handling
  <2>2. sock' = sock /\ cur' = cur
    BY <1>8 DEF Options, SetupRefused, SetupGranted, Lookup, CheckOwner, Play, TeardownAnswer,
       Refuse, Raise, HandlerFrame, Frame
  <2> QED
    BY <1>1, <2>1, <2>2
<1>9. CASE SendBody(t)
  <2>1. pc[t] \in BodyLabels /\ pc'[t] \in {"dead", "accept", "read", "closing"}
    BY <1>0, <1>9 DEF SendBody, SendOn, ResetCaught, Raise, Die, Goto
  <2> QED
    BY <2>1
<1>10. CASE Stop \/ (\E c \in Conns : Peer(c)) \/ UNCHANGED vars
  <2>1. pc' = pc /\ sock' = sock /\ cur' = cur
    BY <1>10 DEF Stop, Peer, Connect, Send, Disconnect, Abort, vars, threadVars
  <2> QED
    BY <1>1, <2>1
<1> QED
  BY <1>2, <1>3, <1>4, <1>5, <1>6, <1>7, <1>8, <1>9, <1>10 DEF Next, Worker, Handler

\* With the Windows errno the request a worker handles is of the connection it
\* serves, resets or not (server.py:40-43).
THEOREM PoolHandlesOwnRequest == Spec => []HandlesOwnRequest
<1>1. Init => HandlesOwnRequest
  BY DEF Init, HandlesOwnRequest
<1> QED
  BY <1>1, HandlesOwnNext, PoolInvariant, PTL DEF Spec

\* A worker takes a connection from the queue, or stays with the one it has.
LEMMA ServingSteps ==
  ASSUME PoolInv, [Next]_vars, NEW t \in Threads, Serving(t)'
  PROVE  (Serving(t) /\ cur'[t] = cur[t]) \/ (cur'[t] \in Conns /\ link[cur'[t]] = "queued")
<1>0. pc \in [Threads -> Labels] /\ cur \in [Threads -> Conns \cup {NoConn}]
  BY DEF PoolInv, TypeOK
<1>1. ASSUME NEW u \in Threads, NEW c \in Conns, Accept(u, c)
      PROVE  (Serving(t) /\ cur'[t] = cur[t]) \/ (cur'[t] \in Conns /\ link[cur'[t]] = "queued")
  BY <1>0, <1>1 DEF Accept, Goto, Serving
<1>2. ASSUME NEW u \in Threads, Worker(u), ~(\E c \in Conns : Accept(u, c))
      PROVE  Serving(t) /\ cur'[t] = cur[t]
  <2>1. Serving(u) /\ cur' = cur
    BY <1>2 DEF Worker, Handler, Read, ReadGarbled, ReadEof, ReadReset, ReadFails, Options,
       SetupRefused, SetupGranted, Lookup, CheckOwner, Play, TeardownAnswer, TeardownClose,
       TeardownPop, SendBody, Refuse, Raise, Handling, HandlerFrame, Frame, Serving, BodyLabels
  <2>2. \A v \in Threads \ {u} : pc'[v] = pc[v]
    BY <1>2, OthersStay
  <2> QED
    BY <2>1, <2>2 DEF Serving
<1>3. ASSUME Stop \/ (\E c \in Conns : Peer(c)) \/ UNCHANGED vars
      PROVE  Serving(t) /\ cur'[t] = cur[t]
  BY <1>3 DEF Stop, Peer, Connect, Send, Disconnect, Abort, vars, threadVars, Serving
<1> QED
  BY <1>1, <1>2, <1>3 DEF Next

\* A session whose worker is gone stays in the dict for ever: only a TEARDOWN on
\* its own connection removes it (server.py:97), and nobody reads that any more.
THEOREM PoolOrphanStable == Spec => OrphanStable
<1>1. ASSUME PoolInv, [Next]_vars, NEW s \in SessionIds, Orphan(s)
      PROVE  Orphan(s)'
  <2>1. sessions[s] # NoConn /\ \A t \in Threads : ~(Serving(t) /\ cur[t] = sessions[s])
    BY <1>1 DEF Orphan, Served
  <2>2. sessions'[s] = sessions[s]
    BY <1>1, <2>1, SessionSteps
  <2>3. link[sessions[s]] # "queued"
    BY <1>1, <2>1 DEF PoolInv, SessionsGranted, LinksAccepted, Accepted
  <2>4. \A t \in Threads : Serving(t)' => cur'[t] # sessions[s]
    BY <1>1, <2>1, <2>3, ServingSteps
  <2> QED
    BY <2>1, <2>2, <2>4 DEF Orphan, Served
<1>2. PoolInv /\ [Next]_vars => [\A s \in SessionIds : Orphan(s) => Orphan(s)']_vars
  BY <1>1
<1> QED
  BY <1>2, PoolInvariant, PTL DEF Spec, OrphanStable

-----------------------------------------------------------------------------
(* Media, and the registry the pool implements                             *)

\* An answer changes what one peer has; media is its own session's, and it asked.
Answers(c, r) ==
  /\ reply' = [reply EXCEPT ![c] = r]
  /\ r.status = 206 =>
       /\ r.session \in SessionIds /\ sessions[r.session] = c
       /\ \E t \in Threads : pc[t] = "owned" /\ cur[t] = c /\ sock[t] = c
                            /\ req[t].method = "PLAY" /\ req[t].session = r.session

\* Response.response() on the worker's own connection or on one it has closed
\* reaches the former, or nobody.
LEMMA RespondAnswers ==
  ASSUME PoolInv, NEW t \in Threads, Serving(t),
         NEW c \in Conns, c = cur[t] \/ link[c] = "closed",
         NEW r, NEW l, Respond(t, c, r, l)
  PROVE  reply' = reply \/ (reply' = [reply EXCEPT ![c] = r] /\ c = cur[t])
  BY DEF Respond, Sendable, answerVars

\* Every step of a worker but SETUP and the end of a TEARDOWN leaves the sessions
\* alone and answers one peer at most.
LEMMA AnswerSteps ==
  ASSUME PoolInv, NEW t \in Threads, Worker(t), ~SetupGranted(t), ~TeardownPop(t)
  PROVE  /\ UNCHANGED <<sessions, grant>>
         /\ reply' = reply \/ \E c \in Conns, r \in Reply : Answers(c, r)
<1>1. CASE \/ \E c \in Conns : Accept(t, c)
           \/ Read(t) \/ ReadGarbled(t) \/ ReadEof(t) \/ ReadReset(t) \/ ReadFails(t)
  BY <1>1 DEF Accept, Read, ReadGarbled, ReadEof, ReadReset, ReadFails, Raise, answerVars
<1>2. ASSUME NEW n \in {200, 400, 401, 403, 453, 454, 455, 461},
             pc[t] \in {"handle", "found"}, Refuse(t, n)
      PROVE  /\ UNCHANGED <<sessions, grant>>
             /\ reply' = reply \/ \E c \in Conns, r \in Reply : Answers(c, r)
  <2>1. Answer(n, NoSession) \in Reply /\ Answer(n, NoSession).status # 206
    BY DEF Answer, Reply
  <2>2. Respond(t, sock[t], Answer(n, NoSession), "body") /\ UNCHANGED <<sessions, grant>>
    BY <1>2 DEF Refuse
  <2> QED
    BY <1>2, <2>1, <2>2, HandlingFacts, RespondAnswers DEF Answers
<1>3. CASE Options(t) \/ SetupRefused(t) \/ Lookup(t) \/ CheckOwner(t)
  BY <1>2, <1>3 DEF Options, SetupRefused, Lookup, CheckOwner, Handling, Raise, answerVars
<1>4. CASE Play(t)
  <2> DEFINE s == req[t].session
  <2>1. /\ Serving(t) /\ cur[t] \in Conns /\ s \in SessionIds /\ sessions[s] = cur[t]
        /\ pc[t] = "owned" /\ sock[t] = cur[t] /\ req[t].method = "PLAY"
    BY <1>4, HandlingFacts, OwnedFacts DEF Play, OwnedLabels
  <2>2. Answer(206, s) \in Reply /\ Answer(206, s).session = s
    BY <2>1 DEF Answer, Reply
  <2>3. UNCHANGED <<sessions, grant>>
    BY <1>4 DEF Play, Raise
  <2>4. reply' = reply \/ reply' = [reply EXCEPT ![cur[t]] = Answer(206, s)]
    BY <1>4, <2>1, RespondAnswers DEF Play, Raise, answerVars
  <2> QED
    BY <2>1, <2>2, <2>3, <2>4 DEF Answers
<1>5. CASE TeardownAnswer(t)
  <2>1. Answer(200, NoSession) \in Reply /\ Answer(200, NoSession).status # 206
    BY DEF Answer, Reply
  <2> QED
    BY <1>5, <2>1, HandlingFacts, RespondAnswers DEF TeardownAnswer, Answers, OwnedLabels
<1>6. CASE TeardownClose(t) \/ SendBody(t)
  BY <1>6 DEF TeardownClose, SendBody, Raise, answerVars
<1> QED
  BY <1>1, <1>3, <1>4, <1>5, <1>6 DEF Worker, Handler

\* SETUP gives a fresh id to the connection it answers.
Grants(c, s) ==
  /\ \E a \in {"absent", "wrong", "right"} : grant' = [grant EXCEPT ![s] = [conn |-> c, auth |-> a]]
  /\ sessions' \in {sessions, [sessions EXCEPT ![s] = c]}
  /\ \/ reply' = reply
     \/ \E r \in Reply : r.status # 206 /\ reply' = [reply EXCEPT ![c] = r]

\* What SETUP does, in the terms of the registry.
LEMMA SetupSteps ==
  ASSUME PoolInv, NEW t \in Threads, SetupGranted(t)
  PROVE  /\ cur[t] \in Conns /\ cur[t] # NoConn
         /\ \E s \in Fresh : Grants(cur[t], s)
<1>1. Serving(t) /\ sock[t] \in Conns /\ cur[t] \in Conns /\ cur[t] # NoConn
      /\ (sock[t] = cur[t] \/ link[sock[t]] = "closed")
  BY HandlingFacts DEF SetupGranted, Handling
<1>2. PICK s \in Fresh, n \in {200, 404} :
        /\ grant' = [grant EXCEPT ![s] = [conn |-> cur[t], auth |-> req[t].auth]]
        /\ sessions' \in {sessions, [sessions EXCEPT ![s] = cur[t]]}
        /\ Respond(t, sock[t], Answer(n, s), "body")
  BY SetupPick
<1>3. reply' = reply \/ reply' = [reply EXCEPT ![cur[t]] = Answer(n, s)]
  BY <1>1, <1>2, RespondAnswers
<1>4. req[t].auth \in {"absent", "wrong", "right"}
  BY HandlingFacts, ConstantAssumption
  DEF SetupGranted, Handling, ConstantAssumption, RequestType
<1>5. Answer(n, s) \in Reply /\ Answer(n, s).status # 206
  BY DEF Answer, Reply, Fresh
<1>6. reply' = reply \/ \E r \in Reply : r.status # 206 /\ reply' = [reply EXCEPT ![cur[t]] = r]
  BY <1>3, <1>5
<1>7. Grants(cur[t], s)
  BY <1>2, <1>4, <1>6 DEF Grants
<1> QED
  BY <1>1, <1>7

\* Media reaches the connection its session was set up on, with the right key
\* (server.py:56-62, 75-81).
THEOREM PoolMediaOnlyToGrantee == Spec => MediaOnlyToGrantee
<1>1. ASSUME PoolInv, [Next]_vars PROVE MediaToGrantee
  <2>0. reply \in [Conns -> Reply] /\ NoConn \notin Conns
    BY <1>1, ConstantAssumption DEF PoolInv, TypeOK, ConstantAssumption
  <2>1. ASSUME NEW c \in Conns, NEW r \in Reply, Answers(c, r) PROVE MediaToGrantee
    <3>1. r.status = 206 =>
            /\ r.session \in SessionIds /\ sessions[r.session] = c /\ grant[r.session].conn = c
            /\ UseAuth => grant[r.session].auth = "right"
            /\ \E t \in Threads : pc[t] = "owned" /\ cur[t] = c /\ sock[t] = c
                                 /\ req[t].method = "PLAY" /\ req[t].session = r.session
      BY <1>1, <2>0, <2>1 DEF Answers, PoolInv, SessionsGranted
    <3> QED
      BY <2>0, <2>1, <3>1 DEF Answers, MediaToGrantee
  <2>2. ASSUME NEW t \in Threads, SetupGranted(t) PROVE MediaToGrantee
    <3>1. PICK s \in Fresh : Grants(cur[t], s)
      BY <1>1, <2>2, SetupSteps
    <3> QED
      BY <2>0, <3>1 DEF Grants, Answer, MediaToGrantee
  <2>3. ASSUME reply' = reply PROVE MediaToGrantee
    BY <2>3 DEF MediaToGrantee
  <2>4. ASSUME NEW t \in Threads, Worker(t) PROVE MediaToGrantee
    <3>1. TeardownPop(t) => reply' = reply
      BY DEF TeardownPop, Raise, answerVars
    <3> QED
      BY <1>1, <2>1, <2>2, <2>3, <2>4, <3>1, AnswerSteps
  <2>5. ASSUME Stop \/ (\E c \in Conns : Peer(c)) \/ UNCHANGED vars PROVE reply' = reply
    BY <2>5 DEF Stop, Peer, Connect, Send, Disconnect, Abort, vars, netVars, answerVars
  <2> QED
    BY <1>1, <2>3, <2>4, <2>5 DEF Next
<1>2. PoolInv /\ [Next]_vars => [MediaToGrantee]_vars
  BY <1>1
<1> QED
  BY <1>2, PoolInvariant, PTL DEF Spec, MediaOnlyToGrantee

\* The pool starts as the registry does.
LEMMA RegistryInit == Init => Registry!Init
  BY DEF Init, NoGrant, Answer, Registry!Init

\* Every step of the pool is a step of the registry or leaves it alone.
LEMMA RegistryStep ==
  ASSUME PoolInv, [Next]_vars
  PROVE  [Registry!Next]_(Registry!registryVars)
<1> DEFINE issuedIds == {s \in SessionIds : grant[s].conn # NoConn}
           media == [c \in Conns |-> IF reply[c].status = 206 THEN reply[c].session ELSE NoSession]
<1>0. /\ reply \in [Conns -> Reply] /\ NoConn \notin Conns /\ NoSession \notin SessionIds
      /\ grant \in [SessionIds -> [conn: Conns \cup {NoConn}, auth: {"absent", "wrong", "right"}]]
      /\ sessions \in [SessionIds -> Conns \cup {NoConn}]
  BY ConstantAssumption DEF PoolInv, TypeOK, ConstantAssumption
<1>a. ASSUME NEW c \in Conns, NEW r \in Reply, r.status # 206, reply' = [reply EXCEPT ![c] = r]
      PROVE  media' = [media EXCEPT ![c] = NoSession]
  BY <1>0, <1>a
<1>1. ASSUME NEW c \in Conns, NEW r \in Reply, Answers(c, r), UNCHANGED <<sessions, grant>>
      PROVE  Registry!Next
  <2>1. CASE r.status = 206
    <3>1. r.session \in SessionIds /\ sessions[r.session] = c
      BY <1>1, <2>1 DEF Answers
    <3>2. media' = [media EXCEPT ![c] = r.session]
      BY <1>0, <1>1, <2>1 DEF Answers
    <3>3. Registry!Serve(r.session, c)
      BY <1>1, <3>1, <3>2 DEF Registry!Serve
    <3> QED
      BY <3>1, <3>3 DEF Registry!Next
  <2>2. CASE r.status # 206
    <3>1. media' = [media EXCEPT ![c] = NoSession]
      BY <1>a, <1>1, <2>2 DEF Answers
    <3>2. Registry!Tell(c)
      BY <1>1, <3>1 DEF Registry!Tell, Registry!Clear
    <3> QED
      BY <3>2 DEF Registry!Next
  <2> QED
    BY <2>1, <2>2
<1>2. ASSUME NEW t \in Threads, SetupGranted(t) PROVE Registry!Next
  <2>1. PICK c \in Conns : c = cur[t]
    BY <1>2, SetupSteps
  <2>2. PICK s \in Fresh : Grants(c, s)
    BY <1>2, <2>1, SetupSteps
  <2>3. s \in SessionIds /\ s \notin issuedIds
    BY DEF Fresh
  <2>4. \A x \in SessionIds : grant'[x].conn = IF x = s THEN c ELSE grant[x].conn
    BY <1>0, <2>2 DEF Grants
  <2>5. issuedIds' = issuedIds \cup {s}
    BY <1>0, <2>1, <2>3, <2>4
  <2>6. CASE reply' = reply
    BY <2>2, <2>3, <2>5, <2>6 DEF Grants, Registry!Issue, Registry!Next
  <2>7. ASSUME NEW r \in Reply, r.status # 206, reply' = [reply EXCEPT ![c] = r]
        PROVE  Registry!Next
    <3>1. media' = [media EXCEPT ![c] = NoSession]
      BY <1>a, <2>7
    <3>2. Registry!Issue(s, c)
      BY <2>2, <2>3, <2>5, <3>1 DEF Grants, Registry!Issue, Registry!Clear
    <3> QED
      BY <2>3, <3>2 DEF Registry!Next
  <2> QED
    BY <2>2, <2>6, <2>7 DEF Grants
<1>3. ASSUME NEW t \in Threads, TeardownPop(t) PROVE Registry!Next
  <2>1. /\ req[t].session \in SessionIds /\ sessions[req[t].session] # NoConn
        /\ sessions' = [sessions EXCEPT ![req[t].session] = NoConn]
        /\ UNCHANGED <<grant, reply>>
    BY <1>3, OwnedFacts DEF TeardownPop, answerVars, OwnedLabels
  <2>2. Registry!Retire(req[t].session)
    BY <2>1 DEF Registry!Retire
  <2> QED
    BY <2>1, <2>2 DEF Registry!Next
<1>4. ASSUME UNCHANGED <<sessions, grant, reply>> PROVE UNCHANGED Registry!registryVars
  BY <1>4 DEF Registry!registryVars
<1>5. ASSUME NEW t \in Threads, Worker(t) PROVE [Registry!Next]_(Registry!registryVars)
  BY <1>1, <1>2, <1>3, <1>4, <1>5, AnswerSteps
<1>6. ASSUME Stop \/ (\E c \in Conns : Peer(c)) \/ UNCHANGED vars
      PROVE  UNCHANGED <<sessions, grant, reply>>
  BY <1>6 DEF Stop, Peer, Connect, Send, Disconnect, Abort, vars, netVars, answerVars
<1> QED
  BY <1>4, <1>5, <1>6 DEF Next

\* The unlocked dict and its workers implement the registry of sessions
\* (server.py:63-65, 74-81, 91-97).
THEOREM PoolImplementsRegistry == Spec => ImplementsRegistry
<1>1. PoolInv /\ [Next]_vars => [Registry!Next]_(Registry!registryVars)
  BY RegistryStep
<1> QED
  BY <1>1, RegistryInit, PoolInvariant, PTL DEF Spec, ImplementsRegistry, Registry!Spec

===============================================================================
