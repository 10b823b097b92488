-------------------------- MODULE DianSystemProofs --------------------------
(***************************************************************************)
(* Proofs about DianSystem, the worker pool and the clients of testc.py,   *)
(* for any number of workers, testers and lookers: what the server makes   *)
(* of a test program that does everything right.                           *)
(***************************************************************************)
EXTENDS DianSystem, DianServerProofs, FiniteSetTheorems

-----------------------------------------------------------------------------
(* The program of a tester                                                 *)

\* Its four calls.
LEMMA TesterProgram ==
  ASSUME NEW c \in Testers, NEW s
  PROVE  /\ Length(c) = 4
         /\ Program(c, s)[1] = Setup(key)
         /\ Program(c, s)[2] = Call("PLAY", s, "slice")
         /\ Program(c, s)[3] = Call("PLAY", s, "full")
         /\ Program(c, s)[4] = Call("TEARDOWN", s, "full")
<1>1. Program(c, NoSession) = <<Setup(key), Call("PLAY", NoSession, "slice"),
                                Call("PLAY", NoSession, "full"), Call("TEARDOWN", NoSession, "full")>>
  BY DEF Program
<1>2. Program(c, s) = <<Setup(key), Call("PLAY", s, "slice"), Call("PLAY", s, "full"), Call("TEARDOWN", s, "full")>>
  BY DEF Program
<1> QED
  BY <1>1, <1>2 DEF Length

\* The one call of a looker.
LEMMA LookerProgram ==
  ASSUME NEW c \in Lookers, NEW s
  PROVE  Length(c) = 1 /\ Program(c, s)[1] = Call("OPTIONS", NoSession, "full")
<1>1. \A r : Program(c, r) = <<Call("OPTIONS", NoSession, "full")>>
  BY DEF Lookers, Program
<1> QED
  BY <1>1 DEF Length

\* What a client asks is one of the requests.
LEMMA StepRequest ==
  ASSUME ClientTypeOK, NEW c \in Conns, calls[c] < Length(c)
  PROVE  Step(c) \in Requests
<1>1. /\ key \in Keys /\ session[c] \in SessionIds \cup {NoSession}
      /\ calls[c] \in Nat
  BY DEF ClientTypeOK
<1>2. CASE c \in Testers
  <2>1. calls[c] \in 0..3
    BY <1>1, <1>2, TesterProgram
  <2>2. calls[c] + 1 \in {1, 2, 3, 4}
    BY <2>1
  <2>3. Setup(key) \in Requests /\ {Call("PLAY", session[c], "slice"), Call("PLAY", session[c], "full"),
                                    Call("TEARDOWN", session[c], "full")} \subseteq Requests
    BY <1>1, SystemAssumption DEF SystemAssumption
  <2> QED
    BY <1>2, <2>2, <2>3, TesterProgram DEF Step
<1>3. CASE c \in Lookers
  <2>1. calls[c] + 1 = 1
    BY <1>1, <1>3, LookerProgram
  <2> QED
    BY <1>3, <2>1, LookerProgram, SystemAssumption DEF Step, SystemAssumption
<1> QED
  BY <1>2, <1>3 DEF Lookers

\* What a tester asks with the right key.
LEMMA TesterStep ==
  ASSUME NEW c \in Testers, calls[c] \in 0..3, key = "right"
  PROVE  /\ Step(c).method \in {"SETUP", "PLAY", "TEARDOWN"}
         /\ Step(c).method = "SETUP" =>
              calls[c] = 0 /\ Step(c).transport /\ Step(c).auth = "right" /\ Step(c).url = "file"
         /\ Step(c).method = "PLAY" =>
              calls[c] \in {1, 2} /\ Step(c).session = session[c] /\ Step(c).range \in {"slice", "full"}
         /\ Step(c).method = "TEARDOWN" => calls[c] = 3 /\ Step(c).session = session[c]
<1>1. CASE calls[c] = 0
  <2>1. Step(c) = Setup(key)
    BY <1>1, TesterProgram DEF Step
  <2> QED
    BY <1>1, <2>1 DEF Setup, Call
<1>2. CASE calls[c] = 1
  <2>1. Step(c) = Call("PLAY", session[c], "slice")
    BY <1>2, TesterProgram DEF Step
  <2> QED
    BY <1>2, <2>1 DEF Call
<1>3. CASE calls[c] = 2
  <2>1. Step(c) = Call("PLAY", session[c], "full")
    BY <1>3, TesterProgram DEF Step
  <2> QED
    BY <1>3, <2>1 DEF Call
<1>4. CASE calls[c] = 3
  <2>1. Step(c) = Call("TEARDOWN", session[c], "full")
    BY <1>4, TesterProgram DEF Step
  <2> QED
    BY <1>4, <2>1 DEF Call
<1> QED
  BY <1>1, <1>2, <1>3, <1>4

-----------------------------------------------------------------------------
(* What a step of a worker leaves alone                                    *)

\* A response changes nothing of a connection the worker does not serve.
LEMMA RespondTouches ==
  ASSUME PoolInv, NEW t \in Threads, NEW d \in Conns, d = cur[t] \/ link[d] = "closed",
         NEW r, NEW l, Respond(t, d, r, l), NEW c \in Conns, c # cur[t]
  PROVE  link'[c] = link[c] /\ reply'[c] = reply[c] /\ waiting'[c] = waiting[c]
<1>1. /\ link \in [Conns -> ConnStates] /\ reply \in [Conns -> Reply] /\ waiting \in [Conns -> BOOLEAN]
  BY DEF PoolInv, TypeOK, ConnStates
<1>2. ASSUME NEW why, Die(t, why) PROVE link'[c] = link[c]
  BY <1>1, <1>2 DEF Die
<1>3. ASSUME ResetCaught(t, "read") PROVE link'[c] = link[c]
  BY <1>1, <1>3 DEF ResetCaught
<1> QED
  BY <1>1, <1>2, <1>3 DEF Respond, SendOn, Sendable, answerVars

\* Nor does any other step of a worker.
LEMMA WorkerTouches ==
  ASSUME PoolInv, NEW t \in Threads, Worker(t), NEW c \in Conns, cur'[t] # c
  PROVE  /\ link'[c] = link[c] /\ reply'[c] = reply[c] /\ waiting'[c] = waiting[c]
         /\ inbox'[c] = inbox[c] /\ peer' = peer
<1>1. /\ link \in [Conns -> ConnStates] /\ inbox \in [Conns -> Requests \cup {NoRequest}]
  BY DEF PoolInv, TypeOK, ConnStates
<1>2. CASE \E d \in Conns : Accept(t, d)
  <2>1. PICK d \in Conns : Accept(t, d)
    BY <1>2
  <2>2. d # c
    BY <2>1 DEF Accept, PoolInv, TypeOK
  <2> QED
    BY <1>1, <2>1, <2>2 DEF Accept, answerVars
<1>3. CASE Read(t)
  BY <1>1, <1>3 DEF Read, answerVars
<1>4. ASSUME NEW why, Raise(t, why), cur[t] # c
      PROVE  /\ link'[c] = link[c] /\ reply'[c] = reply[c] /\ waiting'[c] = waiting[c]
             /\ inbox'[c] = inbox[c] /\ peer' = peer
  BY <1>1, <1>4 DEF Raise, Die, answerVars, HandlerFrame, Frame
<1>5. CASE ReadReset(t)
  <2>1. cur[t] # c
    BY <1>5 DEF ReadReset, Frame
  <2>2. link'[c] = link[c]
    BY <1>1, <1>5, <2>1 DEF ReadReset, Die, ResetCaught
  <2> QED
    BY <1>1, <1>5, <2>1, <2>2 DEF ReadReset, answerVars, Frame
<1>6. CASE ReadGarbled(t) \/ ReadEof(t) \/ ReadFails(t)
  BY <1>4, <1>6 DEF ReadGarbled, ReadEof, ReadFails, Raise, HandlerFrame, Frame
<1>7. CASE Handler(t)
  <2>1. cur[t] # c /\ inbox' = inbox /\ peer' = peer
    BY <1>7 DEF Handler, Options, SetupRefused, SetupGranted, Lookup, CheckOwner, Play,
       TeardownAnswer, TeardownClose, TeardownPop, SendBody, Refuse, Raise, HandlerFrame, Frame
  <2>2. sock[t] \in Conns /\ (sock[t] = cur[t] \/ link[sock[t]] = "closed")
    BY <1>7, HandlingFacts DEF Handler, Options, SetupRefused, SetupGranted, Lookup, CheckOwner, Play,
       TeardownAnswer, TeardownClose, TeardownPop, SendBody, Handling, OwnedLabels
  <2>3. ASSUME NEW r, NEW l, Respond(t, sock[t], r, l)
        PROVE  link'[c] = link[c] /\ reply'[c] = reply[c] /\ waiting'[c] = waiting[c]
    BY <2>1, <2>2, <2>3, RespondTouches
  <2>4. ASSUME UNCHANGED <<link, answerVars>>
        PROVE  link'[c] = link[c] /\ reply'[c] = reply[c] /\ waiting'[c] = waiting[c]
    BY <2>4 DEF answerVars
  <2>5. CASE Options(t) \/ SetupRefused(t) \/ Lookup(t) \/ CheckOwner(t) \/ TeardownAnswer(t)
    BY <1>4, <2>1, <2>3, <2>4, <2>5
    DEF Options, SetupRefused, Lookup, CheckOwner, TeardownAnswer, Refuse
  <2>6. CASE SetupGranted(t)
    BY <2>1, <2>3, <2>6 DEF SetupGranted
  <2>7. CASE TeardownClose(t) \/ TeardownPop(t)
    <3>1. sessions[req[t].session] = cur[t]
      BY <2>7, OwnedFacts DEF TeardownClose, TeardownPop, OwnedLabels
    <3> QED
      BY <1>1, <1>4, <2>1, <2>4, <2>7, <3>1 DEF TeardownClose, TeardownPop, answerVars
  <2>8. CASE Play(t)
    <3>1. sessions[req[t].session] = cur[t] /\ cur[t] \in Conns
      BY <2>8, OwnedFacts, HandlingFacts DEF Play, OwnedLabels
    <3>2. CASE Respond(t, sessions[req[t].session], Answer(206, req[t].session), "media")
      BY <2>1, <3>1, <3>2, RespondTouches
    <3> QED
      BY <1>4, <2>1, <2>8, <3>2 DEF Play
  <2>9. CASE SendBody(t)
    <3>1. out[t] = cur[t]
      BY <2>9, BodyFacts DEF SendBody
    <3>2. ASSUME NEW l, SendOn(t, out[t], l) PROVE link'[c] = link[c]
      BY <1>1, <2>1, <3>1, <3>2 DEF SendOn, ResetCaught, Die
    <3> QED
      BY <1>4, <2>1, <2>9, <3>2 DEF SendBody, answerVars
  <2> QED
    BY <1>7, <2>1, <2>5, <2>6, <2>7, <2>8, <2>9 DEF Handler
<1> QED
  BY <1>2, <1>3, <1>5, <1>6, <1>7 DEF Worker

\* A worker serves the connection it has accepted, or accepts one from the queue.
LEMMA WorkerServes ==
  ASSUME PoolInv, NEW t \in Threads, Worker(t)
  PROVE  \/ Serving(t) /\ cur'[t] = cur[t] /\ cur[t] \in Conns /\ link[cur[t]] \in Accepted
         \/ /\ cur'[t] \in Conns /\ link[cur'[t]] = "queued" /\ link'[cur'[t]] = "open"
            /\ pc[t] = "accept" /\ pc'[t] = "read" /\ Accept(t, cur'[t])
<1>1. /\ pc \in [Threads -> Labels] /\ cur \in [Threads -> Conns \cup {NoConn}]
      /\ link \in [Conns -> ConnStates]
  BY DEF PoolInv, TypeOK, ConnStates
<1>2. CASE \E c \in Conns : Accept(t, c)
  <2>1. PICK c \in Conns : Accept(t, c)
    BY <1>2
  <2>2. cur'[t] = c
    BY <1>1, <2>1 DEF Accept
  <2> QED
    BY <1>1, <2>1, <2>2 DEF Accept, Goto
<1>3. CASE ~(\E c \in Conns : Accept(t, c))
  <2>1. Serving(t) /\ cur' = cur
    BY <1>3 DEF Worker, Handler, Read, ReadGarbled, ReadEof, ReadReset, ReadFails, Options,
       SetupRefused, SetupGranted, Lookup, CheckOwner, Play, TeardownAnswer, TeardownClose,
       TeardownPop, SendBody, Refuse, Raise, Handling, HandlerFrame, Frame, Serving, BodyLabels
  <2> QED
    BY <2>1 DEF PoolInv, LinksAccepted
<1> QED
  BY <1>2, <1>3

\* Workers open, break and close connections, and do nothing else to them.
LEMMA WorkerLinks ==
  ASSUME PoolInv, NEW t \in Threads, Worker(t), NEW c \in Conns
  PROVE  link'[c] = link[c] \/ link'[c] \in Accepted
<1>0. link \in [Conns -> ConnStates]
  BY DEF PoolInv, TypeOK, ConnStates
<1>1. ASSUME NEW why, Die(t, why) PROVE link'[c] = link[c] \/ link'[c] \in Accepted
  BY <1>0, <1>1 DEF Die, Accepted
<1>2. ASSUME NEW l, ResetCaught(t, l) PROVE link'[c] = link[c] \/ link'[c] \in Accepted
  BY <1>0, <1>2 DEF ResetCaught, Accepted
<1>3. ASSUME NEW d, NEW l, SendOn(t, d, l)
      PROVE  link'[c] = link[c] \/ link'[c] \in Accepted
  BY <1>1, <1>2, <1>3 DEF SendOn
<1>4. ASSUME NEW why, Raise(t, why) PROVE link'[c] = link[c] \/ link'[c] \in Accepted
  BY <1>1, <1>4 DEF Raise
<1>5. CASE \E d \in Conns : Accept(t, d)
  BY <1>0, <1>5 DEF Accept, Accepted
<1>6. CASE Read(t) \/ ReadGarbled(t) \/ ReadEof(t) \/ ReadReset(t) \/ ReadFails(t)
  BY <1>1, <1>2, <1>4, <1>6 DEF Read, ReadGarbled, ReadEof, ReadReset, ReadFails
<1>7. CASE Options(t) \/ SetupRefused(t) \/ SetupGranted(t) \/ Lookup(t) \/ CheckOwner(t)
           \/ TeardownAnswer(t) \/ TeardownPop(t)
  BY <1>3, <1>4, <1>7
  DEF Options, SetupRefused, SetupGranted, Lookup, CheckOwner, TeardownAnswer, TeardownPop, Refuse, Respond
<1>8. CASE Play(t) \/ SendBody(t)
  BY <1>3, <1>4, <1>8 DEF Play, Respond, SendBody
<1>9. CASE TeardownClose(t)
  BY <1>0, <1>4, <1>9 DEF TeardownClose, Accepted
<1> QED
  BY <1>5, <1>6, <1>7, <1>8, <1>9 DEF Worker, Handler

\* A worker removes a session only at the end of a TEARDOWN of its own connection.
LEMMA SessionKept ==
  ASSUME PoolInv, NEW t \in Threads, Worker(t), NEW s \in SessionIds, sessions[s] # NoConn
  PROVE  sessions'[s] = sessions[s] \/ (pc[t] = "popping" /\ cur[t] = sessions[s])
<1>0. sessions \in [SessionIds -> Conns \cup {NoConn}]
  BY DEF PoolInv, TypeOK
<1>1. CASE TeardownPop(t)
  <2>1. pc[t] = "popping" /\ sessions[req[t].session] = cur[t]
    BY <1>1, OwnedFacts DEF TeardownPop, OwnedLabels
  <2> QED
    BY <1>0, <1>1, <2>1 DEF TeardownPop, Raise
<1>2. CASE SetupGranted(t)
  <2>1. PICK x \in Fresh : sessions' \in {sessions, [sessions EXCEPT ![x] = cur[t]]}
    BY <1>2 DEF SetupGranted
  <2> QED
    BY <1>0, <2>1 DEF Fresh, PoolInv, SessionsGranted
<1>3. CASE ~TeardownPop(t) /\ ~SetupGranted(t)
  BY <1>3, AnswerSteps
<1> QED
  BY <1>1, <1>2, <1>3

\* A step of one worker moves no other.
LEMMA OthersStand ==
  ASSUME PoolInv, NEW t \in Threads, Worker(t), NEW u \in Threads, u # t
  PROVE  pc'[u] = pc[u] /\ cur'[u] = cur[u] /\ req'[u] = req[u] /\ sock'[u] = sock[u]
<1>0. /\ pc \in [Threads -> Labels] /\ cur \in [Threads -> Conns \cup {NoConn}]
      /\ req \in [Threads -> Requests \cup {NoRequest}] /\ sock \in [Threads -> Conns \cup {NoConn}]
  BY DEF PoolInv, TypeOK
<1>1. CASE \E c \in Conns : Accept(t, c)
  BY <1>0, <1>1 DEF Accept, Goto
<1>2. CASE ~(\E c \in Conns : Accept(t, c))
  <2>1. pc'[u] = pc[u]
    BY <1>2, OthersStay
  <2>2. CASE Read(t)
    BY <1>0, <2>1, <2>2 DEF Read
  <2>3. CASE ~Read(t)
    BY <1>2, <2>1, <2>3 DEF Worker, Handler, ReadGarbled, ReadEof, ReadReset, ReadFails, Options,
       SetupRefused, SetupGranted, Lookup, CheckOwner, Play, TeardownAnswer, TeardownClose,
       TeardownPop, SendBody, Refuse, Raise, HandlerFrame, Frame
  <2> QED
    BY <2>2, <2>3
<1> QED
  BY <1>1, <1>2

\* An answer to a peer that is there arrives.
LEMMA RespondArrives ==
  ASSUME NEW t \in Threads, NEW c \in Conns, link[c] = "open", peer[c] = "up",
         NEW r, NEW l, Respond(t, c, r, l)
  PROVE  /\ reply' = [reply EXCEPT ![c] = r] /\ waiting' = [waiting EXCEPT ![c] = FALSE]
         /\ Goto(t, l) /\ UNCHANGED <<link, cause>>
  BY DEF Respond, SendOn, Sendable

-----------------------------------------------------------------------------
(* A tester and its worker                                                 *)

\* The worker's steps up to the answer to TEARDOWN keep to the tester's request,
\* and none of them ends the worker.
LEMMA OwnTester ==
  ASSUME SystemInv, key = "right", NEW t \in Threads, Serve(t),
         NEW c \in Testers, Attends(t, c), pc[t] # "lastbody", link[c] # "broken"
  PROVE  /\ pc'[t] # "dead"
         /\ Attends(t, c)' => ServedTester(c, t)'
<1> USE DEF SystemInv
<1>0. /\ pc \in [Threads -> Labels] /\ cur \in [Threads -> Conns \cup {NoConn}]
      /\ link \in [Conns -> ConnStates] /\ reply \in [Conns -> Reply] /\ waiting \in [Conns -> BOOLEAN]
      /\ inbox \in [Conns -> Requests \cup {NoRequest}] /\ sessions \in [SessionIds -> Conns \cup {NoConn}]
      /\ req \in [Threads -> Requests \cup {NoRequest}] /\ sock \in [Threads -> Conns \cup {NoConn}]
      /\ c \in Conns /\ NoRequest \notin Requests /\ NoConn \notin Conns
  BY SystemAssumption, ConstantAssumption
  DEF PoolInv, TypeOK, ConnStates, SystemAssumption, ConstantAssumption
<1>1. /\ Worker(t) /\ UNCHANGED clientVars /\ cur[t] = c
      /\ pc[t] \in {"read", "handle", "found", "owned", "body", "media"}
      /\ peer[c] = "up" /\ link[c] = "open" /\ calls[c] \in 0..3
      /\ calls[c] > 0 => Holds(c, session[c])
      /\ pc[t] \in {"read", "body", "media"} => Asks(c)
      /\ pc[t] = "media" => req[t].range # "backward"
      /\ pc[t] \in {"handle", "found", "owned"} =>
           /\ at[c] = "calling" /\ waiting[c] /\ inbox[c] = NoRequest
           /\ req[t] = Step(c) /\ sock[t] = c
  BY DEF Serve, TestersServed, Attends, ServedTester, BodyLabels
<1>2. /\ at' = at /\ calls' = calls /\ session' = session /\ key' = key
      /\ Step(c)' = Step(c)
  BY <1>1 DEF clientVars, Step, Program
<1>3. /\ Step(c).method \in {"SETUP", "PLAY", "TEARDOWN"}
      /\ Step(c).method = "SETUP" =>
           calls[c] = 0 /\ Step(c).transport /\ Step(c).auth = "right" /\ Step(c).url = "file"
      /\ Step(c).method = "PLAY" =>
           calls[c] \in {1, 2} /\ Step(c).session = session[c] /\ Step(c).range \in {"slice", "full"}
      /\ Step(c).method = "TEARDOWN" => calls[c] = 3 /\ Step(c).session = session[c]
  BY <1>1, TesterStep
<1>4. ASSUME calls[c] > 0 PROVE Holds(c, session[c])'
  <2>1. session[c] \in SessionIds /\ sessions[session[c]] = c
    BY <1>1, <1>4 DEF Holds
  <2>2. sessions'[session[c]] = c
    BY <1>0, <1>1, <2>1, SessionKept
  <2> QED
    BY <1>2, <2>1, <2>2 DEF Holds
<1>5. CASE pc[t] = "read"
  <2>1. Read(t)
    <3>1. ~ReadGarbled(t)
      BY <1>0, <1>1, <1>3, <1>5 DEF ReadGarbled, Asks, Between, Requested, Replied
    <3>2. ~ReadEof(t) /\ ~ReadReset(t) /\ ~ReadFails(t)
      BY <1>1 DEF ReadEof, ReadReset, ReadFails
    <3>3. ~Handler(t) /\ ~(\E d \in Conns : Accept(t, d))
      BY <1>5 DEF Handler, Options, SetupRefused, SetupGranted, Lookup, CheckOwner, Play, TeardownAnswer,
         TeardownClose, TeardownPop, SendBody, BodyLabels, Handling, Accept
    <3> QED
      BY <1>1, <3>1, <3>2, <3>3 DEF Worker
  <2>2. Requested(c)
    BY <1>1, <1>5, <2>1 DEF Read, Asks, Between, Replied
  <2>3. /\ pc'[t] = "handle" /\ req'[t] = Step(c) /\ sock'[t] = c /\ inbox'[c] = NoRequest
        /\ link' = link /\ peer' = peer /\ waiting' = waiting /\ cur' = cur
    BY <1>0, <1>1, <2>1, <2>2 DEF Read, Goto, answerVars, Requested
  <2>4. ServedTester(c, t)'
    BY <1>1, <1>2, <1>4, <2>2, <2>3 DEF ServedTester, Requested
  <2> QED
    BY <2>3, <2>4
<1>6. ASSUME pc[t] # "read"
      PROVE  inbox' = inbox /\ peer' = peer /\ cur' = cur
  BY <1>1, <1>6 DEF Worker, Handler, Accept, Read, ReadGarbled, ReadEof, ReadReset, ReadFails, Options,
     SetupRefused, SetupGranted, Lookup, CheckOwner, Play, TeardownAnswer, TeardownClose,
     TeardownPop, SendBody, Refuse, Raise, Handling, HandlerFrame, Frame
\* The worker answers with the head, and goes on to the body.
<1>7. ASSUME pc[t] \in {"handle", "owned"}, NEW r, NEW l \in {"body", "media"}, Respond(t, c, r, l),
             r.status \in {200, 206}, calls[c] = 0 => Holds(c, r.session)', calls[c] < 3,
             l = "media" => req[t].range # "backward", req' = req
      PROVE  pc'[t] # "dead" /\ ServedTester(c, t)'
  <2>1. pc'[t] = l /\ reply'[c] = r /\ ~waiting'[c] /\ link' = link
    BY <1>0, <1>1, <1>7, RespondArrives DEF Goto
  <2>2. Replied(c)'
    BY <1>1, <1>2, <1>6, <1>7, <2>1 DEF Replied
  <2>3. ServedTester(c, t)'
    BY <1>1, <1>2, <1>4, <1>6, <1>7, <2>1, <2>2 DEF ServedTester, Asks
  <2> QED
    BY <2>1, <2>3
\* The worker goes on with the request.
<1>8. ASSUME pc[t] \in {"handle", "found"}, NEW l \in {"found", "owned"}, Goto(t, l), UNCHANGED <<link, answerVars>>, HandlerFrame
      PROVE  pc'[t] # "dead" /\ ServedTester(c, t)'
  <2>1. pc'[t] = l /\ link' = link /\ waiting' = waiting /\ req' = req /\ sock' = sock
    BY <1>0, <1>8 DEF Goto, answerVars, HandlerFrame, Frame
  <2>2. ServedTester(c, t)'
    BY <1>1, <1>2, <1>4, <1>6, <1>8, <2>1 DEF ServedTester
  <2> QED
    BY <2>1, <2>2
<1>9. CASE pc[t] = "handle"
  <2>1. Options(t) \/ SetupRefused(t) \/ SetupGranted(t) \/ Lookup(t)
    BY <1>1, <1>9 DEF Worker, Handler, Accept, Read, ReadGarbled, ReadEof, ReadReset, ReadFails,
       CheckOwner, Play, TeardownAnswer, TeardownClose, TeardownPop, SendBody, BodyLabels
  <2>2. ~Options(t)
    BY <1>1, <1>3, <1>9 DEF Options, Handling
  <2>3. ~SetupRefused(t)
    BY <1>1, <1>3, <1>9 DEF SetupRefused, Handling, Unauthorized
  <2>4. CASE SetupGranted(t)
    <3>1. calls[c] = 0 /\ req[t].url = "file"
      BY <1>1, <1>3, <1>9, <2>4 DEF SetupGranted, Handling
    <3>2. PICK s \in Fresh : sessions' = [sessions EXCEPT ![s] = cur[t]] /\ Respond(t, sock[t], Answer(200, s), "body")
                         /\ req' = req
      BY <2>4, <3>1 DEF SetupGranted, HandlerFrame, Frame
    <3>3. Holds(c, s)'
      BY <1>0, <1>1, <3>2 DEF Holds, Fresh
    <3>4. Answer(200, s).status = 200 /\ Answer(200, s).session = s
      BY DEF Answer
    <3> QED
      BY <1>1, <1>7, <1>9, <3>1, <3>2, <3>3, <3>4
  <2>5. CASE Lookup(t)
    <3>1. req[t].session = session[c] /\ session[c] \in SessionIds /\ sessions[session[c]] = c
      BY <1>1, <1>3, <1>9, <2>5 DEF Lookup, Handling, Holds
    <3>2. Goto(t, "found") /\ UNCHANGED <<link, answerVars>> /\ HandlerFrame
      BY <1>0, <2>5, <3>1, ConstantAssumption DEF Lookup, ConstantAssumption
    <3> QED
      BY <1>8, <1>9, <3>2
  <2> QED
    BY <2>1, <2>2, <2>3, <2>4, <2>5
<1>10. CASE pc[t] = "found"
  <2>1. CheckOwner(t)
    BY <1>1, <1>10 DEF Worker, Handler, Accept, Read, ReadGarbled, ReadEof, ReadReset, ReadFails, Options,
       SetupRefused, SetupGranted, Lookup, Play, TeardownAnswer, TeardownClose, TeardownPop, SendBody, BodyLabels, Handling
  <2>2. req[t].session \in SessionIds
    BY <1>10 DEF PoolInv, FoundSession
  <2>3. Step(c).method # "SETUP"
    <3>1. ASSUME Step(c).method = "SETUP" PROVE req[t].session = NoSession
      <4>1. calls[c] = 0 /\ Step(c) = Setup(key)
        BY <1>3, <3>1, TesterProgram DEF Step
      <4>2. Setup(key).session = NoSession
        BY DEF Setup, Call
      <4>3. req[t] = Setup(key)
        BY <1>1, <1>10, <4>1
      <4> QED
        BY <4>2, <4>3
    <3> QED
      BY <2>2, <3>1, ConstantAssumption DEF ConstantAssumption
  <2>4. sessions[req[t].session] = c
    BY <1>1, <1>3, <1>10, <2>3 DEF Holds
  <2>5. Goto(t, "owned") /\ UNCHANGED <<link, answerVars>> /\ HandlerFrame
    BY <1>0, <1>1, <2>1, <2>4 DEF CheckOwner
  <2> QED
    BY <1>8, <1>10, <2>5
<1>11. CASE pc[t] = "owned"
  <2>1. Play(t) \/ TeardownAnswer(t)
    BY <1>1, <1>11 DEF Worker, Handler, Accept, Read, ReadGarbled, ReadEof, ReadReset, ReadFails, Options,
       SetupRefused, SetupGranted, Lookup, CheckOwner, TeardownClose, TeardownPop, SendBody, BodyLabels, Handling
  <2>2. CASE Play(t)
    <3>1. /\ calls[c] \in {1, 2} /\ req[t].range \in {"slice", "full"}
          /\ sessions[req[t].session] = c
      BY <1>1, <1>3, <1>11, <2>2, OwnedFacts DEF Play, OwnedLabels
    <3>2. Respond(t, c, Answer(206, req[t].session), "media") /\ req' = req
      BY <1>0, <2>2, <3>1 DEF Play, HandlerFrame, Frame
    <3>3. Answer(206, req[t].session).status = 206
      BY DEF Answer
    <3> QED
      BY <1>7, <1>11, <3>1, <3>2, <3>3
  <2>3. CASE TeardownAnswer(t)
    <3>1. Respond(t, c, Answer(200, NoSession), "lastbody") /\ calls[c] = 3
      BY <1>1, <1>3, <1>11, <2>3 DEF TeardownAnswer
    <3>2. Answer(200, NoSession).status = 200
      BY DEF Answer
    <3>3. pc'[t] = "lastbody" /\ reply'[c] = Answer(200, NoSession) /\ ~waiting'[c] /\ link' = link
      BY <1>0, <1>1, <3>1, RespondArrives DEF Goto
    <3>4. Parting(c)'
      BY <1>1, <1>2, <1>6, <1>11, <3>1, <3>2, <3>3 DEF Parting, Replied
    <3>5. ServedTester(c, t)'
      BY <1>1, <1>2, <1>4, <1>6, <1>11, <3>1, <3>3, <3>4 DEF ServedTester
    <3> QED
      BY <3>3, <3>5
  <2> QED
    BY <2>1, <2>2, <2>3
\* The body follows, and the worker reads again.
<1>12. CASE pc[t] \in {"body", "media"}
  <2>1. SendBody(t) /\ out[t] = c
    <3>1. SendBody(t)
      BY <1>1, <1>12 DEF Worker, Handler, Accept, Read, ReadGarbled, ReadEof, ReadReset, ReadFails, Options,
         SetupRefused, SetupGranted, Lookup, CheckOwner, Play, TeardownAnswer, TeardownClose,
         TeardownPop, Handling
    <3> QED
      BY <1>1, <3>1, BodyFacts DEF SendBody
  <2>2. /\ SendOn(t, c, "read") /\ UNCHANGED <<answerVars, sessions, grant>>
    BY <1>1, <1>12, <2>1 DEF SendBody
  <2>3. pc'[t] = "read" /\ link' = link /\ reply' = reply /\ waiting' = waiting /\ sessions' = sessions
    BY <1>0, <1>1, <2>2 DEF SendOn, Sendable, Goto, answerVars
  <2>4. /\ Between(c)' = Between(c) /\ Requested(c)' = Requested(c)
        /\ Replied(c)' = Replied(c)
    BY <1>1, <1>2, <1>6, <1>12, <2>3 DEF Between, Requested, Replied, Holds
  <2>5. ServedTester(c, t)'
    BY <1>1, <1>2, <1>4, <1>6, <1>12, <2>3, <2>4 DEF ServedTester, Asks
  <2> QED
    BY <2>3, <2>5
<1> QED
  BY <1>1, <1>5, <1>9, <1>10, <1>11, <1>12

\* A tester that has its last answer may go before the body of it is sent: then a
\* reset costs it the rest of its TEARDOWN, and perhaps its worker.
LEMMA PartingTester ==
  ASSUME SystemInv, key = "right", NEW t \in Threads, Serve(t),
         NEW c \in Testers, Attends(t, c), pc[t] = "lastbody" \/ link[c] = "broken"
  PROVE  /\ pc'[t] = "dead" => Abandoned(c)'
         /\ Attends(t, c)' => ServedTester(c, t)'
<1> USE DEF SystemInv
<1>0. /\ pc \in [Threads -> Labels] /\ link \in [Conns -> ConnStates] /\ peer \in [Conns -> {"up", "fin", "rst"}]
      /\ sessions \in [SessionIds -> Conns \cup {NoConn}] /\ calls \in [Conns -> Nat]
      /\ c \in Conns /\ NoConn \notin Conns
  BY SystemAssumption, ConstantAssumption
  DEF PoolInv, TypeOK, ConnStates, ClientTypeOK, SystemAssumption, ConstantAssumption
<1>1. /\ Worker(t) /\ UNCHANGED clientVars /\ cur[t] = c
      /\ Holds(c, session[c]) /\ Parting(c)
      /\ peer[c] = "up" \/ at[c] = "finished"
      /\ \/ pc[t] = "lastbody" /\ link[c] = "open"
         \/ pc[t] = "read" /\ link[c] = "broken" /\ peer[c] = "rst" /\ at[c] = "finished"
  BY <1>0 DEF Serve, TestersServed, Attends, ServedTester, Parting
<1>2. /\ at' = at /\ calls' = calls /\ session' = session /\ key' = key
      /\ Step(c)' = Step(c)
  BY <1>1 DEF clientVars, Step, Program
<1>3. Holds(c, session[c])'
  <2>1. session[c] \in SessionIds /\ sessions[session[c]] = c
    BY <1>1 DEF Holds
  <2>2. sessions'[session[c]] = c
    BY <1>0, <1>1, <2>1, SessionKept
  <2> QED
    BY <1>2, <2>1, <2>2 DEF Holds
<1>4. ASSUME peer[c] = "rst", at[c] = "finished", peer' = peer
      PROVE  Abandoned(c)'
  BY <1>2, <1>3, <1>4 DEF Abandoned
<1>5. CASE pc[t] = "lastbody"
  <2>1. SendBody(t) /\ out[t] = c
    <3>1. SendBody(t)
      BY <1>1, <1>5 DEF Worker, Handler, Accept, Read, ReadGarbled, ReadEof, ReadReset, ReadFails, Options,
         SetupRefused, SetupGranted, Lookup, CheckOwner, Play, TeardownAnswer, TeardownClose,
         TeardownPop, Handling
    <3> QED
      BY <1>1, <3>1, BodyFacts DEF SendBody
  <2>2. /\ SendOn(t, c, "closing") /\ cur' = cur
        /\ peer' = peer /\ inbox' = inbox /\ reply' = reply /\ waiting' = waiting
    BY <1>5, <2>1 DEF SendBody, HandlerFrame, Frame, answerVars
  <2>3. CASE Sendable(c)
    BY <1>0, <2>2, <2>3 DEF SendOn, Goto, Attends, BodyLabels, Sendable
  <2>4. CASE ~Sendable(c)
    <3>1. peer[c] = "rst" /\ at[c] = "finished"
      BY <1>1, <1>5, <2>4 DEF Sendable
    <3>2. Abandoned(c)'
      BY <1>4, <2>2, <3>1
    <3>3. ASSUME Attends(t, c)'
          PROVE  pc'[t] = "read" /\ link'[c] = "broken"
      BY <1>0, <1>1, <2>2, <2>4, <3>3 DEF SendOn, ResetCaught, Die, Goto, Attends, BodyLabels
    <3>4. Parting(c)'
      BY <1>1, <1>2, <2>2, <3>1 DEF Parting, Replied
    <3> QED
      BY <1>2, <1>3, <2>2, <3>1, <3>2, <3>3, <3>4 DEF ServedTester
  <2> QED
    BY <2>3, <2>4
<1>6. CASE pc[t] = "read" /\ link[c] = "broken"
  <2>1. inbox[c] = NoRequest /\ peer[c] = "rst" /\ at[c] = "finished"
    BY <1>1, <1>6 DEF Parting
  <2>2. ReadEof(t)
    BY <1>1, <1>6, <2>1 DEF Worker, Handler, Accept, Read, ReadGarbled, ReadReset, ReadFails, Options,
       SetupRefused, SetupGranted, Lookup, CheckOwner, Play, TeardownAnswer, TeardownClose,
       TeardownPop, SendBody, BodyLabels, Handling
  <2>3. pc'[t] = "dead" /\ peer' = peer
    BY <1>0, <2>2 DEF ReadEof, Raise, Die, Goto, HandlerFrame, Frame
  <2> QED
    BY <1>4, <2>1, <2>3 DEF Attends, BodyLabels
<1> QED
  BY <1>1, <1>5, <1>6

-----------------------------------------------------------------------------
(* The invariant                                                           *)

LEMMA SystemInitInv == SystemInit => SystemInv
<1> SUFFICES ASSUME SystemInit PROVE SystemInv
  OBVIOUS
<1>1. PoolInv
  BY InitInv DEF SystemInit
<1>2. \A c \in Conns : Length(c) \in {1, 4}
  BY TesterProgram, LookerProgram DEF Lookers
<1>3. ClientTypeOK
  <2>1. calls \in [Conns -> Nat] /\ \A c \in Conns : calls[c] <= Length(c)
    BY <1>2 DEF SystemInit
  <2> QED
    BY <2>1 DEF SystemInit, ClientTypeOK
<1>4. ClientsBegin
  BY DEF SystemInit, Init, ClientsBegin
<1>5. TestersServed
  BY SystemAssumption DEF SystemInit, Init, TestersServed, Attends, BodyLabels, SystemAssumption
<1>6. DeadWorkers
  BY DEF SystemInit, Init, DeadWorkers
<1> QED
  BY <1>1, <1>3, <1>4, <1>5, <1>6 DEF SystemInv

\* Every step of the system is a step of the pool or leaves it alone.
LEMMA SystemSteps ==
  ASSUME SystemInv, [SystemNext]_systemVars
  PROVE  [Next]_vars
<1>1. ASSUME NEW c \in Conns, Client(c)
      PROVE  Peer(c) \/ UNCHANGED vars
  <2>1. CASE Ask(c)
    <3>1. Step(c) \in Requests
      BY <2>1, StepRequest DEF Ask, SystemInv
    <3> QED
      BY <2>1, <3>1 DEF Ask, Step, Peer
  <2> QED
    BY <1>1, <2>1 DEF Client, Open, Refused, Return, Lose, Close, Peer
<1> QED
  BY <1>1 DEF SystemNext, systemVars, Serve, StopServing, Next

\* The workers' steps preserve it.
LEMMA ServeInv ==
  ASSUME SystemInv, PoolInv', NEW t \in Threads, Serve(t)
  PROVE  SystemInv'
<1> USE DEF SystemInv
<1>0. /\ Worker(t) /\ at' = at /\ calls' = calls /\ session' = session /\ key' = key
      /\ \A c \in Conns : Step(c)' = Step(c) /\ Length(c)' = Length(c)
      /\ Testers \subseteq Conns
  BY SystemAssumption DEF Serve, clientVars, Step, Length, Program, SystemAssumption
<1>1. /\ pc \in [Threads -> Labels] /\ cur \in [Threads -> Conns \cup {NoConn}]
      /\ link \in [Conns -> ConnStates] /\ NoConn \notin Conns
  BY ConstantAssumption DEF PoolInv, TypeOK, ConnStates, ConstantAssumption
<1>2. ClientTypeOK'
  BY <1>0 DEF ClientTypeOK
<1>3. \/ Serving(t) /\ cur'[t] = cur[t] /\ cur[t] \in Conns /\ link[cur[t]] \in Accepted
      \/ /\ cur'[t] \in Conns /\ link[cur'[t]] = "queued" /\ link'[cur'[t]] = "open"
         /\ pc[t] = "accept" /\ pc'[t] = "read" /\ Accept(t, cur'[t])
  BY <1>0, WorkerServes
<1>4. ClientsBegin'
  <2> SUFFICES ASSUME NEW c \in Conns, at[c] = "start"
               PROVE  /\ link'[c] = "new" /\ peer'[c] = "up" /\ calls[c] = 0
                      /\ ~waiting'[c] /\ inbox'[c] = NoRequest
    BY <1>0 DEF ClientsBegin
  <2>1. link[c] = "new" /\ peer[c] = "up" /\ calls[c] = 0 /\ ~waiting[c] /\ inbox[c] = NoRequest
    BY DEF ClientsBegin
  <2>2. cur'[t] # c
    BY <1>3, <2>1 DEF Accepted
  <2> QED
    BY <1>0, <2>1, <2>2, WorkerTouches
<1>5. ASSUME NEW u \in Threads, u # t, NEW c \in Conns, cur[u] = c, pc[u] # "accept", link[c] \in Accepted
      PROVE  cur'[t] # c
  <2>1. CASE pc[u] = "dead"
    <3>1. pc[t] # "accept" => cur[t] # c
      BY <1>5, <2>1 DEF DeadWorkers
    <3> QED
      BY <1>3, <1>5, <3>1 DEF Serving, Accepted
  <2>2. CASE pc[u] # "dead"
    BY <1>3, <1>5, <2>2 DEF PoolInv, OneWorkerPerConn, Serving, Accepted
  <2> QED
    BY <2>1, <2>2
<1>6. TestersServed'
  <2> SUFFICES ASSUME key = "right", NEW c \in Testers
               PROVE  /\ link'[c] = "queued" => QueuedTester(c)'
                      /\ \A u \in Threads : Attends(u, c)' => ServedTester(c, u)'
    BY <1>0 DEF TestersServed
  <2>0. c \in Conns
    BY <1>0
  <2>1. ASSUME link'[c] = "queued"
        PROVE  QueuedTester(c)'
    <3>1. link[c] = "queued" /\ cur'[t] # c
      <4>1. link[c] = "queued"
        BY <1>0, <2>0, <2>1, WorkerLinks DEF Accepted
      <4> QED
        BY <1>3, <2>1, <4>1 DEF Accepted
    <3>2. QueuedTester(c)
      BY <3>1 DEF TestersServed
    <3>3. inbox'[c] = inbox[c] /\ waiting'[c] = waiting[c] /\ peer' = peer
      BY <1>0, <2>0, <3>1, WorkerTouches
    <3> QED
      BY <1>0, <2>0, <3>2, <3>3 DEF QueuedTester, Between, Requested
  <2>2. ASSUME NEW u \in Threads, u # t, Attends(u, c)'
        PROVE  ServedTester(c, u)'
    <3>1. pc'[u] = pc[u] /\ cur'[u] = cur[u] /\ req'[u] = req[u] /\ sock'[u] = sock[u]
      BY <1>0, <2>2, OthersStand
    <3>2. Attends(u, c)
      BY <2>2, <3>1 DEF Attends
    <3>3. ServedTester(c, u)
      BY <2>0, <3>2 DEF TestersServed
    <3>4. cur'[t] # c
      BY <1>5, <2>0, <2>2, <3>2, <3>3 DEF Attends, ServedTester, Accepted
    <3>5. /\ link'[c] = link[c] /\ reply'[c] = reply[c] /\ waiting'[c] = waiting[c]
          /\ inbox'[c] = inbox[c] /\ peer' = peer
      BY <1>0, <2>0, <3>4, WorkerTouches
    <3>6. \A s \in SessionIds : sessions[s] = c => sessions'[s] = c
      <4> SUFFICES ASSUME NEW s \in SessionIds, sessions[s] = c PROVE sessions'[s] = c
        OBVIOUS
      <4>1. sessions[s] # NoConn
        BY <1>1, <2>0
      <4>2. ~(pc[t] = "popping" /\ cur[t] = c)
        BY <1>3, <3>4
      <4> QED
        BY <1>0, <4>1, <4>2, SessionKept
    <3>7. \A s : Holds(c, s) => Holds(c, s)'
      BY <3>6 DEF Holds
    <3>8. Asks(c) => Asks(c)'
      BY <1>0, <2>0, <3>5, <3>7 DEF Asks, Between, Requested, Replied
    <3>9. Parting(c) => Parting(c)'
      BY <1>0, <2>0, <3>5, <3>7 DEF Parting, Replied
    <3>10. calls[c] > 0 => Holds(c, session[c])'
      BY <1>0, <3>3, <3>6 DEF ServedTester, Holds
    <3> QED
      BY <1>0, <2>0, <3>1, <3>3, <3>5, <3>8, <3>9, <3>10 DEF ServedTester
  <2>3. ASSUME Attends(t, c)'
        PROVE  ServedTester(c, t)'
    <3>1. CASE Attends(t, c)
      BY <2>3, <3>1, OwnTester, PartingTester
    <3>2. CASE ~Attends(t, c)
      <4>1. cur'[t] = c /\ pc'[t] \in {"read", "handle", "found", "owned"} \cup BodyLabels
        BY <2>3 DEF Attends
      <4>2. ~(pc[t] \in {"closing", "popping"})
        <5>1. ASSUME pc[t] \in {"closing", "popping"} PROVE pc'[t] \in {"popping", "accept", "dead"}
          <6>1. TeardownClose(t) \/ TeardownPop(t)
            BY <1>0, <5>1 DEF Worker, Handler, Accept, Read, ReadGarbled, ReadEof, ReadReset, ReadFails,
               Options, SetupRefused, SetupGranted, Lookup, CheckOwner, Play, TeardownAnswer, SendBody, BodyLabels, Handling
          <6> QED
            BY <1>1, <6>1 DEF TeardownClose, TeardownPop, Raise, Die, Goto
        <5> QED
          BY <4>1, <5>1 DEF BodyLabels
      <4>3. pc[t] = "accept" /\ pc'[t] = "read" /\ link[c] = "queued" /\ Accept(t, c)
        BY <1>1, <1>3, <3>2, <4>1, <4>2 DEF Attends, Serving, Labels
      <4>4. QueuedTester(c)
        BY <4>3 DEF TestersServed
      <4>5. link'[c] = "open" /\ inbox' = inbox /\ waiting' = waiting /\ peer' = peer
        BY <1>1, <2>0, <4>3 DEF Accept, answerVars
      <4> QED
        BY <1>0, <2>0, <4>3, <4>4, <4>5 DEF QueuedTester, ServedTester, Asks, Between, Requested
    <3> QED
      BY <3>1, <3>2
  <2> QED
    BY <2>1, <2>2, <2>3
<1>7. DeadWorkers'
  <2> SUFFICES ASSUME NEW u \in Threads, pc'[u] = "dead"
               PROVE  /\ cur'[u] \in Conns /\ link'[cur'[u]] \in Accepted
                      /\ key = "right" => cur'[u] \in Losses'
                      /\ \A v \in Threads : pc'[v] # "accept" /\ cur'[v] = cur'[u] => v = u
    BY <1>0 DEF DeadWorkers
  <2>0. \A c \in Conns : link[c] \in Accepted => link'[c] \in Accepted
    BY <1>0, WorkerLinks
  <2>1. ASSUME NEW v \in Threads, NEW w \in Threads, v # w, w # t,
               pc'[v] # "accept", pc'[w] # "accept", pc'[w] = "dead" \/ pc'[v] = "dead",
               cur'[v] = cur'[w]
        PROVE  FALSE
    <3>1. pc'[w] = pc[w] /\ cur'[w] = cur[w] /\ pc[w] # "accept"
      BY <1>0, <2>1, OthersStand
    <3>2. cur[w] \in Conns /\ link[cur[w]] \in Accepted
      BY <3>1 DEF DeadWorkers, PoolInv, LinksAccepted, Serving
    <3>3. v # t
      BY <1>5, <2>1, <3>1, <3>2
    <3>4. pc'[v] = pc[v] /\ cur'[v] = cur[v]
      BY <1>0, <2>1, <3>3, OthersStand
    <3> QED
      BY <2>1, <3>1, <3>4 DEF DeadWorkers
  <2>2. \A v \in Threads : pc'[v] # "accept" /\ cur'[v] = cur'[u] => v = u
    BY <2>1
  <2>3. CASE u = t
    <3>1. cur'[t] = cur[t] /\ cur[t] \in Conns /\ link[cur[t]] \in Accepted /\ Serving(t)
      BY <1>3, <2>3
    <3>2. ASSUME key = "right", cur[t] \in Testers PROVE Abandoned(cur[t])'
      <4>1. CASE Attends(t, cur[t])
        BY <2>3, <3>1, <3>2, <4>1, OwnTester, PartingTester
      <4>2. CASE ~Attends(t, cur[t])
        <5>1. pc[t] \in {"closing", "popping"}
          BY <1>1, <3>1, <4>2 DEF Attends, Serving, Labels
        <5>2. TeardownClose(t) \/ TeardownPop(t)
          BY <1>0, <5>1 DEF Worker, Handler, Accept, Read, ReadGarbled, ReadEof, ReadReset, ReadFails,
             Options, SetupRefused, SetupGranted, Lookup, CheckOwner, Play, TeardownAnswer, SendBody,
             BodyLabels, Handling
        <5>3. sessions[req[t].session] # NoConn
          BY <5>1, OwnedFacts DEF OwnedLabels
        <5>4. pc'[t] \in {"popping", "accept"}
          BY <1>1, <5>2, <5>3 DEF TeardownClose, TeardownPop, Goto
        <5> QED
          BY <2>3, <5>4
      <4> QED
        BY <4>1, <4>2
    <3> QED
      BY <2>0, <2>2, <2>3, <3>1, <3>2 DEF Lookers, Losses
  <2>4. CASE u # t
    <3>1. pc[u] = "dead" /\ cur'[u] = cur[u] /\ cur[u] \in Conns /\ link[cur[u]] \in Accepted
      BY <1>0, <2>4, OthersStand DEF DeadWorkers
    <3>2. cur'[t] # cur[u]
      BY <1>5, <2>4, <3>1
    <3>3. ASSUME Abandoned(cur[u])
          PROVE  Abandoned(cur[u])'
      <4>1. session[cur[u]] \in SessionIds /\ sessions[session[cur[u]]] = cur[u]
        BY <3>3 DEF Abandoned, Holds
      <4>2. ~(pc[t] = "popping" /\ cur[t] = cur[u])
        BY <1>3, <3>2
      <4>3. sessions'[session[cur[u]]] = cur[u]
        BY <1>0, <1>1, <3>1, <4>1, <4>2, SessionKept
      <4>4. peer' = peer
        BY <1>0, <3>1, <3>2, WorkerTouches
      <4> QED
        BY <1>0, <3>1, <3>3, <4>1, <4>3, <4>4 DEF Abandoned, Holds
    <3>4. key = "right" => cur[u] \in Losses
      BY <3>1 DEF DeadWorkers
    <3> QED
      BY <2>0, <2>2, <3>1, <3>3, <3>4 DEF Losses, Lookers
  <2> QED
    BY <2>3, <2>4
<1> QED
  BY <1>2, <1>4, <1>6, <1>7

\* The end of start() preserves it.
LEMMA StopServingInv ==
  ASSUME SystemInv, PoolInv', StopServing
  PROVE  SystemInv'
<1> USE DEF SystemInv
<1>0. /\ at' = at /\ calls' = calls /\ session' = session /\ key' = key
      /\ pc' = pc /\ cur' = cur /\ req' = req /\ sock' = sock /\ peer' = peer /\ inbox' = inbox
      /\ reply' = reply /\ waiting' = waiting /\ sessions' = sessions
      /\ \A c \in Conns : link'[c] = IF link[c] = "queued" THEN "closed" ELSE link[c]
      /\ \A c \in Conns : Step(c)' = Step(c) /\ Length(c)' = Length(c)
      /\ Testers \subseteq Conns
  BY SystemAssumption
  DEF StopServing, Stop, clientVars, answerVars, threadVars, Step, Length, Program, SystemAssumption
<1>1. ClientTypeOK'
  BY <1>0 DEF ClientTypeOK
<1>2. ClientsBegin'
  BY <1>0 DEF ClientsBegin
<1>3. TestersServed'
  <2>1. ASSUME NEW c \in Testers, NEW t \in Threads
        PROVE  /\ link'[c] # "queued"
               /\ Attends(t, c)' = Attends(t, c)
               /\ ServedTester(c, t) => ServedTester(c, t)'
    BY <1>0 DEF Attends, ServedTester, Asks, Parting, Between, Requested, Replied, Holds
  <2>2. \A c \in Testers : link'[c] # "queued"
    BY <1>0
  <2> QED
    BY <1>0, <2>1, <2>2 DEF TestersServed
<1>4. DeadWorkers'
  BY <1>0 DEF DeadWorkers, Accepted, Losses, Abandoned, Holds
<1> QED
  BY <1>1, <1>2, <1>3, <1>4

\* The clients' steps preserve it: a client changes its own end only.
LEMMA ClientInv ==
  ASSUME SystemInv, PoolInv', NEW d \in Conns, Client(d)
  PROVE  SystemInv'
<1> USE DEF SystemInv
<1>0. /\ key' = key /\ UNCHANGED threadVars /\ sessions' = sessions /\ reply' = reply
      /\ \A c \in Conns \ {d} :
           /\ at'[c] = at[c] /\ calls'[c] = calls[c] /\ session'[c] = session[c]
           /\ link'[c] = link[c] /\ peer'[c] = peer[c] /\ inbox'[c] = inbox[c] /\ waiting'[c] = waiting[c]
  <2>1. /\ calls \in [Conns -> Nat]
        /\ at \in [Conns -> {"start", "between", "calling", "raised", "finished", "failed"}]
        /\ session \in [Conns -> SessionIds \cup {NoSession}]
        /\ link \in [Conns -> ConnStates] /\ inbox \in [Conns -> Requests \cup {NoRequest}]
        /\ waiting \in [Conns -> BOOLEAN] /\ peer \in [Conns -> {"up", "fin", "rst"}]
    BY DEF ClientTypeOK, PoolInv, TypeOK, ConnStates
  <2>2. \A l : Become(d, l) => \A c \in Conns \ {d} : at'[c] = at[c]
    BY <2>1 DEF Become
  <2>3. CASE Open(d)
    BY <2>1, <2>2, <2>3 DEF Open, Connect, answerVars
  <2>4. CASE Refused(d) \/ Lose(d)
    BY <2>2, <2>4 DEF Refused, Lose, vars, netVars, answerVars
  <2>5. CASE Ask(d)
    BY <2>1, <2>2, <2>5 DEF Ask, Send, threadVars
  <2>6. CASE Return(d)
    <3>1. \A c \in Conns \ {d} : at'[c] = at[c]
      BY <2>2, <2>6 DEF Return
    <3>2. \A c \in Conns \ {d} : calls'[c] = calls[c] /\ session'[c] = session[c]
      BY <2>1, <2>6 DEF Return
    <3> QED
      BY <2>6, <3>1, <3>2 DEF Return, vars, netVars, answerVars
  <2>7. CASE Close(d)
    BY <2>1, <2>2, <2>7 DEF Close, Disconnect, Abort, answerVars
  <2> QED
    BY <2>3, <2>4, <2>5, <2>6, <2>7 DEF Client
<1>1. /\ at \in [Conns -> {"start", "between", "calling", "raised", "finished", "failed"}]
      /\ calls \in [Conns -> Nat] /\ \A c \in Conns : calls[c] <= Length(c)
      /\ session \in [Conns -> SessionIds \cup {NoSession}]
      /\ link \in [Conns -> ConnStates] /\ inbox \in [Conns -> Requests \cup {NoRequest}]
      /\ reply \in [Conns -> Reply]
      /\ waiting \in [Conns -> BOOLEAN] /\ peer \in [Conns -> {"up", "fin", "rst"}]
      /\ \A c \in Conns : Length(c)' = Length(c)
      /\ Testers \subseteq Conns
  BY <1>0, SystemAssumption
  DEF ClientTypeOK, PoolInv, TypeOK, ConnStates, Length, Program, SystemAssumption
\* What it changes, call by call.
<1>2. ASSUME Open(d)
      PROVE  /\ at[d] = "start" /\ at'[d] = "between" /\ calls' = calls /\ session' = session
             /\ link[d] = "new" /\ link'[d] = "queued"
             /\ peer' = peer /\ inbox' = inbox /\ waiting' = waiting
  BY <1>1, <1>2 DEF Open, Connect, Become, answerVars
<1>3. ASSUME Refused(d) \/ Lose(d)
      PROVE  /\ at'[d] \in {"failed", "raised"} /\ calls' = calls /\ session' = session
             /\ link' = link /\ peer' = peer /\ inbox' = inbox /\ waiting' = waiting
             /\ at[d] = "start" \/ (link[d] = "closed" /\ at[d] \in {"calling", "between"})
  BY <1>1, <1>3 DEF Refused, Lose, Become, vars, netVars, answerVars
<1>4. ASSUME Ask(d)
      PROVE  /\ at[d] = "between" /\ at'[d] = "calling" /\ calls' = calls /\ session' = session
             /\ calls[d] < Length(d)
             /\ link' = link /\ peer' = peer /\ inbox'[d] = Step(d) /\ waiting'[d] = TRUE
  BY <1>1, <1>4 DEF Ask, Send, Become, Step
<1>5. ASSUME Return(d)
      PROVE  /\ at[d] = "calling" /\ ~waiting[d]
             /\ link' = link /\ peer' = peer /\ inbox' = inbox /\ waiting' = waiting
             /\ IF reply[d].status \in {200, 206}
                THEN /\ at'[d] = "between" /\ calls' = [calls EXCEPT ![d] = @ + 1]
                     /\ session' = [session EXCEPT ![d] = IF calls[d] = 0 THEN reply[d].session ELSE @]
                ELSE at'[d] = "raised" /\ calls' = calls /\ session' = session
  BY <1>1, <1>5 DEF Return, Become, vars, netVars, answerVars
<1>6. ASSUME Close(d)
      PROVE  /\ at'[d] \in {"finished", "failed"} /\ calls' = calls /\ session' = session
             /\ link' = link /\ inbox' = inbox /\ waiting' = waiting
             /\ \/ at[d] = "raised"
                \/ at[d] = "between" /\ calls[d] = Length(d) /\ at'[d] = "finished"
  BY <1>1, <1>6 DEF Close, Disconnect, Abort, Become, answerVars
<1>7. ClientTypeOK'
  <2>1. at' \in [Conns -> {"start", "between", "calling", "raised", "finished", "failed"}]
    BY <1>1 DEF Client, Open, Refused, Ask, Return, Lose, Close, Become
  <2>2. CASE Return(d) /\ reply[d].status \in {200, 206}
    <3>1. calls[d] < Length(d)
      BY <1>5, <2>2 DEF ClientsBegin
    <3>2. Length(d) \in Nat
      BY <1>1, TesterProgram, LookerProgram DEF Lookers
    <3>3. calls' \in [Conns -> Nat] /\ \A c \in Conns : calls'[c] <= Length(c)
      BY <1>1, <1>5, <2>2, <3>1, <3>2
    <3>4. session' \in [Conns -> SessionIds \cup {NoSession}]
      BY <1>1, <1>5, <2>2 DEF Reply
    <3> QED
      BY <1>0, <1>1, <2>1, <3>3, <3>4 DEF ClientTypeOK
  <2>3. CASE ~(Return(d) /\ reply[d].status \in {200, 206})
    <3>1. calls' = calls /\ session' = session
      BY <1>2, <1>3, <1>4, <1>5, <1>6, <2>3 DEF Client
    <3> QED
      BY <1>0, <1>1, <2>1, <3>1 DEF ClientTypeOK
  <2> QED
    BY <2>2, <2>3
<1>8. ClientsBegin'
  <2>1. at'[d] # "start" /\ (at'[d] = "calling" => calls'[d] < Length(d))
    BY <1>2, <1>3, <1>4, <1>5, <1>6 DEF Client
  <2> QED
    BY <1>0, <1>1, <2>1 DEF ClientsBegin
<1>9. TestersServed'
  <2> SUFFICES ASSUME key = "right", NEW c \in Testers
               PROVE  /\ link'[c] = "queued" => QueuedTester(c)'
                      /\ \A t \in Threads : Attends(t, c)' => ServedTester(c, t)'
    BY <1>0 DEF TestersServed
  <2>0. /\ c \in Conns /\ Length(c) = 4
        /\ \A t \in Threads : Attends(t, c)' = Attends(t, c)
        /\ pc' = pc /\ req' = req /\ sock' = sock
    BY <1>0, <1>1, TesterProgram DEF Attends, threadVars
  <2>1. CASE c # d
    <3>1. /\ at'[c] = at[c] /\ calls'[c] = calls[c] /\ session'[c] = session[c]
          /\ link'[c] = link[c] /\ peer'[c] = peer[c] /\ inbox'[c] = inbox[c] /\ waiting'[c] = waiting[c]
          /\ reply' = reply /\ sessions' = sessions /\ key' = key
      BY <1>0, <2>0, <2>1
    <3>2. Step(c)' = Step(c)
      BY <3>1 DEF Step, Program
    <3>3. Between(c)' = Between(c) /\ Requested(c)' = Requested(c) /\ Replied(c)' = Replied(c)
      BY <3>1, <3>2 DEF Between, Requested, Replied, Holds
    <3>7. Asks(c)' = Asks(c) /\ Parting(c)' = Parting(c)
      BY <3>1, <3>3 DEF Asks, Parting
    <3>4. Holds(c, session[c])' = Holds(c, session[c])
      BY <3>1 DEF Holds
    <3>5. QueuedTester(c)' = QueuedTester(c)
      BY <3>1, <3>3 DEF QueuedTester
    <3>6. \A t \in Threads : ServedTester(c, t)' = ServedTester(c, t)
      BY <2>0, <3>1, <3>2, <3>4, <3>7 DEF ServedTester
    <3> QED
      BY <2>0, <3>1, <3>5, <3>6 DEF TestersServed
  <2>2. CASE c = d /\ Open(d)
    <3>1. \A t \in Threads : ~Attends(t, c)
      BY <1>2, <2>2 DEF PoolInv, LinksAccepted, Serving, Attends, BodyLabels, Accepted
    <3>2. QueuedTester(c)'
      BY <1>2, <2>2 DEF QueuedTester, Between, ClientsBegin
    <3> QED
      BY <2>0, <3>1, <3>2
  <2>3. CASE c = d /\ (Refused(d) \/ Lose(d))
    <3>1. link[c] # "queued"
      BY <1>3, <2>3 DEF ClientsBegin
    <3>2. \A t \in Threads : ~Attends(t, c)
      BY <1>3, <2>3 DEF TestersServed, ServedTester, Parting, Asks, Between, Requested, Replied
    <3> QED
      BY <1>3, <2>0, <2>3, <3>1, <3>2
  <2>6. CASE c = d /\ Close(d)
    <3>1. link[c] # "queued"
      BY <1>6, <2>0, <2>6 DEF TestersServed, QueuedTester, Between, Requested
    <3>2. ASSUME NEW t \in Threads, Attends(t, c)
          PROVE  ServedTester(c, t)'
      <4>1. ServedTester(c, t)
        BY <3>2 DEF TestersServed
      <4>2. at[c] = "between" /\ calls[c] = 4 /\ at'[c] = "finished"
        BY <1>6, <2>0, <2>6, <4>1 DEF ServedTester, Asks, Parting, Between, Requested, Replied
      <4>3. pc[t] = "lastbody" /\ link[c] = "open" /\ Parting(c)
        BY <4>1, <4>2 DEF ServedTester
      <4>4. Parting(c)'
        BY <1>6, <2>6, <4>2, <4>3 DEF Parting
      <4>5. calls'[c] > 0 => Holds(c, session[c])'
        BY <1>0, <1>6, <2>6, <4>1, <4>2 DEF ServedTester, Holds
      <4> QED
        BY <1>6, <2>0, <2>6, <4>2, <4>3, <4>4, <4>5 DEF ServedTester
    <3> QED
      BY <1>6, <2>0, <2>6, <3>1, <3>2
  <2>4. CASE c = d /\ Ask(d)
    <3>0. /\ Step(c)' = Step(c) /\ calls'[c] = calls[c] /\ session'[c] = session[c] /\ link'[c] = link[c]
          /\ peer'[c] = peer[c] /\ sessions' = sessions
      BY <1>0, <1>4, <2>4 DEF Step, Program
    <3>1. Requested(c)' /\ at[c] = "between"
      BY <1>4, <2>4, <3>0 DEF Requested
    <3>2. link[c] = "queued" => QueuedTester(c)'
      BY <3>0, <3>1 DEF TestersServed, QueuedTester
    <3>3. ASSUME NEW t \in Threads, Attends(t, c)
          PROVE  ServedTester(c, t)'
      <4>1. ServedTester(c, t)
        BY <3>3 DEF TestersServed
      <4>2. pc[t] \in {"read", "body", "media"} /\ Asks(c) /\ link[c] = "open"
        BY <1>4, <2>0, <2>4, <3>1, <4>1 DEF ServedTester, Parting, Replied
      <4>6. Asks(c)'
        BY <3>1 DEF Asks
      <4>3. calls[c] > 0 => Holds(c, session[c])'
        BY <3>0, <4>1 DEF ServedTester, Holds
      <4> QED
        BY <2>0, <3>0, <4>1, <4>2, <4>3, <4>6 DEF ServedTester
    <3> QED
      BY <2>0, <3>0, <3>2, <3>3
  <2>5. CASE c = d /\ Return(d)
    <3>1. at[c] = "calling" /\ ~waiting[c]
      BY <1>5, <2>5
    <3>2. link[c] # "queued"
      BY <3>1 DEF TestersServed, QueuedTester, Between, Requested
    <3>3. ASSUME NEW t \in Threads, Attends(t, c)
          PROVE  ServedTester(c, t)'
      <4>1. ServedTester(c, t) /\ Replied(c)
        BY <3>1, <3>3 DEF TestersServed, ServedTester, Asks, Parting, Between, Requested
      <4>2. at'[c] = "between" /\ calls'[c] = calls[c] + 1
            /\ session'[c] = IF calls[c] = 0 THEN reply[c].session ELSE session[c]
        BY <1>1, <1>5, <2>0, <2>5, <4>1 DEF Replied
      <4>3. Holds(c, session[c])'
        <5>1. calls[c] > 0 => Holds(c, session[c])
          BY <4>1 DEF ServedTester
        <5> QED
          BY <1>0, <1>1, <2>0, <4>1, <4>2, <5>1 DEF Replied, Holds
      <4>4. CASE calls[c] < 3
        <5>1. Between(c)'
          BY <1>5, <2>5, <4>1, <4>2 DEF Between, Replied
        <5>2. Asks(c) /\ link[c] = "open" /\ peer[c] = "up" /\ calls[c] \in 0..3
          BY <3>1, <4>1, <4>4 DEF ServedTester, Parting
        <5>3. pc[t] \in {"read", "body", "media"}
          BY <3>1, <4>1, <4>4 DEF ServedTester, Parting
        <5> QED
          BY <1>5, <2>0, <2>5, <4>1, <4>2, <4>3, <4>4, <5>1, <5>2, <5>3 DEF ServedTester, Asks
      <4>5. CASE ~(calls[c] < 3)
        <5>1. pc[t] = "lastbody" /\ link[c] = "open" /\ Parting(c) /\ peer[c] = "up" /\ calls[c] = 3
          BY <1>1, <2>0, <3>1, <4>1, <4>5 DEF ServedTester, Asks, Parting, Between, Requested
        <5>2. Parting(c)'
          BY <1>5, <2>5, <4>1, <4>2, <5>1 DEF Parting, Replied
        <5> QED
          BY <1>5, <2>0, <2>5, <4>2, <4>3, <5>1, <5>2 DEF ServedTester
      <4> QED
        BY <4>4, <4>5
    <3> QED
      BY <1>5, <2>0, <2>5, <3>2, <3>3
  <2> QED
    BY <2>1, <2>2, <2>3, <2>4, <2>5, <2>6 DEF Client
<1>10. DeadWorkers'
  <2>1. \A c \in Conns : link[c] \in Accepted => link'[c] \in Accepted
    <3>1. link[d] \in Accepted => link'[d] = link[d]
      BY <1>2, <1>3, <1>4, <1>5, <1>6 DEF Client, Accepted
    <3> QED
      BY <1>0, <3>1
  <2>2. ASSUME NEW c \in Conns, Abandoned(c)
        PROVE  Abandoned(c)'
    <3>1. c # d
      BY <1>2, <1>3, <1>4, <1>5, <1>6, <2>2 DEF Client, Abandoned
    <3> QED
      BY <1>0, <2>2, <3>1 DEF Abandoned, Holds
  <2>3. Losses \subseteq Losses'
    BY <1>1, <2>2 DEF Losses, Lookers
  <2> QED
    BY <1>0, <2>1, <2>3 DEF DeadWorkers, threadVars
<1> QED
  BY <1>7, <1>8, <1>9, <1>10

\* The invariant holds in every state of every run of the test program.
THEOREM SystemInvariant == SystemSpec => []SystemInv
<1>1. SystemInv /\ [SystemNext]_systemVars => SystemInv'
  <2> SUFFICES ASSUME SystemInv, [SystemNext]_systemVars
               PROVE  SystemInv'
    OBVIOUS
  <2>1. PoolInv'
    BY SystemSteps, NextInv DEF SystemInv
  <2>2. CASE UNCHANGED systemVars
    <3> USE <2>2 DEF systemVars, vars, netVars, answerVars, threadVars, clientVars
    <3>1. ClientTypeOK' /\ ClientsBegin'
      BY DEF SystemInv, ClientTypeOK, ClientsBegin, Length, Program
    <3>2. \A c : Between(c)' = Between(c) /\ Requested(c)' = Requested(c) /\ Replied(c)' = Replied(c)
      BY DEF Between, Requested, Replied, Holds, Step, Program
    <3>3. \A c : /\ QueuedTester(c)' = QueuedTester(c) /\ Asks(c)' = Asks(c) /\ Parting(c)' = Parting(c)
                 /\ Abandoned(c)' = Abandoned(c)
      BY <3>2 DEF QueuedTester, Asks, Parting, Abandoned, Holds
    <3>4. \A c, t : Attends(t, c)' = Attends(t, c) /\ ServedTester(c, t)' = ServedTester(c, t)
      BY <3>3 DEF Attends, ServedTester, Holds, Step, Program
    <3>5. TestersServed' /\ DeadWorkers'
      BY <3>3, <3>4 DEF SystemInv, TestersServed, DeadWorkers, Losses, Lookers
    <3> QED
      BY <2>1, <3>1, <3>5 DEF SystemInv
  <2> QED
    BY <2>1, <2>2, ServeInv, StopServingInv, ClientInv DEF SystemNext
<1> QED
  BY <1>1, SystemInitInv, PTL DEF SystemSpec

-----------------------------------------------------------------------------
(* What it gives                                                           *)

\* Clients that make the calls of client.py are peers as the pool expects them:
\* every property proved of DianServer holds of the system too.
THEOREM SystemImplementsPool == SystemSpec => Spec
<1>1. SystemInit => Init
  BY DEF SystemInit
<1>2. SystemInv /\ [SystemNext]_systemVars => [Next]_vars
  BY SystemSteps
<1> QED
  BY <1>1, <1>2, SystemInvariant, PTL DEF SystemSpec, Spec

\* The state of the clients has its type (client.py:15-64, testc.py).
THEOREM ClientTypes == SystemSpec => []ClientTypeOK
<1>1. SystemInv => ClientTypeOK
  BY DEF SystemInv
<1> QED
  BY <1>1, SystemInvariant, PTL

\* With the right key, and however many threads run dian_test, the server loses a
\* worker to options_test and to each dian_test that left before the second send
\* of the answer to its TEARDOWN was reset, and no other: no two workers end on the
\* same connection, and no dian_test costs one before its last answer
\* (server.py:39-43, 98, 101-104, base.py:135-139).
THEOREM WorkersCounted == SystemSpec => []WorkersLost
<1>1. SystemInv => WorkersLost
  <2> DEFINE dead == {t \in Threads : pc[t] = "dead"}
  <2> SUFFICES ASSUME SystemInv, key = "right"
               PROVE  Cardinality(dead) <= Cardinality(Losses)
    BY DEF WorkersLost
  <2>1. \A t \in dead : cur[t] \in Losses
    BY DEF SystemInv, DeadWorkers
  <2>2. \A t, u \in dead : cur[t] = cur[u] => t = u
    BY DEF SystemInv, DeadWorkers
  <2> DEFINE f == [t \in dead |-> cur[t]]
  <2>3. f \in Injection(dead, Losses)
    BY <2>1, <2>2 DEF Injection, IsInjective
  <2>4. IsFiniteSet(Losses)
    BY SystemAssumption, FS_Subset DEF SystemAssumption, Losses, Lookers
  <2> QED
    BY <2>3, <2>4, FS_Injection
<1> QED
  BY <1>1, SystemInvariant, PTL

=============================================================================
