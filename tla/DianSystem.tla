----------------------------- MODULE DianSystem -----------------------------
(***************************************************************************)
(* The Python server of DianServer and the test program that exercises it, *)
(* testc.py: it asks for the OPTIONS on one connection (a looker), then    *)
(* lets many threads set a session up, play twice and tear it down, each   *)
(* on its own connection (a tester).  The calls are those of client.py,    *)
(* which waits for each answer, and raises on a bad one or on none.        *)
(*                                                                         *)
(* The bytes of the answers are module DianWire's.  Here a client that has *)
(* the head of an answer has it all, but for the media of a PLAY, which it *)
(* waits for too, and reads as a whole.                                    *)
(***************************************************************************)
EXTENDS DianServerProperties, Sequences

CONSTANTS
  Testers,  \* the connections of dian_test; the others are options_test's
  Keys      \* the keys dian_test may pass to setup()

VARIABLES
  key,      \* the one it passes in this run
  at,       \* where each client is: in a call or between two
  calls,    \* how many of its calls have returned
  session   \* its _session

clientVars == <<key, at, calls, session>>
systemVars == <<vars, clientVars>>

Lookers == Conns \ Testers

Call(m, s, r) ==
  [method |-> m, transport |-> FALSE, auth |-> "absent", url |-> "file", session |-> s, range |-> r]

\* Only setup() sends a Transport and its key.
Setup(k) == [Call("SETUP", NoSession, "full") EXCEPT !.transport = TRUE, !.auth = k]

ASSUME SystemAssumption ==
  /\ Testers \subseteq Conns /\ IsFiniteSet(Conns)
  /\ Keys \subseteq {"absent", "wrong", "right"}
  /\ Call("OPTIONS", NoSession, "full") \in Requests
  /\ \A k \in Keys : Setup(k) \in Requests
  /\ \A s \in SessionIds \cup {NoSession} :
       {Call("PLAY", s, "slice"), Call("PLAY", s, "full"), Call("TEARDOWN", s, "full")} \subseteq Requests

\* dian_test and options_test, for a client whose session is s.
Program(c, s) ==
  IF c \in Testers
  THEN <<Setup(key), Call("PLAY", s, "slice"), Call("PLAY", s, "full"), Call("TEARDOWN", s, "full")>>
  ELSE <<Call("OPTIONS", NoSession, "full")>>

Length(c) == Len(Program(c, NoSession))

ClientTypeOK ==
  /\ key \in Keys
  /\ at \in [Conns -> {"start", "between", "calling", "raised", "finished", "failed"}]
  /\ calls \in [Conns -> Nat] /\ \A c \in Conns : calls[c] <= Length(c)
  /\ session \in [Conns -> SessionIds \cup {NoSession}]

SystemInit ==
  /\ Init
  /\ key \in Keys
  /\ at = [c \in Conns |-> "start"]
  /\ calls = [c \in Conns |-> 0]
  /\ session = [c \in Conns |-> NoSession]

-----------------------------------------------------------------------------

Become(c, l) == at' = [at EXCEPT ![c] = l]

\* connect(), which waits for a place in the backlog.  options_test() comes first.
Open(c) ==
  /\ at[c] = "start"
  /\ c \in Testers => \A d \in Lookers : at[d] = "finished"
  /\ Connect(c)
  /\ Become(c, "between")
  /\ UNCHANGED <<key, calls, session>>

\* Nobody listens any more: connect() raises, and so does what calls it.
Refused(c) ==
  /\ at[c] = "start" /\ ~listening
  /\ c \in Testers => \A d \in Lookers : at[d] = "finished"
  /\ Become(c, "failed")
  /\ UNCHANGED <<vars, key, calls, session>>

\* setup(), play(), teardown() or options(): the request ...
Ask(c) ==
  /\ at[c] = "between" /\ calls[c] < Length(c)
  /\ Send(c, Program(c, session[c])[calls[c] + 1])
  /\ Become(c, "calling")
  /\ UNCHANGED <<key, calls, session>>

\* Mutant: a call is counted when it is made, too.
ReturnTwice(c) ==
  /\ at[c] = "calling" /\ ~waiting[c]
  /\ Become(c, "between")
  /\ calls' = [calls EXCEPT ![c] = @ + 2]
  /\ session' = [session EXCEPT ![c] = reply[c].session]
  /\ UNCHANGED <<vars, key>>

\* The body of the answer to the client c is still to be sent.
MediaPending(c) == \E t \in Threads : pc[t] = "media" /\ out[t] = c

\* ... and its answer, with the media of a PLAY (testc.py:12, 14): anything but
\* success is raised ...
Return(c) ==
  /\ at[c] = "calling" /\ ~waiting[c] /\ ~MediaPending(c)
  /\ IF reply[c].status \in {200, 206}
     THEN /\ Become(c, "between")
          /\ calls' = [calls EXCEPT ![c] = @ + 1]
          /\ session' = [session EXCEPT ![c] =
                           IF calls[c] = 0 THEN reply[c].session ELSE @]
     ELSE Become(c, "raised") /\ UNCHANGED <<calls, session>>
  /\ UNCHANGED <<vars, key>>

\* ... and so is the end of the stream, which is no status line, and the failure
\* to send once the server has closed.
Lose(c) ==
  /\ \/ at[c] = "calling" /\ waiting[c]
     \/ at[c] = "between" /\ calls[c] < Length(c)
  /\ link[c] = "closed"
  /\ Become(c, "raised")
  /\ UNCHANGED <<vars, key, calls, session>>

\* disconnect(), or __del__ once an exception has dropped the client.  The kernel
\* resets the connection if bytes of an answer were not read, as the surplus line
\* end of one without headers is: that reset may meet the server between the two
\* sends of the answer to TEARDOWN.
Close(c) ==
  /\ \/ at[c] = "between" /\ calls[c] = Length(c) /\ Become(c, "finished")
     \/ at[c] = "raised" /\ Become(c, "failed")
  /\ Disconnect(c) \/ Abort(c)
  /\ UNCHANGED <<key, calls, session>>

Client(c) == Open(c) \/ Refused(c) \/ Ask(c) \/ Return(c) \/ Lose(c) \/ Close(c)

Serve(t) == Worker(t) /\ UNCHANGED clientVars

StopServing == Stop /\ UNCHANGED clientVars

SystemNext ==
  \/ \E t \in Threads : Serve(t)
  \/ StopServing
  \/ \E c \in Conns : Client(c)

\* Workers, the thread that called start() and the clients' threads are scheduled.
SystemSpec ==
  /\ SystemInit /\ [][SystemNext]_systemVars
  /\ \A t \in Threads : WF_systemVars(Serve(t))
  /\ WF_systemVars(StopServing)
  /\ \A c \in Conns : WF_systemVars(Client(c))

-----------------------------------------------------------------------------
(* Properties                                                              *)

Holds(c, s) == s \in SessionIds /\ sessions[s] = c

\* The worker of a tester that has left, and whose end of the connection was
\* reset, before the second send of the answer to its TEARDOWN (base.py:139):
\* ConnectionResetError takes the worker past server.py:96-98.
Abandoned(c) == at[c] = "finished" /\ peer[c] = "rst" /\ Holds(c, session[c])

Losses == Lookers \cup {c \in Testers : Abandoned(c)}

\* The server loses a worker to options_test, which leaves without a TEARDOWN
\* (server.py:39-43), and to a dian_test that leaves too early for the second
\* send, but to no other: a dian_test gives its worker back (server.py:98).
WorkersLost ==
  key = "right" => Cardinality({t \in Threads : pc[t] = "dead"}) <= Cardinality(Losses)

\* Every thread of the test program gets to its end, and none fails, unless the
\* server has lost every worker in these ways (testc.py:26-31).
TestFinishes ==
  \A c \in Conns :
    key = "right" ~>
      \/ at[c] = "finished"
      \/ at[c] = "failed" /\ ~listening /\ Cardinality(Losses) >= Cardinality(Threads)

\* ... and then no session is left in the dict (server.py:97), but those of the
\* connections that were reset, which no worker reads any more.
SessionsReleased ==
  (\A c \in Conns : at[c] = "finished") ~>
    \A s \in SessionIds : sessions[s] = NoConn \/ (Orphan(s) /\ Abandoned(sessions[s]))

\* With a key the server does not know every dian_test costs a worker, until
\* start() returns (server.py:116-118): then the others fail too, but no call of
\* a client hangs for ever.
ClientsEnd == \A c \in Conns : <>(at[c] \in {"finished", "failed"})

-----------------------------------------------------------------------------
(* The inductive invariant: which clients cost a worker                    *)

\* The request a client makes next, or has made.
Step(c) == Program(c, session[c])[calls[c] + 1]

\* A client between two calls; in one whose request is under way; in one whose
\* answer is.
Between(c) == at[c] = "between" /\ ~waiting[c] /\ inbox[c] = NoRequest
Requested(c) == at[c] = "calling" /\ waiting[c] /\ inbox[c] = Step(c)
Replied(c) ==
  /\ at[c] = "calling" /\ ~waiting[c] /\ inbox[c] = NoRequest
  /\ reply[c].status \in {200, 206}
  /\ calls[c] = 0 => Holds(c, reply[c].session)

\* A tester that is to send, or has sent, its next request.
Asks(c) == Between(c) \/ Requested(c) \/ (Replied(c) /\ calls[c] < 3)

\* A tester in the queue is at its first call.
QueuedTester(c) ==
  /\ peer[c] = "up" /\ calls[c] = 0
  /\ Between(c) \/ Requested(c)

\* A tester whose last call is answered: it has nothing more to send, and may go.
Parting(c) ==
  /\ inbox[c] = NoRequest
  /\ \/ calls[c] = 3 /\ Replied(c)
     \/ calls[c] = 4 /\ at[c] \in {"between", "finished"}

\* The worker t of a tester reads, or handles, just the request the tester has
\* made, and the tester does not leave before the head of the answer to its
\* TEARDOWN, but perhaps before the body, which may break the connection.
ServedTester(c, t) ==
  /\ calls[c] > 0 => Holds(c, session[c])
  /\ \/ /\ peer[c] = "up" /\ link[c] = "open" /\ calls[c] \in 0..3
        /\ \/ /\ pc[t] \in {"handle", "found", "owned"}
              /\ at[c] = "calling" /\ waiting[c] /\ inbox[c] = NoRequest
              /\ req[t] = Step(c) /\ sock[t] = c
           \/ pc[t] \in {"read", "body"} /\ Asks(c)
           \/ pc[t] = "media" /\ Asks(c) /\ req[t].range # "backward"
     \/ /\ pc[t] = "lastbody" /\ link[c] = "open" /\ Parting(c)
        /\ peer[c] = "up" \/ at[c] = "finished"
     \/ /\ pc[t] = "read" /\ link[c] = "broken" /\ Parting(c)
        /\ peer[c] = "rst" /\ at[c] = "finished"

Attends(t, c) == cur[t] = c /\ pc[t] \in {"read", "handle", "found", "owned"} \cup BodyLabels

TestersServed ==
  key = "right" =>
    \A c \in Testers :
      /\ link[c] = "queued" => QueuedTester(c)
      /\ \A t \in Threads : Attends(t, c) => ServedTester(c, t)

\* Clients that have not connected, and those in a call.
ClientsBegin ==
  \A c \in Conns :
    /\ at[c] = "start" => link[c] = "new" /\ peer[c] = "up" /\ calls[c] = 0 /\ ~waiting[c] /\ inbox[c] = NoRequest
    /\ at[c] = "calling" => calls[c] < Length(c)

\* A dead worker served a looker, or a tester that left early, and no other worker
\* serves its connection or died of it.
DeadWorkers ==
  \A t \in Threads : pc[t] = "dead" =>
    /\ cur[t] \in Conns /\ link[cur[t]] \in Accepted
    /\ key = "right" => cur[t] \in Losses
    /\ \A u \in Threads : pc[u] # "accept" /\ cur[u] = cur[t] => u = t

SystemInv ==
  /\ PoolInv
  /\ ClientTypeOK
  /\ ClientsBegin
  /\ TestersServed
  /\ DeadWorkers

=============================================================================
