------------------------ MODULE RtspServerProperties ------------------------
(***************************************************************************)
(* What holds of the C++ server of RtspServer, and what its comments say   *)
(* of it and does not.                                                     *)
(***************************************************************************)
EXTENDS RtspServer

\* Somebody reset a connection, or a thread closed another one's.
Hurt == stray \/ \E c \in Conns : peer[c] = "rst"

\* No exception ends the process (server.cpp:47, 67, 91), or leaves sessions_lock
\* locked for ever (185-190, 213-218), unless a send or an accept failed, which
\* takes a reset, or a connection closed by the destructor of another one.
OnlyFailuresEndService == crashed = "thrown" \/ mutex # NoThread => Hurt

Serving(t) == pc[t] \notin {"accept", "closed"}

\* As long as no destructor has closed a handle that was given away (base.cpp:27,
\* server.cpp:68, 92), every thread has a handle of its own, open.
OwnHandle ==
  ~stray =>
    \A t, u \in Threads : Serving(t) =>
      /\ Mine(t) # NoConn
      /\ Serving(u) /\ sock[u] = sock[t] => u = t

Shared(s) == stray \/ \E c, d \in users[s] : c # d

\* A session torn down comes back, made by the operator[] of line 229, only if
\* two connections used its id, or one connection had two threads.
BlankNeedsSharing ==
  \A s \in SessionIds : sessions[s] = "blank" => Shared(s)

\* A SETUP finds the ids of the model, far fewer than the program's, used up.
Exhausted == \E t \in Threads : Handling(t, "SETUP") /\ \A s \in SessionIds : sessions[s] # "none"

\* A peer whose connection was accepted gets an answer to every request, unless
\* it goes away itself, someone was hurt, or the process is gone.
Answered ==
  \A c \in Conns :
    waiting[c] /\ link[c] = "open" ~> ~waiting[c] \/ peer[c] # "up" \/ Hurt \/ Exhausted
                                  \/ crashed = "dangling"

-----------------------------------------------------------------------------
(* The inductive invariant                                                 *)

\* What a thread has in its hands at each point of the loop.
ThreadsReady ==
  \A t \in Threads :
    /\ pc[t] # "accept" => sock[t] \in Handles
    /\ pc[t] \in {"handle", "named", "inserted", "found", "erasing", "playing", "played"}
         => req[t] \in RequestType
    /\ pc[t] \in {"named", "inserted"} => id[t] \in SessionIds
    /\ pc[t] \in {"found", "erasing", "playing"} => req[t].session \in SessionIds

\* The kernel has given a connection one handle at most, when it was accepted.
HandlesDistinct ==
  \A h \in Handles : conn[h] # NoConn =>
    /\ link[conn[h]] \in {"open", "closed"}
    /\ \A k \in Handles : conn[k] = conn[h] => k = h

\* Whoever names a session has been noted as its user.
UsersNoted ==
  /\ \A c \in Conns :
       inbox[c] # NoRequest /\ inbox[c].session # NoSession => c \in users[inbox[c].session]
  /\ ~stray => \A t \in Threads :
       pc[t] \in {"handle", "found", "erasing"} /\ req[t].session # NoSession
         => Mine(t) \in users[req[t].session]

\* What was found is still there, unless someone else could erase it.
FoundStays ==
  \A t \in Threads :
    pc[t] = "found" => sessions[req[t].session] # "none" \/ Shared(req[t].session)

\* The inductive invariant: types, what a thread at each point of start() and
\* _handle (server.cpp:42-252) holds, and the properties above.
RtspInv ==
  /\ TypeOK
  /\ ThreadsReady
  /\ HandlesDistinct
  /\ OwnHandle
  /\ OnlyFailuresEndService
  /\ UsersNoted
  /\ FoundStays
  /\ BlankNeedsSharing

-----------------------------------------------------------------------------
(* What a comment says                                                     *)

\* server.cpp:127: the id a SETUP generates is unique, so no two peers are told
\* the same one.
UniqueId ==
  \A c, d \in Conns :
    /\ reply[c].status = 200 /\ reply[d].status = 200
    /\ reply[c].session = reply[d].session /\ reply[c].session # NoSession
    => c = d

=============================================================================
