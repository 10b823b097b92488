--------------------------- MODULE SessionRegistry ---------------------------
(***************************************************************************)
(* What a Dian server promises about its sessions, whatever its threads    *)
(* do: SETUP hands an id out once, for one connection; only that           *)
(* connection is shown the media, and only while the session lives; a      *)
(* session that TEARDOWN retired never comes back.                         *)
(***************************************************************************)
CONSTANTS SessionIds, Conns, NoConn, NoSession

VARIABLES
  issued,  \* the ids handed out so far
  owner,   \* the connection of each live session, NoConn for the others
  shown    \* the session of the media a connection got in its last answer

registryVars == <<issued, owner, shown>>

Init ==
  /\ issued = {}
  /\ owner = [s \in SessionIds |-> NoConn]
  /\ shown = [c \in Conns |-> NoSession]

\* An answer to c with no media in it.
Clear(c) == shown' = [shown EXCEPT ![c] = NoSession]

\* SETUP: a new id, which opens a session of c, or comes with a refusal.
Issue(s, c) ==
  /\ s \notin issued
  /\ issued' = issued \cup {s}
  /\ owner' \in {owner, [owner EXCEPT ![s] = c]}
  /\ \/ UNCHANGED shown
     \/ Clear(c)

\* PLAY: the owner of a live session gets its media.
Serve(s, c) ==
  /\ owner[s] = c
  /\ shown' = [shown EXCEPT ![c] = s]
  /\ UNCHANGED <<issued, owner>>

\* TEARDOWN removes a session for good.
Retire(s) ==
  /\ owner[s] # NoConn
  /\ owner' = [owner EXCEPT ![s] = NoConn]
  /\ UNCHANGED <<issued, shown>>

\* Any other answer.
Tell(c) == Clear(c) /\ UNCHANGED <<issued, owner>>

Next ==
  \/ \E s \in SessionIds, c \in Conns : Issue(s, c) \/ Serve(s, c)
  \/ \E s \in SessionIds : Retire(s)
  \/ \E c \in Conns : Tell(c)

Spec == Init /\ [][Next]_registryVars

==============================================================================
