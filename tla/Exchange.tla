------------------------------ MODULE Exchange ------------------------------
(***************************************************************************)
(* What a connection promises the client that plays by its rules: requests *)
(* are answered one by one, each with the length that goes with just that  *)
(* request, and the body then read is just as long.  Once something has    *)
(* slipped it promises nothing any more.                                   *)
(***************************************************************************)
EXTENDS Integers

CONSTANT Requests

VARIABLES
  length,  \* what the server announces for each request, -1 for no body
  turn,    \* of the "client" to ask, or an "answer" or a "body" is to be read
  asked,   \* the last request
  told,    \* the length in the last answer read
  got,     \* the bytes read of its body
  lost     \* something has slipped

exchangeVars == <<length, turn, asked, told, got, lost>>

Init ==
  /\ length \in [Requests -> Int]
  /\ turn = "client" /\ asked \in Requests
  /\ told = -1 /\ got = 0
  /\ lost = FALSE

Ask(r) ==
  /\ turn = "client" /\ turn' = "answer"
  /\ asked' = r
  /\ UNCHANGED <<told, got>>

Answer ==
  /\ turn = "answer" /\ turn' = IF told' > 0 THEN "body" ELSE "client"
  /\ told' = length[asked] /\ got' = 0
  /\ UNCHANGED asked

Take ==
  /\ turn = "body" /\ turn' = "client"
  /\ got' = told
  /\ UNCHANGED <<asked, told>>

InTurn == ~lost /\ ~lost' /\ ((\E r \in Requests : Ask(r)) \/ Answer \/ Take)

Slip == lost'

Next == UNCHANGED length /\ (InTurn \/ Slip)

Spec == Init /\ [][Next]_exchangeVars

=============================================================================
