------------------------------- MODULE DianWire -------------------------------
(***************************************************************************)
(* One connection between the Python client (client.py) and a server: how  *)
(* the client tells one response from the next.  The server sends a head   *)
(* and a body as module PlayRange computes them; TCP delivers the bytes in *)
(* order, in pieces of any size; the client reads a head line by line, and *)
(* the body with a SocketStreamReader limited by Content-Length, whose     *)
(* read() makes one recv (base.py:48-55) and whose __del__ reads what is   *)
(* left (base.py:64-65).                                                   *)
(***************************************************************************)
EXTENDS PlayRange, Sequences

CONSTANTS
  Servers,     \* of "python" (base.py) and "cpp" (server-main.cpp, testc-cpp.py)
  Sizes,       \* sizes of the file played
  Positions,   \* the starts and ends of the ranges asked for
  MaxRequests  \* bound: requests on the connection

ASSUME WireAssumption ==
  /\ Servers \subseteq {"python", "cpp"}
  /\ Sizes \subseteq Nat /\ Positions \subseteq Nat /\ MaxRequests \in Nat

Ranges == [start: Positions, end: Positions \cup {NoEnd}]
Options == [start |-> -1, end |-> 0]
PlayAll == [start |-> -1, end |-> 1]
Requests == Ranges \cup {Options, PlayAll}

VARIABLES
  server,   \* which of the servers it is
  size,     \* of the file
  stream,   \* the bytes on their way to the client, in pieces
  serving,  \* the worker that serves the connection is alive
  asked,    \* the last request
  sent,     \* how many requests were sent
  phase,    \* of the client
  reader,   \* its SocketStreamReader of the last response: _max_read, _have_read
  old,      \* that of the response before, not yet collected
  got,      \* the bytes the last response's reader returned
  clean,    \* history: the requests before the last one were harmless, and every
            \* body was read, in one piece
  stole     \* history: the reader of a response took bytes of the next one

vars == <<server, size, stream, serving, asked, sent, phase, reader, old, got, clean, stole>>
serverVars == <<server, size, serving>>

Piece == [kind: {"head", "blank", "body"}, n: Int]
StatusHead(n) == [kind |-> "head", n |-> n]    \* n: Content-Length, -1 without one
Blank == [kind |-> "blank", n |-> 2]     \* an empty line after the end of a head
Body(n) == IF n > 0 THEN <<[kind |-> "body", n |-> n]>> ELSE <<>>

NewReader(n) == [max |-> n, have |-> 0]
NoReader == NewReader(-1)

\* readall() returns b'' at once: no limit, or read up to it.
Exhausted(r) == r.max = -1 \/ r.have = r.max

\* Mutant: one byte more than is left.
ToReadOneMore(r) == r.max - r.have + 1

\* What read() asks recv for, and counts as read (base.py:53-54).
ToRead(r) == r.max - r.have

\* The requests whose answer is as long as announced.
Harmless(r) ==
  IF server = "python"
  THEN r = PlayAll \/ (r \in Ranges /\ r.end > 0 /\ InFile(size, r.start, r.end))
  ELSE ~(r \in Ranges /\ r.start <= size /\ r.end = size)

TypeOK ==
  /\ server \in Servers
  /\ size \in Sizes
  /\ stream \in Seq(Piece)
  /\ serving \in BOOLEAN
  /\ asked \in Requests
  /\ sent \in 0..MaxRequests
  /\ phase \in {"idle", "waiting", "draining", "failed"}
  /\ \A r \in {reader, old} :
       /\ r \in [max: Int, have: Nat]
       /\ r.have \in {0, r.max}
  /\ got \in Nat /\ got <= reader.have
  /\ clean \in BOOLEAN /\ stole \in BOOLEAN

\* After SETUP: the head of its response was read, and has no body.
Init ==
  /\ server \in Servers
  /\ size \in Sizes
  /\ stream = <<>>
  /\ serving = TRUE
  /\ asked = PlayAll
  /\ sent = 0
  /\ phase = "idle"
  /\ reader = NoReader /\ old = NoReader
  /\ got = 0
  /\ clean = TRUE /\ stole = FALSE

\* One of those requests was not, or one of those bodies was not.
Slipped == ~clean \/ (sent > 0 /\ ~Harmless(asked))

-----------------------------------------------------------------------------
(* The server                                                              *)

Outcome(r) ==
  IF r = Options THEN Refused(200)
  ELSE IF server = "python"
       THEN IF r = PlayAll THEN PyPlayAll(size) ELSE PyPlay(size, r.start, r.end)
       ELSE IF r = PlayAll THEN CppPlayAll(size) ELSE CppPlay(size, r.start, r.end)

\* A response without headers has one line end too many in Response.parsehead,
\* whose join of no headers is an empty line (base.py:147).
Bare(r) == server = "python" /\ r = Options

\* The bytes of a response; C++ answers without a body carry no Content-Length.
Response(r) ==
  LET o == Outcome(r) IN
  IF Bare(r) THEN <<StatusHead(-1), Blank>>
  ELSE IF o.status \in {200, 206} /\ r # Options
       THEN <<StatusHead(o.announced)>> \o Body(o.sent)
       ELSE <<StatusHead(-1)>>

\* The client sends a request; the server answers it, or its worker dies of an
\* exception, and the Session left in the dict keeps the socket open: later
\* requests are sent all right and never answered.
Ask(r) ==
  /\ phase = "idle"
  /\ sent < MaxRequests
  /\ sent' = sent + 1
  /\ asked' = r
  /\ phase' = "waiting"
  /\ serving' = (serving /\ ~Outcome(r).raised)
  /\ stream' = stream \o (IF serving /\ Outcome(r).status # 0 THEN Response(r) ELSE <<>>)
  /\ clean' = (~Slipped /\ Exhausted(reader))
  /\ UNCHANGED <<server, size, reader, old, got, stole>>

-----------------------------------------------------------------------------
(* The client                                                              *)

\* The head is accepted; the response of the request before it is collected.
Accepted(rest, n) ==
  /\ stream' = rest
  /\ old' = reader
  /\ reader' = NewReader(n)
  /\ got' = 0
  /\ phase' = IF Exhausted(reader) THEN "idle" ELSE "draining"

\* Response.unparse: a status line, or what is left of an earlier body, which
\* the greedy `version` of ResponseHead_re may take for part of one, or not.
ReadHead ==
  /\ phase = "waiting" /\ stream # <<>>
  /\ LET first == stream[1] IN
     \/ first.kind = "head" /\ Accepted(Tail(stream), first.n)
     \/ /\ first.kind = "body" /\ Len(stream) > 1 /\ stream[2].kind = "head"
        /\ Accepted(Tail(Tail(stream)), stream[2].n)
     \/ /\ first.kind # "head"
        /\ phase' = "failed"
        /\ UNCHANGED <<stream, reader, old, got>>
  /\ UNCHANGED <<serverVars, asked, sent, clean, stole>>

\* One recv of at most k > 0 bytes takes m of them.
Recv(k, m) ==
  /\ stream # <<>>
  /\ m <= k /\ m <= stream[1].n
  /\ stream' = IF m = stream[1].n THEN Tail(stream)
               ELSE [stream EXCEPT ![1].n = @ - m]

\* SocketStreamReader.read counts the bytes it asked for, not those it got; the
\* recv of a negative number raises.
ReadAll ==
  /\ phase = "idle" /\ ~Exhausted(reader)
  /\ \/ \E m \in 1..ToRead(reader) :
          /\ Recv(ToRead(reader), m)
          /\ got' = got + m
          /\ clean' = (clean /\ m = reader.max)
          /\ reader' = [reader EXCEPT !.have = @ + ToRead(reader)]
          /\ UNCHANGED phase
     \/ /\ ToRead(reader) < 0
        /\ phase' = "failed"
        /\ UNCHANGED <<stream, reader, got, clean>>
  /\ UNCHANGED <<serverVars, asked, sent, old, stole>>

\* __del__ of a reader nobody read.  It has something left to read: a negative length
\* is announced only by the answer whose body ends its worker, so that no head comes
\* after it and the reader is not collected on this connection.
Drain ==
  /\ phase = "draining"
  /\ \E m \in 1..ToRead(old) : Recv(ToRead(old), m)
  /\ stole' = TRUE
  /\ phase' = "idle"
  /\ old' = NoReader
  /\ UNCHANGED <<serverVars, asked, sent, reader, got, clean>>

Next == (\E r \in Requests : Ask(r)) \/ ReadHead \/ ReadAll \/ Drain

Spec == Init /\ [][Next]_vars

-----------------------------------------------------------------------------
(* Properties                                                              *)

\* As long as every request was harmless, and every body was read and came in one
\* piece, each response is found where it begins (Response.unparse, base.py:150)
\* and its body is what readall() returned, to the last byte.
InStep ==
  ~Slipped =>
    /\ phase = "waiting" => stream # <<>> /\ stream[1].kind = "head"
    /\ phase = "idle" /\ Exhausted(reader) =>
         stream = <<>> /\ (reader.max >= 0 => got = reader.max)

\* Blocked in recv with nothing to come: the client waits for ever.
Stuck ==
  /\ stream = <<>>
  /\ \/ phase = "waiting"
     \/ phase = "draining" /\ old.max > 0
     \/ phase = "idle" /\ reader.max > 0 /\ ~Exhausted(reader)

\* The client fails to parse a response, blocks for ever, or takes bytes of one
\* response for those of the one before, only after one of those slips.
HarmNeedsSlip == phase = "failed" \/ Stuck \/ stole => Slipped

\* readall() returns the announced body, to the last byte (DETAIL.md:36).
ReadAllReturnsAll ==
  phase = "idle" /\ reader.max >= 0 /\ reader.have = reader.max => got = reader.max

\* Without a slip: the client waits for just the answer to its request, or has
\* read a head and finds just the body it announces, or all was read.
InPlace ==
  /\ serving /\ ~stole
  /\ \/ phase = "waiting" /\ sent > 0 /\ Exhausted(reader) /\ stream = Response(asked)
     \/ phase = "idle" /\ Exhausted(reader) /\ stream = <<>> /\ (reader.max >= 0 => got = reader.max)
     \/ phase = "idle" /\ reader.max > 0 /\ reader.have = 0 /\ got = 0 /\ stream = Body(reader.max)

\* The inductive invariant: where the client is in the stream (base.py:48-65,
\* 149-173).
WireInv ==
  /\ TypeOK
  /\ ~Slipped => InPlace

\* The connection is an exchange of requests for their own answers: the pieces,
\* and the readers that count what they asked for, do not show (base.py:48-65).
Promised == INSTANCE Exchange WITH
  length <- [r \in Requests |-> Response(r)[1].n],
  turn <- IF phase = "waiting" THEN "answer"
          ELSE IF phase = "idle" /\ ~Exhausted(reader) THEN "body" ELSE "client",
  told <- reader.max,
  lost <- Slipped

ImplementsExchange == Promised!Spec

===============================================================================
