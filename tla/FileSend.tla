------------------------------ MODULE FileSend ------------------------------
(***************************************************************************)
(* How the C++ server sends a file, or a range of it, as the body of a     *)
(* response: the loop of socket::send(StreamReader&) over the read of a    *)
(* FileStreamReader or a RangeFileStreamReader (base.cpp), on the stream   *)
(* server-main.cpp opens.  That stream is a text stream: on Windows its    *)
(* positions count bytes of the file, but reading makes one character of a *)
(* CR LF, so a read can come short, which sets failbit, and the tellg of a *)
(* failed stream is -1.  A buffer is sent whole however short the read was.*)
(***************************************************************************)
EXTENDS PlayRange, FiniteSets

CONSTANTS
  Sizes,      \* sizes of the file
  Positions,  \* the starts and ends of the ranges asked for
  Chunk,      \* what send() asks read() for, 1024
  MaxSent     \* bound: on the bytes sent, which the loop itself does not bound

ASSUME FileSendAssumption ==
  /\ Sizes \subseteq Nat /\ Positions \subseteq Nat
  /\ Chunk \in Nat \ {0}
  /\ MaxSent \in Nat

VARIABLES
  size,    \* filesize
  crlf,    \* the positions of the CR LF of the file
  wide,    \* the build: size_t has 64 bits (x64), not 32 (Win32)
  ranged,  \* the reader is a RangeFileStreamReader
  start, limit,  \* its start and end, one past the end asked for
  pos,     \* where the stream is
  failed,  \* its failbit
  sent,    \* bytes sent
  good,    \* history: those of them that were read from the file
  phase

file == <<size, crlf, wide, ranged, start, limit>>
vars == <<file, pos, failed, sent, good, phase>>

Init ==
  /\ size \in Sizes
  /\ crlf \in SUBSET {p \in 0..size : p + 2 <= size}
  /\ \A p \in crlf : p + 1 \notin crlf
  /\ wide \in BOOLEAN
  /\ \/ ranged = FALSE /\ start = 0 /\ limit = size
     \/ /\ ranged = TRUE
        /\ \E first, last \in Positions :
             /\ CppPlay(size, first, last).status = 206
             /\ start = first /\ limit = last + 1
  /\ pos = start
  /\ failed = FALSE
  /\ sent = 0 /\ good = 0
  /\ phase = "sending"

TypeOK ==
  /\ size \in Nat /\ crlf \in SUBSET (0..size)
  /\ wide \in BOOLEAN /\ ranged \in BOOLEAN
  /\ start \in 0..size /\ limit \in start..(size + 1)
  /\ pos \in start..size
  /\ failed \in BOOLEAN
  /\ sent \in Nat /\ good \in Nat
  /\ phase \in {"sending", "done", "raised"}

\* Content-Length (maxlen).
Announced == IF ranged THEN limit - start ELSE size

\* The characters between two positions, and where a read may stop.
Chars(p, q) == q - p - Cardinality({l \in crlf : p <= l /\ l + 2 <= q})
\* Mutant: one past the end of the file.
StopsPastEnd(p) == {q \in p..(size + 1) : q = p \/ q - 1 \notin crlf \/ q - 1 < p}
Stops(p) == {q \in p..size : q = p \/ q - 1 \notin crlf \/ q - 1 < p}

\* Mutants: `end` is not looked at; the position is not.
LeftUnlimited == IF failed THEN size + 1 ELSE size - pos
LeftFromSize == IF ranged /\ (failed \/ pos >= limit) THEN 0 ELSE size

\* The size of the buffer the next read(Chunk) returns, if Chunk is more.  Once
\* the stream has failed, tellg() is -1.  Compared with `end` it is unsigned, and
\* past it, only if size_t is as wide as a position; else one byte more is left
\* than there is up to `end`, or in the file.
Left ==
  IF failed
  THEN IF ranged THEN IF wide THEN 0 ELSE Least(limit, size) + 1 ELSE size + 1
  ELSE IF ranged THEN IF pos >= limit THEN 0 ELSE Least(limit, size) - pos
  ELSE size - pos

Asked == Least(Chunk, Left)

\* An empty buffer ends the loop.
Finish ==
  /\ phase = "sending" /\ Asked = 0
  /\ phase' = "done"
  /\ UNCHANGED <<file, pos, failed, sent, good>>

\* The stream has the characters asked for, ...
ReadFull ==
  /\ ~failed
  /\ \E q \in Stops(pos) : Chars(pos, q) = Asked /\ pos' = q
  /\ good' = good + Asked
  /\ UNCHANGED failed

\* ... or comes to the end of the file, ...
ReadShort ==
  /\ ~failed
  /\ \A q \in Stops(pos) : Chars(pos, q) # Asked
  /\ pos' = size
  /\ good' = good + Chars(pos, size)
  /\ failed' = TRUE

\* ... or reads nothing, having failed before.
ReadNone == failed /\ UNCHANGED <<pos, good, failed>>

SendChunk ==
  /\ phase = "sending" /\ Asked > 0
  /\ sent + Asked <= MaxSent
  /\ ReadFull \/ ReadShort \/ ReadNone
  /\ sent' = sent + Asked
  /\ UNCHANGED <<file, phase>>

\* SendError: the peer has reset the connection.
SendFails ==
  /\ phase = "sending" /\ Asked > 0
  /\ phase' = "raised"
  /\ UNCHANGED <<file, pos, failed, sent, good>>

Next == Finish \/ SendChunk \/ SendFails

Spec == Init /\ [][Next]_vars

\* The thread that sends is scheduled.
FairSpec == Spec /\ WF_vars(Finish \/ SendChunk)

-----------------------------------------------------------------------------
(* Properties                                                              *)

Computed == IF ranged THEN CppPlay(size, start, limit - 1) ELSE CppPlayAll(size)

\* A file without CR LF: the loop sends, chunk by chunk, just the bytes that
\* PlayRange computes in one go, all from the file (base.cpp:328-335, 475-486,
\* RangeFileStreamReader::read).
SendsAsComputed ==
  crlf = {} =>
    /\ sent <= Computed.sent /\ good = sent /\ ~failed
    /\ phase = "done" => sent = Computed.sent

\* A range sends no more than Content-Length announces, with CR LF or not, in a
\* 64-bit build (RangeFileStreamReader::read).
NeverPastRange == ranged /\ wide => sent <= Announced

\* The loop ends by itself, except for a file with CR LF that is sent whole, or
\* by a 32-bit build (base.cpp:330, once tellg is -1).
Ends == (ranged /\ wide) \/ crlf = {} ~> phase # "sending"

=============================================================================
