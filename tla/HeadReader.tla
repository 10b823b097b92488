----------------------------- MODULE HeadReader -----------------------------
(***************************************************************************)
(* How the two servers read the heads of requests from a connection, byte  *)
(* by byte: recvUntil and Base::parseThis of base.cpp, read_until and      *)
(* Request.unparse of base.py.  Requests are written by Request.parse of   *)
(* base.py, the only writer of them.  A request has no body.               *)
(***************************************************************************)
EXTENDS Naturals, SequencesExt

CONSTANTS
  Readers,  \* of "cpp" and "python"
  MaxLine,  \* the most recvUntil reads, 1024
  Sent,     \* what peers may send: sequences of requests
  Garbled   \* and sequences of bytes that are no requests

\* "A" is any capital letter, "V" any version "d.d".
Byte == {"A", "V", "SP", "COLON", "CR", "LF", "NUL"}
CRLF == <<"CR", "LF">>
RequestType == [method: Seq(Byte), url: Seq(Byte), headers: Seq(Seq(Byte) \X Seq(Byte))]

\* Request.parse takes the headers from a dict.
KeysDiffer(hs) == \A i, j \in DOMAIN hs : hs[i][1] = hs[j][1] => i = j

ASSUME HeadAssumption ==
  /\ Readers \subseteq {"cpp", "python"}
  /\ MaxLine \in Nat /\ MaxLine > Len(CRLF)
  /\ Sent \subseteq Seq(RequestType)
  /\ \A s \in Sent : \A i \in DOMAIN s : KeysDiffer(s[i].headers)
  /\ Garbled \subseteq Seq(Byte)

VARIABLES
  reader,   \* the server
  sent,     \* the requests the peer sends
  bytes,    \* what they look like on the wire
  fin,      \* the peer closes after them
  at,       \* how many of the bytes were received
  line,     \* what recvUntil or read_until has gathered
  ended,    \* its loop has ended
  stage,    \* what the line is read for
  head,     \* what was parsed of the request
  heads     \* the requests the server got to handle

peer == <<reader, sent, bytes, fin>>
vars == <<peer, at, line, ended, stage, head, heads>>

RequestLine(r) == r.method \o <<"SP">> \o r.url \o <<"SP", "V">> \o CRLF
HeaderLine(h) == h[1] \o <<"COLON">> \o h[2] \o CRLF

\* Without headers, the empty join leaves a line end besides the blank line.
Written(r) ==
  RequestLine(r)
    \o (IF r.headers = <<>> THEN CRLF
        ELSE FlattenSeq([i \in DOMAIN r.headers |-> HeaderLine(r.headers[i])]))
    \o CRLF

NoHead == [method |-> <<>>, url |-> <<>>, headers |-> <<>>]

Init ==
  /\ reader \in Readers
  /\ \/ sent \in Sent /\ bytes = FlattenSeq([i \in DOMAIN sent |-> Written(sent[i])])
     \/ sent = <<>> /\ bytes \in Garbled
  /\ fin \in BOOLEAN
  /\ at = 0
  /\ line = <<>> /\ ended = FALSE
  /\ stage = "request"
  /\ head = NoHead /\ heads = <<>>

-----------------------------------------------------------------------------
(* Lines                                                                   *)

\* Mutant: the limit is compared with the bytes before this one.
FullOneLater(l) == Len(l) = MaxLine + 1
Full(l) == Len(l) = MaxLine

Reading == stage # "refused" /\ ~ended

\* A first byte is compared with the delimiter too, with a byte from before the
\* buffer, which may be a CR.
Recv ==
  /\ Reading /\ at < Len(bytes)
  /\ at' = at + 1
  /\ line' = Append(line, bytes[at + 1])
  /\ \/ ended' = (IsSuffix(CRLF, line') \/ (reader = "cpp" /\ Full(line')))
     \/ reader = "cpp" /\ line' = <<"LF">> /\ ended' = TRUE
  /\ UNCHANGED <<peer, stage, head, heads>>

\* At the end of the connection recv returns 0: recvUntil takes that for a byte.
\* Mutant: it does not.
RecvEofWaits == UNCHANGED <<line, ended>>
RecvEof ==
  \/ reader = "python" /\ ended' = TRUE /\ UNCHANGED line
  \/ reader = "cpp" /\ line' = Append(line, "NUL") /\ ended' = Full(line')

Eof ==
  /\ Reading /\ fin /\ at = Len(bytes)
  /\ RecvEof
  /\ UNCHANGED <<peer, at, stage, head, heads>>

-----------------------------------------------------------------------------
(* Parsing                                                                 *)

Where(s, b) == {i \in DOMAIN s : s[i] = b}

Trim(s, blanks) ==
  LET K == {i \in DOMAIN s : s[i] \notin blanks}
  IN IF K = {} THEN <<>> ELSE SubSeq(s, Min(K), Max(K))

\* Where `while (*tmp++ != d && *tmp != '\0')`, begun at p, leaves tmp.
Scan(text, p, d) ==
  Min({q \in (p + 1)..Len(text) : text[q - 1] = d \/ text[q] = "NUL"} \cup {Len(text)})

\* Mutant: only the first scan is checked for the end of the text.
UncheckedParts(l, ds) ==
  LET text == Append(l, "NUL")
      cut[i \in 0..Len(ds)] == IF i = 0 THEN 1 ELSE Scan(text, cut[i - 1], ds[i])
  IN IF text[cut[1]] = "NUL" THEN <<>>
     ELSE [i \in DOMAIN ds |-> SubSeq(text, cut[i - 1], cut[i] - 2)]
\* The parts of a line of recvUntil up to each of the delimiters ds; none if the
\* text ends behind one of them, or before.
Parts(l, ds) ==
  LET text == Append(l, "NUL")
      cut[i \in 0..Len(ds)] == IF i = 0 THEN 1 ELSE Scan(text, cut[i - 1], ds[i])
  IN IF \E i \in DOMAIN ds : text[cut[i]] = "NUL" THEN <<>>
     ELSE [i \in DOMAIN ds |-> SubSeq(text, cut[i - 1], cut[i] - 2)]

\* sscanf(version, "%d.%d") = 2
IsVersion(v) == LET w == Trim(v, {"SP", "LF"}) IN w # <<>> /\ w[1] = "V"

CppRequest(l) ==
  LET p == Parts(l, <<"SP", "SP", "CR">>)
  IN IF p # <<>> /\ IsVersion(p[3]) THEN <<p[1], p[2]>> ELSE <<>>

CppHeader(l) ==
  LET p == Parts(l, <<"COLON", "CR">>)
  IN IF p = <<>> THEN <<>> ELSE <<Trim(p[1], {"SP"}), Trim(p[2], {"SP"})>>

\* What `$` leaves to the expressions; "." is no LF.
Matched(l) == IF IsSuffix(<<"LF">>, l) THEN Front(l) ELSE l
Dots(s) == Where(s, "LF") = {}

\* RequestHead_re: a method of capitals up to the first space, a url up to the
\* last one that has something behind it.
PyRequest(l) ==
  LET s == Matched(l)
      gap == {i \in Where(s, "SP") : i > 1 /\ \A k \in 1..(i - 1) : s[k] = "A"}
      last == {j \in Where(s, "SP") : (\E i \in gap : j > i + 1) /\ j < Len(s)}
  IN IF Dots(s) /\ last # {}
     THEN <<SubSeq(s, 1, Min(gap) - 1), SubSeq(s, Min(gap) + 1, Max(last) - 1)>>
     ELSE <<>>

\* Mutant: a greedy key, up to the last colon.
PyHeaderGreedy(l) ==
  LET s == Matched(l)
      colon == {c \in Where(s, "COLON") : c > 1 /\ c < Len(s)}
  IN IF Dots(s) /\ colon # {}
     THEN <<Trim(SubSeq(s, 1, Max(colon) - 1), {"SP", "CR", "LF"}),
            Trim(SubSeq(s, Max(colon) + 1, Len(s)), {"SP", "CR", "LF"})>>
     ELSE <<>>
\* BaseHeader_re: the first colon that has something on both sides.
PyHeader(l) ==
  LET s == Matched(l)
      colon == {c \in Where(s, "COLON") : c > 1 /\ c < Len(s)}
  IN IF Dots(s) /\ colon # {}
     THEN <<Trim(SubSeq(s, 1, Min(colon) - 1), {"SP", "CR", "LF"}),
            Trim(SubSeq(s, Min(colon) + 1, Len(s)), {"SP", "CR", "LF"})>>
     ELSE <<>>

RequestParts(l) == IF reader = "cpp" THEN CppRequest(l) ELSE PyRequest(l)
HeaderParts(l) == IF reader = "cpp" THEN CppHeader(l) ELSE PyHeader(l)
Blank(l) == reader = "cpp" /\ l = CRLF

NextLine(s) ==
  /\ ended
  /\ line' = <<>> /\ ended' = FALSE
  /\ stage' = s
  /\ UNCHANGED <<peer, at>>

SkipBlank ==
  /\ stage = "request" /\ Blank(line)
  /\ NextLine("request")
  /\ UNCHANGED <<head, heads>>

ReadRequest ==
  /\ stage = "request" /\ RequestParts(line) # <<>>
  /\ NextLine("headers")
  /\ head' = [NoHead EXCEPT !.method = RequestParts(line)[1], !.url = RequestParts(line)[2]]
  /\ UNCHANGED heads

\* headers[key] = value
Set(h, k, v) == [x \in DOMAIN h \cup {k} |-> IF x = k THEN v ELSE h[x]]

ReadHeader ==
  /\ stage = "headers" /\ ~Blank(line) /\ HeaderParts(line) # <<>>
  /\ NextLine("headers")
  /\ head' = [head EXCEPT !.headers = Set(@, HeaderParts(line)[1], HeaderParts(line)[2])]
  /\ UNCHANGED heads

\* A blank line ends a head, or in Python any line that is no header.
EndOfHead ==
  /\ stage = "headers"
  /\ Blank(line) \/ (reader = "python" /\ HeaderParts(line) = <<>>)
  /\ NextLine("request")
  /\ heads' = Append(heads, head)
  /\ UNCHANGED head

\* "parse error" and a 400, or "Invalid head" and the end of the worker.
Refuse ==
  /\ ~Blank(line)
  /\ \/ stage = "request" /\ RequestParts(line) = <<>>
     \/ stage = "headers" /\ reader = "cpp" /\ HeaderParts(line) = <<>>
  /\ NextLine("refused")
  /\ UNCHANGED <<head, heads>>

Next == Recv \/ Eof \/ SkipBlank \/ ReadRequest \/ ReadHeader \/ EndOfHead \/ Refuse

Spec == Init /\ [][Next]_vars

\* The thread that reads is scheduled.
FairSpec == Spec /\ WF_vars(Next)

TypeOK ==
  /\ reader \in Readers /\ fin \in BOOLEAN
  /\ sent \in Sent \cup {<<>>}
  /\ bytes \in Seq(Byte)
  /\ at \in 0..Len(bytes)
  /\ line \in Seq(Byte) /\ ended \in BOOLEAN
  /\ reader = "cpp" => Len(line) <= MaxLine
  /\ stage \in {"request", "headers", "refused"}
  /\ \A h \in {head} \cup ToSet(heads) : h.method \in Seq(Byte) /\ h.url \in Seq(Byte)

-----------------------------------------------------------------------------
(* Properties                                                              *)

Without(s, S) == \A i \in DOMAIN s : s[i] \notin S
Trimmed(s) == Trim(s, {"SP"}) = s

\* The requests both the client means and the server can tell apart: a method of
\* capitals, a url in one word, keys without a colon; for C++ in lines that fit,
\* for Python with a header unless nothing follows (base.py:119-122).
WellFormed(i) ==
  LET r == sent[i]
  IN /\ r.method # <<>> /\ \A k \in DOMAIN r.method : r.method[k] = "A"
     /\ r.url # <<>> /\ Without(r.url, {"CR", "LF", "NUL"})
     /\ reader = "cpp" => Without(r.url, {"SP"}) /\ Len(RequestLine(r)) <= MaxLine
     /\ reader = "python" => r.headers # <<>> \/ i = Len(sent)
     /\ \A h \in ToSet(r.headers) :
          /\ h[1] # <<>> /\ Without(h[1], {"COLON", "CR", "LF", "NUL"}) /\ Trimmed(h[1])
          /\ Without(h[2], {"CR", "LF", "NUL"}) /\ Trimmed(h[2])
          /\ reader = "cpp" => Len(HeaderLine(h)) <= MaxLine

Meant(r) ==
  [method |-> r.method, url |-> r.url,
   headers |-> [k \in {h[1] : h \in ToSet(r.headers)} |->
                  (CHOOSE h \in ToSet(r.headers) : h[1] = k)[2]]]

\* Requests sent one after the other are read one after the other, each with its
\* own method, url and headers, and none is left over or refused: every head
\* ends where the next one begins (base.cpp:208-280, base.py:92-117).
ParsesAsSent ==
  (sent # <<>> /\ \A i \in DOMAIN sent : WellFormed(i)) =>
    /\ IsPrefix(heads, [i \in DOMAIN sent |-> Meant(sent[i])])
    /\ stage = "refused" \/ (at = Len(bytes) /\ line = <<>>) => Len(heads) = Len(sent)

\* The C++ server only takes a head for complete at a blank line of the peer's,
\* and never at a line end that recvUntil cut off a line too long for it, unless
\* a CR stands alone (base.cpp:103-131, 237-276).
HeadEndsAtBlankLine ==
  LET taken == SubSeq(bytes, 1, at)
      alone == {i \in Where(taken, "CR") : i < at /\ taken[i + 1] # "LF"}
  IN reader = "cpp" /\ heads # <<>> /\ stage = "request" /\ line = <<>> /\ alone = {}
       => IsSuffix(CRLF \o CRLF, taken)

\* A server always notices that its peer has closed, whatever came before: the
\* thread is given back (base.cpp:107-124, base.py:32-34).
NoticesEnd == fin ~> stage = "refused"

\* A bound of the steps the server still takes once all bytes were received: the
\* line they end in, then lines of what recv returns at the end.
StepsLeft ==
  IF stage = "refused" THEN 0
  ELSE IF reader = "cpp"
       THEN (IF Where(line, "NUL") = DOMAIN line THEN 0 ELSE MaxLine + 2) + MaxLine + 1 - Len(line)
       ELSE 2 * (IF line # <<>> THEN 3 ELSE IF stage = "headers" THEN 2 ELSE 1)
              - (IF ended THEN 1 ELSE 0)

\* From there on each step, a recv that returns 0 included, brings the refusal
\* nearer: neither loop goes on for ever (base.cpp:107-124, base.py:32-34).
NearsEnd == [][at = Len(bytes) => StepsLeft' \in 0..(StepsLeft - 1)]_vars

=============================================================================
