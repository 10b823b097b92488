--------------------------- MODULE DianWireProofs ---------------------------
(***************************************************************************)
(* Proofs about DianWire, for either server, files and ranges of any size  *)
(* and any number of requests.                                             *)
(***************************************************************************)
EXTENDS DianWire, SequenceTheorems, TLAPS

Answers == [status: Int, announced: Int, sent: Int, raised: BOOLEAN]

LEMMA RequestTypes ==
  ASSUME NEW r \in Requests
  PROVE  /\ r \in [start: Int, end: Int]
         /\ r \in Ranges <=> r \notin {Options, PlayAll}
         /\ r \in Ranges => r.start \in Nat /\ (r.end \in Nat \/ r.end = NoEnd)
<1>1. Positions \subseteq Nat
  BY WireAssumption DEF WireAssumption
<1>2. \A q \in Ranges :
        q \in [start: Int, end: Int] /\ q.start \in Nat /\ (q.end \in Nat \/ q.end = NoEnd)
  <2> SUFFICES ASSUME NEW q \in Ranges
               PROVE  /\ q \in [start: Int, end: Int] /\ q.start \in Nat
                      /\ q.end \in Nat \/ q.end = NoEnd
    OBVIOUS
  <2>1. /\ q = [start |-> q.start, end |-> q.end]
        /\ q.start \in Positions /\ q.end \in Positions \cup {NoEnd}
    BY DEF Ranges
  <2>2. q.start \in Nat /\ (q.end \in Nat \/ q.end = NoEnd) /\ q.end \in Int
    BY <1>1, <2>1 DEF NoEnd
  <2> QED
    BY <2>1, <2>2
<1>3. \A q \in {Options, PlayAll} : q \in [start: Int, end: Int] /\ q.start \notin Nat
  BY DEF Options, PlayAll
<1> QED
  BY <1>2, <1>3 DEF Requests

\* What a server makes of a request is a record of integers.
LEMMA OutcomeType ==
  ASSUME TypeOK, NEW r \in Requests
  PROVE  Outcome(r) \in Answers
<1>1. size \in Nat
  BY WireAssumption DEF TypeOK, WireAssumption
<1>2. \A n, a, b \in Int : Answered(n, a, b) \in Answers
  BY DEF Answered, Answers
<1>3. \A n \in Int : Refused(n) \in Answers
  BY <1>2 DEF Refused
<1>4. CASE r \in {Options, PlayAll}
  BY <1>1, <1>2, <1>3, <1>4 DEF Outcome, PyPlayAll, CppPlayAll
<1>5. CASE r \in Ranges
  <2>1. r.start \in Int /\ r.end \in Int
    BY RequestTypes
  <2>2. /\ \A a \in Int : Rest(size, a) \in Int
        /\ \A a, b \in Int : Least(a, b) \in Int
    BY <1>1 DEF Rest, Least
  <2>3. PyPlay(size, r.start, r.end) \in Answers
    <3>1. PyEnd(size, r.end) \in Int
      BY <1>1, <2>1 DEF PyEnd
    <3>2. \A a \in Int : RaisedAfterHead(a) \in Answers
      BY DEF RaisedAfterHead, Answers
    <3>3. RaisedBeforeHead \in Answers
      BY DEF RaisedBeforeHead, Answers
    <3> DEFINE length == PyEnd(size, r.end) + 1 - r.start
    <3>4. length \in Int
      BY <2>1, <3>1
    <3> HIDE DEF length
    <3>5. Rest(size, r.start) \in Int /\ Least(length, Rest(size, r.start)) \in Int
      BY <2>1, <2>2, <3>4
    <3>6. /\ RaisedAfterHead(length) \in Answers
          /\ Answered(206, length, Rest(size, r.start)) \in Answers
          /\ Answered(206, length, Least(length, Rest(size, r.start))) \in Answers
      BY <1>2, <3>2, <3>4, <3>5
    <3>7. PyPlay(size, r.start, r.end) \in
            {RaisedBeforeHead, RaisedAfterHead(length), Answered(206, length, Rest(size, r.start)),
             Answered(206, length, Least(length, Rest(size, r.start)))}
      BY DEF PyPlay, length
    <3> QED
      BY <3>3, <3>6, <3>7
  <2>4. CppPlay(size, r.start, r.end) \in Answers
    <3>1. r.end + 1 - r.start \in Int
      BY <2>1
    <3>2. Least(r.end + 1 - r.start, Rest(size, r.start)) \in Int
      BY <2>1, <2>2, <3>1
    <3>3. Answered(206, r.end + 1 - r.start, Least(r.end + 1 - r.start, Rest(size, r.start))) \in Answers
      BY <1>2, <3>1, <3>2
    <3> QED
      BY <1>3, <3>3 DEF CppPlay
  <2> QED
    BY <1>1, <1>2, <1>5, <2>3, <2>4, RequestTypes DEF Outcome, PyPlayAll, CppPlayAll
<1> QED
  BY <1>4, <1>5 DEF Requests

LEMMA BodyType ==
  ASSUME NEW n \in Int
  PROVE  Body(n) \in Seq(Piece)
<1>1. [kind |-> "body", n |-> n] \in Piece
  BY DEF Piece
<1>2. <<[kind |-> "body", n |-> n]>> \in Seq(Piece) /\ <<>> \in Seq(Piece)
  BY <1>1
<1> QED
  BY <1>2 DEF Body

LEMMA ResponseType ==
  ASSUME TypeOK, NEW r \in Requests
  PROVE  Response(r) \in Seq(Piece)
<1>1. /\ Outcome(r).announced \in Int /\ Outcome(r).sent \in Int
  BY OutcomeType DEF Answers
<1>2. \A n \in Int : <<StatusHead(n)>> \in Seq(Piece)
  BY DEF StatusHead, Piece
<1>3. <<StatusHead(-1), Blank>> \in Seq(Piece)
  BY DEF StatusHead, Blank, Piece
<1>4. <<StatusHead(Outcome(r).announced)>> \o Body(Outcome(r).sent) \in Seq(Piece)
  BY <1>1, <1>2, BodyType, ConcatProperties
<1> QED
  BY <1>2, <1>3, <1>4 DEF Response

\* A harmless request is answered by a head, and by just the body it announces.
LEMMA HarmlessResponse ==
  ASSUME TypeOK, NEW r \in Requests, Harmless(r)
  PROVE  /\ ~Outcome(r).raised /\ Outcome(r).status # 0
         /\ \/ Response(r) = <<StatusHead(-1)>>
            \/ \E n \in Nat : Response(r) = <<StatusHead(n)>> \o Body(n)
<1>1. size \in Nat /\ server \in {"python", "cpp"}
  BY WireAssumption DEF TypeOK, WireAssumption
<1>2. CASE r = Options
  <2>1. server = "cpp"
    BY <1>1, <1>2, RequestTypes DEF Harmless, PlayAll, Options
  <2>2. Outcome(r) = Refused(200) /\ Response(r) = <<StatusHead(-1)>>
    BY <1>2, <2>1 DEF Outcome, Response, Bare
  <2> QED
    BY <2>2 DEF Refused, Answered
<1>3. CASE r = PlayAll
  <2>1. r # Options
    BY <1>3 DEF PlayAll, Options
  <2>2. PICK n \in {200, 206} : Outcome(r) = Answered(n, size, size)
    BY <1>3, <2>1 DEF Outcome, PyPlayAll, CppPlayAll
  <2>3. Response(r) = <<StatusHead(size)>> \o Body(size)
    BY <2>1, <2>2 DEF Response, Bare, Answered
  <2>4. ~Outcome(r).raised /\ Outcome(r).status # 0
    BY <2>2 DEF Answered
  <2> QED
    BY <1>1, <2>3, <2>4
<1>4. CASE r \in Ranges
  <2>1. /\ r \notin {Options, PlayAll} /\ r.start \in Nat
        /\ r.end \in Nat \/ r.end = NoEnd
    BY <1>4, RequestTypes
  <2>2. \/ \E n \in Nat : Outcome(r) = Answered(206, n, n)
        \/ Outcome(r) \in {Refused(400), Refused(416)}
    <3>1. CASE server = "python"
      <4>1. Outcome(r) = PyPlay(size, r.start, r.end) /\ r.end \in Nat \ {0} /\ InFile(size, r.start, r.end)
        BY <1>4, <2>1, <3>1 DEF Outcome, Harmless, NoEnd
      <4>2. PyPlay(size, r.start, r.end) = Answered(206, r.end - r.start + 1, r.end - r.start + 1)
        BY <1>1, <2>1, <4>1 DEF PyPlay, PyEnd, InFile, NoEnd, Least, Rest
      <4> QED
        BY <2>1, <4>1, <4>2 DEF InFile
    <3>2. CASE server = "cpp"
      <4>1. Outcome(r) = CppPlay(size, r.start, r.end) /\ ~(r.start <= size /\ r.end = size)
        BY <1>4, <2>1, <3>2 DEF Outcome, Harmless
      <4>2. CASE r.end = NoEnd \/ r.end < r.start \/ r.start > size \/ r.end > size
        BY <4>1, <4>2 DEF CppPlay
      <4>3. CASE ~(r.end = NoEnd \/ r.end < r.start \/ r.start > size \/ r.end > size)
        <5>1. CppPlay(size, r.start, r.end) = Answered(206, r.end + 1 - r.start, r.end + 1 - r.start)
          BY <1>1, <2>1, <4>1, <4>3 DEF CppPlay, Least, Rest
        <5> QED
          BY <2>1, <4>1, <4>3, <5>1
      <4> QED
        BY <4>2, <4>3
    <3> QED
      BY <1>1, <3>1, <3>2
  <2>3. ASSUME NEW n \in Nat, Outcome(r) = Answered(206, n, n)
        PROVE  Response(r) = <<StatusHead(n)>> \o Body(n)
    BY <2>1, <2>3 DEF Response, Bare, Answered
  <2>4. CASE Outcome(r) \in {Refused(400), Refused(416)}
    BY <2>1, <2>4 DEF Response, Bare, Refused, Answered
  <2>5. ~Outcome(r).raised /\ Outcome(r).status # 0
    <3>1. \A n \in Nat : ~Answered(206, n, n).raised /\ Answered(206, n, n).status # 0
      BY DEF Answered
    <3>2. \A n \in {400, 416} : ~Refused(n).raised /\ Refused(n).status # 0
      BY DEF Refused, Answered
    <3> QED
      BY <2>2, <3>1, <3>2
  <2> QED
    BY <2>2, <2>3, <2>4, <2>5
<1> QED
  BY <1>2, <1>3, <1>4 DEF Requests

\* A head and what follows it.
LEMMA HeadAndRest ==
  ASSUME NEW x \in Piece, NEW rest \in Seq(Piece)
  PROVE  (<<x>> \o rest)[1] = x /\ Tail(<<x>> \o rest) = rest
<1> DEFINE s == <<x>> \o rest
<1>1. /\ s \in Seq(Piece) /\ Len(s) = 1 + Len(rest) /\ s[1] = x
      /\ \A i \in 1..Len(rest) : s[i + 1] = rest[i]
  <2>1. <<x>> \in Seq(Piece) /\ Len(<<x>>) = 1 /\ <<x>>[1] = x /\ Len(rest) \in Nat
    BY LenProperties
  <2> QED
    BY <2>1, ConcatProperties
<1> HIDE DEF s
<1>2. Tail(s) \in Seq(Piece) /\ Len(Tail(s)) = Len(rest) /\ \A i \in 1..Len(rest) : Tail(s)[i] = rest[i]
  <2>1. s # <<>> /\ Len(rest) \in Nat
    BY <1>1, LenProperties, EmptySeq
  <2> QED
    BY <1>1, <2>1, HeadTailProperties
<1>3. Tail(s) = rest
  BY <1>2, SeqEqual
<1> QED
  BY <1>1, <1>3 DEF s

-----------------------------------------------------------------------------
(* The invariant                                                           *)

LEMMA InitInv == Init => WireInv
<1> SUFFICES ASSUME Init PROVE WireInv
  OBVIOUS
<1>1. PlayAll \in Requests /\ 0 \in 0..MaxRequests
  BY WireAssumption DEF Requests, WireAssumption
<1>2. <<>> \in Seq(Piece) /\ NoReader \in [max: Int, have: Nat] /\ NoReader.have = 0 /\ Exhausted(NoReader)
  BY DEF NoReader, NewReader, Exhausted
<1>3. TypeOK
  <2>1. server \in Servers /\ size \in Sizes /\ stream \in Seq(Piece) /\ asked \in Requests /\ sent \in 0..MaxRequests
    BY <1>1, <1>2 DEF Init
  <2>2. \A r \in {reader, old} : r \in [max: Int, have: Nat] /\ r.have \in {0, r.max}
    BY <1>2 DEF Init
  <2>3. got \in Nat /\ got <= reader.have
    BY <1>2 DEF Init
  <2>4. serving \in BOOLEAN /\ clean \in BOOLEAN /\ stole \in BOOLEAN /\ phase = "idle"
    BY DEF Init
  <2> QED
    BY <2>1, <2>2, <2>3, <2>4 DEF TypeOK
<1>4. InPlace
  BY <1>2 DEF Init, InPlace, NoReader, NewReader
<1> QED
  BY <1>3, <1>4 DEF WireInv

LEMMA AskInv ==
  ASSUME WireInv, NEW r \in Requests, Ask(r)
  PROVE  WireInv'
<1> USE DEF WireInv
<1>1. TypeOK'
  <2>1. stream' \in Seq(Piece)
    <3>1. stream \in Seq(Piece) /\ Response(r) \in Seq(Piece) /\ <<>> \in Seq(Piece)
      BY ResponseType DEF TypeOK
    <3>2. stream \o Response(r) \in Seq(Piece) /\ stream \o <<>> \in Seq(Piece)
      BY <3>1, ConcatProperties
    <3> QED
      BY <3>2 DEF Ask
  <2>2. sent' \in 0..MaxRequests
    BY WireAssumption DEF Ask, TypeOK, WireAssumption
  <2>3. serving' \in BOOLEAN /\ clean' \in BOOLEAN
    BY DEF Ask
  <2> QED
    BY <2>1, <2>2, <2>3 DEF Ask, TypeOK
<1>2. ASSUME ~Slipped' PROVE InPlace'
  <2>1. sent' > 0 /\ asked' = r /\ server' = server /\ size' = size
    BY DEF Ask, TypeOK
  <2>2. ~Slipped /\ Exhausted(reader) /\ Harmless(r)
    <3>1. clean' /\ Harmless(r)
      BY <1>2, <2>1 DEF Slipped, Harmless
    <3> QED
      BY <3>1 DEF Ask
  <2>3. serving /\ ~stole /\ stream = <<>>
    BY <2>2 DEF InPlace, Ask, Exhausted, TypeOK
  <2>4. serving' /\ stream' = Response(r)
    <3>1. ~Outcome(r).raised /\ Outcome(r).status # 0
      BY <2>2, HarmlessResponse
    <3>2. Response(r) \in Seq(Piece) /\ <<>> \o Response(r) = Response(r)
      BY ResponseType, ConcatEmptySeq
    <3> QED
      BY <2>3, <3>1, <3>2 DEF Ask
  <2>5. Response(r) = Response(asked)'
    BY <2>1 DEF Response, Outcome, Bare
  <2> QED
    BY <2>1, <2>2, <2>3, <2>4, <2>5 DEF InPlace, Ask, Exhausted
<1> QED
  BY <1>1, <1>2

\* What a reader of a response is set to.
LEMMA AcceptedTypes ==
  ASSUME TypeOK, NEW rest \in Seq(Piece), NEW n \in Int, Accepted(rest, n),
         UNCHANGED <<serverVars, asked, sent, clean, stole>>
  PROVE  TypeOK'
<1>1. NewReader(n) \in [max: Int, have: Nat] /\ NewReader(n).have = 0
  BY DEF NewReader
<1> QED
  BY <1>1 DEF TypeOK, Accepted, serverVars

LEMMA ReadHeadInv ==
  ASSUME WireInv, ReadHead
  PROVE  WireInv'
<1> USE DEF WireInv
<1>1. /\ phase = "waiting" /\ stream # <<>> /\ stream \in Seq(Piece)
      /\ UNCHANGED <<serverVars, asked, sent, clean, stole>>
  BY DEF ReadHead, TypeOK
<1>2. stream[1] \in Piece /\ Tail(stream) \in Seq(Piece)
  BY <1>1, HeadTailProperties
<1>3. TypeOK'
  <2>1. CASE Accepted(Tail(stream), stream[1].n)
    BY <1>1, <1>2, <2>1, AcceptedTypes DEF Piece
  <2>2. CASE Len(stream) > 1 /\ Accepted(Tail(Tail(stream)), stream[2].n)
    <3>1. stream[2] \in Piece /\ Tail(Tail(stream)) \in Seq(Piece)
      <4>1. Len(stream) \in Nat /\ Len(Tail(stream)) = Len(stream) - 1
        BY <1>1, HeadTailProperties, LenProperties
      <4>2. stream[2] \in Piece
        BY <1>1, <2>2, <4>1, ElementOfSeq
      <4>3. Tail(stream) # <<>>
        BY <1>2, <2>2, <4>1, EmptySeq
      <4> QED
        BY <1>2, <4>2, <4>3, HeadTailProperties
    <3> QED
      BY <1>1, <2>2, <3>1, AcceptedTypes DEF Piece
  <2>3. CASE phase' = "failed" /\ UNCHANGED <<stream, reader, old, got>>
    BY <1>1, <2>3 DEF TypeOK, serverVars
  <2> QED
    BY <2>1, <2>2, <2>3 DEF ReadHead
<1>4. ASSUME ~Slipped' PROVE InPlace'
  <2>1. ~Slipped /\ InPlace /\ sent > 0 /\ Harmless(asked) /\ Exhausted(reader) /\ stream = Response(asked)
    BY <1>1, <1>4 DEF Slipped, Harmless, serverVars, InPlace, TypeOK
  <2>2. \E n \in Int : /\ stream[1] = StatusHead(n)
                       /\ (n = -1 /\ Tail(stream) = <<>>) \/ (n \in Nat /\ Tail(stream) = Body(n))
    <3>1. ASSUME stream = <<StatusHead(-1)>>
          PROVE  stream[1] = StatusHead(-1) /\ Tail(stream) = <<>>
      <4>1. StatusHead(-1) \in Piece
        BY DEF StatusHead, Piece
      <4> QED
        BY <3>1, <4>1
    <3>2. ASSUME NEW n \in Nat, stream = <<StatusHead(n)>> \o Body(n)
          PROVE  stream[1] = StatusHead(n) /\ Tail(stream) = Body(n)
      <4>1. StatusHead(n) \in Piece /\ Body(n) \in Seq(Piece)
        BY BodyType DEF StatusHead, Piece
      <4> QED
        BY <3>2, <4>1, HeadAndRest
    <3>3. stream = <<StatusHead(-1)>> \/ \E n \in Nat : stream = <<StatusHead(n)>> \o Body(n)
      BY <2>1, HarmlessResponse DEF TypeOK
    <3>4. CASE stream = <<StatusHead(-1)>>
      <4>1. -1 \in Int /\ stream[1] = StatusHead(-1) /\ (-1 = -1 /\ Tail(stream) = <<>>)
        BY <3>1, <3>4
      <4> QED
        BY <4>1
    <3>5. CASE \E n \in Nat : stream = <<StatusHead(n)>> \o Body(n)
      <4>1. PICK n \in Nat : stream = <<StatusHead(n)>> \o Body(n)
        BY <3>5
      <4>2. n \in Int
        OBVIOUS
      <4> QED
        BY <3>2, <4>1, <4>2
    <3> QED
      BY <3>3, <3>4, <3>5
  <2>3. PICK n \in Int : /\ stream[1] = StatusHead(n)
                         /\ (n = -1 /\ Tail(stream) = <<>>) \/ (n \in Nat /\ Tail(stream) = Body(n))
    BY <2>2
  <2>4. Accepted(Tail(stream), n)
    <3>1. stream[1].kind = "head" /\ stream[1].n = n
      <4>1. stream[1] = StatusHead(n)
        BY <2>3
      <4>2. StatusHead(n).kind = "head" /\ StatusHead(n).n = n
        BY DEF StatusHead
      <4> QED
        BY <4>1, <4>2, Zenon
    <3> QED
      BY <3>1 DEF ReadHead
  <2>5. /\ phase' = "idle" /\ stream' = Tail(stream) /\ reader' = NewReader(n) /\ got' = 0
        /\ serving' /\ ~stole'
    BY <1>1, <2>1, <2>4 DEF Accepted, InPlace, serverVars
  <2>6. CASE n \in Nat /\ n > 0
    BY <2>3, <2>5, <2>6 DEF InPlace, NewReader
  <2>7. CASE n = -1 \/ n = 0
    BY <2>3, <2>5, <2>7 DEF InPlace, NewReader, Exhausted, Body
  <2> QED
    BY <2>3, <2>6, <2>7
<1> QED
  BY <1>3, <1>4

\* A recv leaves pieces.
LEMMA RecvTypes ==
  ASSUME TypeOK, NEW k \in Int, NEW m \in 1..k, Recv(k, m)
  PROVE  stream' \in Seq(Piece)
<1>1. stream \in Seq(Piece) /\ stream # <<>>
  BY DEF Recv, TypeOK
<1>2. Tail(stream) \in Seq(Piece) /\ stream[1] \in Piece /\ 1 \in 1..Len(stream)
  BY <1>1, HeadTailProperties, LenProperties, EmptySeq
<1>3. [stream[1] EXCEPT !.n = @ - m] \in Piece
  BY <1>2 DEF Piece
<1>4. [stream EXCEPT ![1].n = @ - m] = [stream EXCEPT ![1] = [stream[1] EXCEPT !.n = @ - m]]
  BY <1>1
<1>5. [stream EXCEPT ![1] = [stream[1] EXCEPT !.n = @ - m]] \in Seq(Piece)
  BY <1>1, <1>2, <1>3, ExceptSeq
<1> QED
  BY <1>2, <1>4, <1>5 DEF Recv

LEMMA ReadAllInv ==
  ASSUME WireInv, ReadAll
  PROVE  WireInv'
<1> USE DEF WireInv
<1>1. CASE ToRead(reader) < 0 /\ phase' = "failed" /\ UNCHANGED <<stream, reader, got, clean>>
  <2>1. TypeOK'
    BY <1>1 DEF ReadAll, TypeOK, serverVars
  <2>2. Slipped
    BY <1>1 DEF ReadAll, InPlace, ToRead, TypeOK
  <2>3. Slipped'
    BY <1>1, <2>2 DEF ReadAll, Slipped, Harmless, serverVars
  <2> QED
    BY <2>1, <2>3
<1>2. ASSUME NEW m \in 1..ToRead(reader),
             Recv(ToRead(reader), m),
             got' = got + m,
             clean' = (clean /\ m = reader.max),
             reader' = [reader EXCEPT !.have = @ + ToRead(reader)],
             UNCHANGED phase
      PROVE  WireInv'
  <2>1. /\ reader \in [max: Int, have: Nat] /\ reader.have = 0 /\ got = 0
        /\ ToRead(reader) = reader.max /\ reader.max > 0
        /\ reader' = [max |-> reader.max, have |-> reader.max]
    <3>1. reader \in [max: Int, have: Nat] /\ reader.have \in {0, reader.max} /\ reader.have # reader.max
      BY DEF ReadAll, TypeOK, Exhausted
    <3>2. got = 0
      BY <3>1 DEF TypeOK
    <3> QED
      BY <1>2, <3>1, <3>2 DEF ToRead
  <2>2. stream' \in Seq(Piece)
    <3>1. ToRead(reader) \in Int
      BY <2>1
    <3> QED
      BY <1>2, <3>1, RecvTypes
  <2>3. TypeOK'
    <3>1. reader' \in [max: Int, have: Nat] /\ reader'.have \in {0, reader'.max}
      BY <2>1
    <3>2. got' \in Nat /\ got' <= reader'.have
      BY <1>2, <2>1
    <3> QED
      BY <1>2, <2>2, <3>1, <3>2 DEF ReadAll, TypeOK, serverVars
  <2>4. ASSUME ~Slipped' PROVE InPlace'
    <3>1. ~Slipped /\ m = reader.max
      BY <1>2, <2>4 DEF ReadAll, Slipped, Harmless, serverVars, TypeOK
    <3>2. serving /\ ~stole /\ stream = <<[kind |-> "body", n |-> reader.max]>>
      BY <2>1, <3>1 DEF ReadAll, InPlace, Exhausted, Body
    <3>3. [kind |-> "body", n |-> reader.max] \in Piece
      BY <2>1 DEF Piece
    <3>4. stream[1].n = reader.max /\ Tail(stream) = <<>>
      BY <3>2, <3>3
    <3>5. stream' = <<>>
      BY <1>2, <3>1, <3>4 DEF Recv
    <3> QED
      BY <1>2, <2>1, <3>1, <3>2, <3>5 DEF ReadAll, InPlace, Exhausted, serverVars
  <2> QED
    BY <2>3, <2>4
<1> QED
  BY <1>1, <1>2 DEF ReadAll

LEMMA DrainInv ==
  ASSUME WireInv, Drain
  PROVE  WireInv'
<1> USE DEF WireInv
<1>1. PICK m \in 1..ToRead(old) : Recv(ToRead(old), m)
  BY DEF Drain
<1>2. ToRead(old) \in Int
  BY DEF TypeOK, ToRead
<1>3. stream' \in Seq(Piece)
  BY <1>1, <1>2, RecvTypes
<1>4. NoReader \in [max: Int, have: Nat] /\ NoReader.have = 0
  BY DEF NoReader, NewReader
<1>5. TypeOK'
  BY <1>3, <1>4 DEF Drain, TypeOK, serverVars
<1>6. Slipped
  BY DEF Drain, InPlace
<1>7. Slipped'
  BY <1>6 DEF Drain, Slipped, Harmless, serverVars
<1> QED
  BY <1>5, <1>7

LEMMA StutterInv ==
  ASSUME WireInv, UNCHANGED vars
  PROVE  WireInv'
<1>1. TypeOK'
  BY DEF WireInv, TypeOK, vars
<1>2. Slipped' = Slipped /\ Response(asked)' = Response(asked)
  BY DEF Slipped, Harmless, Response, Outcome, Bare, vars
<1>3. InPlace => InPlace'
  BY <1>2 DEF InPlace, Exhausted, vars
<1> QED
  BY <1>1, <1>2, <1>3 DEF WireInv

\* Without a slip the client is where the bytes are: it waits for just the
\* answer to its request, or has read a head and finds just the body it
\* announces, or has read everything (base.py:48-65, 149-173).
THEOREM WireInvariant == Spec => []WireInv
<1>1. WireInv /\ [Next]_vars => WireInv'
  <2> SUFFICES ASSUME WireInv, [Next]_vars
               PROVE  WireInv'
    OBVIOUS
  <2>1. ASSUME NEW r \in Requests, Ask(r) PROVE WireInv'
    BY <2>1, AskInv
  <2>2. CASE ReadHead
    BY <2>2, ReadHeadInv
  <2>3. CASE ReadAll
    BY <2>3, ReadAllInv
  <2>4. CASE Drain
    BY <2>4, DrainInv
  <2>5. CASE UNCHANGED vars
    BY <2>5, StutterInv
  <2> QED
    BY <2>1, <2>2, <2>3, <2>4, <2>5 DEF Next
<1> QED
  BY <1>1, InitInv, PTL DEF Spec

-----------------------------------------------------------------------------
(* What it gives                                                           *)

\* The state has its type; a reader has read nothing or all of its limit, and
\* returned no more (base.py:45-55).
THEOREM WireTypes == Spec => []TypeOK
<1>1. WireInv => TypeOK
  BY DEF WireInv
<1> QED
  BY <1>1, WireInvariant, PTL

\* A response harmlessly asked for begins with its head.
LEMMA HarmlessBegins ==
  ASSUME TypeOK, NEW r \in Requests, Harmless(r)
  PROVE  Response(r) # <<>> /\ Response(r)[1].kind = "head"
<1>1. \A n \in Int : StatusHead(n) \in Piece /\ StatusHead(n).kind = "head"
  BY DEF StatusHead, Piece
<1>2. CASE Response(r) = <<StatusHead(-1)>>
  BY <1>1, <1>2
<1>3. ASSUME NEW n \in Nat, Response(r) = <<StatusHead(n)>> \o Body(n)
      PROVE  Response(r) # <<>> /\ Response(r)[1].kind = "head"
  <2>1. StatusHead(n) \in Piece /\ Body(n) \in Seq(Piece)
    BY <1>1, BodyType
  <2>2. Response(r)[1] = StatusHead(n)
    BY <1>3, <2>1, HeadAndRest
  <2>3. Len(Response(r)) = 1 + Len(Body(n)) /\ Len(Body(n)) \in Nat
    <3>1. <<StatusHead(n)>> \in Seq(Piece) /\ Len(<<StatusHead(n)>>) = 1
      BY <2>1
    <3> QED
      BY <1>3, <2>1, <3>1, ConcatProperties, LenProperties
  <2>4. Len(<<>>) = 0
    OBVIOUS
  <2> QED
    BY <1>1, <2>2, <2>3, <2>4
<1> QED
  BY <1>2, <1>3, HarmlessResponse

\* As long as no request, and no read, slipped, each response is found where it
\* begins and its body is what readall() returned (base.py:150).
THEOREM WireInStep == Spec => []InStep
<1>1. WireInv => InStep
  <2> SUFFICES ASSUME WireInv, ~Slipped
               PROVE  /\ phase = "waiting" => stream # <<>> /\ stream[1].kind = "head"
                      /\ phase = "idle" /\ Exhausted(reader) =>
                           stream = <<>> /\ (reader.max >= 0 => got = reader.max)
    BY DEF InStep
  <2>1. TypeOK /\ InPlace
    BY DEF WireInv
  <2>2. ASSUME phase = "waiting"
        PROVE  stream # <<>> /\ stream[1].kind = "head"
    <3>1. stream = Response(asked) /\ asked \in Requests /\ Harmless(asked)
      BY <2>1, <2>2 DEF InPlace, Slipped, TypeOK
    <3> QED
      BY <2>1, <3>1, HarmlessBegins
  <2>3. ASSUME phase = "idle", Exhausted(reader)
        PROVE  stream = <<>> /\ (reader.max >= 0 => got = reader.max)
    BY <2>1, <2>3 DEF InPlace, Exhausted
  <2> QED
    BY <2>2, <2>3
<1> QED
  BY <1>1, WireInvariant, PTL

\* The client fails to parse a response, blocks for ever or takes bytes of one
\* response for those of the one before only after a slip (base.py:53-65).
THEOREM WireHarmNeedsSlip == Spec => []HarmNeedsSlip
<1>1. WireInv => HarmNeedsSlip
  <2> SUFFICES ASSUME WireInv, ~Slipped
               PROVE  ~(phase = "failed" \/ Stuck \/ stole)
    BY DEF HarmNeedsSlip
  <2>1. TypeOK /\ InPlace
    BY DEF WireInv
  <2>2. phase \in {"waiting", "idle"} /\ ~stole
    BY <2>1 DEF InPlace
  <2>3. ASSUME phase = "waiting" PROVE stream # <<>>
    <3>1. stream = Response(asked) /\ asked \in Requests /\ Harmless(asked)
      BY <2>1, <2>3 DEF InPlace, Slipped, TypeOK
    <3> QED
      BY <2>1, <3>1, HarmlessBegins
  <2>4. ASSUME phase = "idle", reader.max > 0, ~Exhausted(reader) PROVE stream # <<>>
    <3>1. stream = Body(reader.max)
      BY <2>1, <2>4 DEF InPlace
    <3>2. Body(reader.max) = <<[kind |-> "body", n |-> reader.max]>>
      BY <2>4 DEF Body
    <3>3. Len(<<[kind |-> "body", n |-> reader.max]>>) = 1 /\ Len(<<>>) = 0
      OBVIOUS
    <3> QED
      BY <3>1, <3>2, <3>3
  <2> QED
    BY <2>2, <2>3, <2>4 DEF Stuck
<1> QED
  BY <1>1, WireInvariant, PTL

-----------------------------------------------------------------------------
(* The exchange it implements                                              *)

LEMMA FirstPiece ==
  ASSUME TypeOK, NEW r \in Requests
  PROVE  Response(r)[1].n \in Int
<1>1. Outcome(r).announced \in Int /\ Outcome(r).sent \in Int
  BY OutcomeType DEF Answers
<1>2. \A n \in Int : StatusHead(n) \in Piece
  BY DEF StatusHead, Piece
<1>3. CASE Response(r) = <<StatusHead(-1), Blank>>
  BY <1>2, <1>3 DEF Piece
<1>4. CASE Response(r) = <<StatusHead(Outcome(r).announced)>> \o Body(Outcome(r).sent)
  <2>1. Response(r)[1] = StatusHead(Outcome(r).announced)
    BY <1>1, <1>2, <1>4, BodyType, HeadAndRest
  <2> QED
    BY <1>1, <1>2, <2>1 DEF Piece
<1>5. CASE Response(r) = <<StatusHead(-1)>>
  BY <1>2, <1>5 DEF Piece
<1> QED
  BY <1>3, <1>4, <1>5 DEF Response

\* A head of a harmless request announces a length, or none.
LEMMA HarmlessLength ==
  ASSUME TypeOK, NEW r \in Requests, Harmless(r)
  PROVE  Response(r)[1].n \in Nat \cup {-1}
<1>1. \A n \in Int : StatusHead(n) \in Piece /\ StatusHead(n).n = n
  BY DEF StatusHead, Piece
<1>2. CASE Response(r) = <<StatusHead(-1)>>
  BY <1>1, <1>2
<1>3. ASSUME NEW n \in Nat, Response(r) = <<StatusHead(n)>> \o Body(n)
      PROVE  Response(r)[1].n \in Nat \cup {-1}
  <2>1. Response(r)[1] = StatusHead(n)
    BY <1>1, <1>3, BodyType, HeadAndRest
  <2> QED
    BY <1>1, <2>1
<1> QED
  BY <1>2, <1>3, HarmlessResponse

LEMMA PromisedInit ==
  Init => Promised!Init
<1> SUFFICES ASSUME Init
             PROVE  Promised!Init
  OBVIOUS
<1>1. TypeOK
  BY InitInv DEF WireInv
<1>2. [r \in Requests |-> Response(r)[1].n] \in [Requests -> Int]
  BY <1>1, FirstPiece
<1>3. asked \in Requests
  BY <1>1 DEF TypeOK
<1>4. phase = "idle" /\ reader.max = -1 /\ Exhausted(reader) /\ got = 0 /\ ~Slipped
  BY DEF Init, NoReader, NewReader, Exhausted, Slipped
<1> QED
  BY <1>2, <1>3, <1>4 DEF Promised!Init

\* What slipped stays so, and the server and its file stay what they are.
LEMMA SlippedStays ==
  ASSUME TypeOK, Next
  PROVE  /\ Slipped => Slipped'
         /\ UNCHANGED <<server, size>>
         /\ [r \in Requests |-> Response(r)[1].n]' = [r \in Requests |-> Response(r)[1].n]
<1>1. UNCHANGED <<server, size>>
  BY DEF Next, Ask, ReadHead, ReadAll, Drain, serverVars
<1>2. ASSUME Slipped, NEW r \in Requests, Ask(r)
      PROVE  Slipped'
  BY <1>2 DEF Ask, Slipped
<1>3. ASSUME Slipped, ReadHead \/ ReadAll \/ Drain
      PROVE  Slipped'
  BY <1>1, <1>3 DEF ReadHead, ReadAll, Drain, Slipped, Harmless
<1>4. \A r : Response(r)' = Response(r)
  BY <1>1 DEF Response, Outcome, Bare
<1> QED
  BY <1>1, <1>2, <1>3, <1>4 DEF Next

LEMMA PromisedAsk ==
  ASSUME WireInv, ~Slipped, ~Slipped', NEW r \in Requests, Ask(r)
  PROVE  Promised!Ask(r)
<1>1. phase = "idle" /\ phase' = "waiting" /\ asked' = r /\ UNCHANGED <<reader, got>>
  BY DEF Ask
<1>2. Exhausted(reader)
  BY DEF Ask, Slipped
<1> QED
  BY <1>1, <1>2 DEF Promised!Ask

LEMMA PromisedAnswer ==
  ASSUME WireInv, ~Slipped, ReadHead
  PROVE  Promised!Answer
<1>1. TypeOK /\ phase = "waiting" /\ UNCHANGED asked
  BY DEF WireInv, ReadHead
<1>2. sent > 0 /\ Exhausted(reader) /\ stream = Response(asked)
  BY <1>1 DEF WireInv, InPlace
<1>3. asked \in Requests /\ Harmless(asked)
  BY <1>1, <1>2 DEF TypeOK, Slipped
<1>4. PICK n : n = Response(asked)[1].n
  OBVIOUS
<1>5. n \in Nat \cup {-1} /\ stream[1].kind = "head" /\ stream[1].n = n
  BY <1>1, <1>2, <1>3, <1>4, HarmlessLength, HarmlessBegins
<1>6. Accepted(Tail(stream), n)
  BY <1>5 DEF ReadHead
<1>7. phase' = "idle" /\ reader' = NewReader(n) /\ got' = 0
  BY <1>2, <1>6 DEF Accepted
<1>8. reader'.max = n /\ (Exhausted(reader') <=> ~(n > 0))
  BY <1>5, <1>7 DEF NewReader, Exhausted
<1>9. [r \in Requests |-> Response(r)[1].n][asked] = n
  BY <1>3, <1>4
<1>10. Exhausted(reader)' <=> Exhausted(reader')
  BY DEF Exhausted
<1> QED
  BY <1>1, <1>7, <1>8, <1>9, <1>10 DEF Promised!Answer

LEMMA PromisedTake ==
  ASSUME WireInv, ~Slipped, ~Slipped', ReadAll
  PROVE  Promised!Take
<1>1. TypeOK /\ InPlace /\ phase = "idle" /\ ~Exhausted(reader) /\ UNCHANGED asked
  BY DEF WireInv, ReadAll
<1>2. reader \in [max: Int, have: Nat] /\ reader.max > 0 /\ reader.have = 0 /\ got = 0
  BY <1>1 DEF InPlace, TypeOK
<1>3. ToRead(reader) = reader.max
  BY <1>2 DEF ToRead
<1>4. PICK m \in 1..ToRead(reader) :
        /\ got' = got + m /\ clean' = (clean /\ m = reader.max)
        /\ reader' = [reader EXCEPT !.have = @ + ToRead(reader)]
        /\ UNCHANGED phase
  BY <1>2, <1>3 DEF ReadAll
<1>5. m = reader.max
  BY <1>4 DEF Slipped
<1>6. reader'.max = reader.max /\ reader'.have = reader.max /\ got' = reader.max
  BY <1>2, <1>3, <1>4, <1>5
<1>7. Exhausted(reader)'
  BY <1>6 DEF Exhausted
<1> QED
  BY <1>1, <1>4, <1>6, <1>7 DEF Promised!Take

LEMMA PromisedNext ==
  WireInv /\ [Next]_vars => [Promised!Next]_(Promised!exchangeVars)
<1> SUFFICES ASSUME WireInv, [Next]_vars
             PROVE  Promised!Next \/ UNCHANGED Promised!exchangeVars
  OBVIOUS
<1>1. CASE UNCHANGED vars
  <2>1. /\ UNCHANGED <<phase, asked, reader, got>> /\ (Slipped' <=> Slipped)
        /\ \A r : Response(r)' = Response(r)
    BY <1>1 DEF vars, Slipped, Harmless, Response, Outcome, Bare
  <2> QED
    BY <2>1 DEF Promised!exchangeVars, Exhausted
<1>2. CASE Next
  <2>1. /\ Slipped => Slipped'
        /\ [r \in Requests |-> Response(r)[1].n]' = [r \in Requests |-> Response(r)[1].n]
    BY <1>2, SlippedStays DEF WireInv
  <2>2. CASE Slipped'
    BY <2>1, <2>2 DEF Promised!Next, Promised!Slip
  <2>3. CASE ~Slipped'
    <3>1. ~Slipped
      BY <2>1, <2>3
    <3>2. ASSUME NEW r \in Requests, Ask(r)
          PROVE  Promised!InTurn
      BY <2>3, <3>1, <3>2, PromisedAsk DEF Promised!InTurn
    <3>3. ASSUME ReadHead
          PROVE  Promised!InTurn
      BY <2>3, <3>1, <3>3, PromisedAnswer DEF Promised!InTurn
    <3>4. ASSUME ReadAll
          PROVE  Promised!InTurn
      BY <2>3, <3>1, <3>4, PromisedTake DEF Promised!InTurn
    <3>5. ASSUME Drain
          PROVE  Promised!InTurn
      BY <3>1, <3>5 DEF Drain, WireInv, InPlace
    <3>6. Promised!InTurn
      BY <1>2, <3>2, <3>3, <3>4, <3>5 DEF Next
    <3> QED
      BY <2>1, <3>6 DEF Promised!Next
  <2> QED
    BY <2>2, <2>3
<1> QED
  BY <1>1, <1>2

\* The server's pieces, TCP's and the client's readers together are an exchange in
\* which each request gets the length announced for it and a body just as long,
\* until something slips (base.py:48-65, 149-173).
THEOREM WireImplementsExchange == Spec => ImplementsExchange
<1>1. Init => Promised!Init
  BY PromisedInit
<1>2. WireInv /\ [Next]_vars => [Promised!Next]_(Promised!exchangeVars)
  BY PromisedNext
<1>3. Spec => []WireInv
  BY WireInvariant
<1> QED
  BY <1>1, <1>2, <1>3, PTL DEF Spec, ImplementsExchange, Promised!Spec

=============================================================================
