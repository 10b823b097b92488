-------------------------- MODULE HeadReaderProofs --------------------------
(***************************************************************************)
(* The theorems about HeadReader: its types, that a head ends at a blank   *)
(* line, and that requests are read as they were sent.                     *)
(***************************************************************************)
EXTENDS HeadReaderLemmas

-----------------------------------------------------------------------------
(* Types                                                                   *)

\* The headers the server may have got, and the head of a request.
HeadersType == UNION {[K -> Seq(Byte)] : K \in SUBSET Seq(Byte)}
HeadType == [method: Seq(Byte), url: Seq(Byte), headers: HeadersType]

TypeInv ==
  /\ reader \in Readers /\ fin \in BOOLEAN
  /\ sent \in Sent \cup {<<>>}
  /\ bytes \in Seq(Byte)
  /\ at \in 0..Len(bytes)
  /\ line \in Seq(Byte) /\ ended \in BOOLEAN
  /\ stage \in {"request", "headers", "refused"}
  /\ head \in HeadType /\ heads \in Seq(HeadType)

\* A line that has not ended has room for one more byte.
LineFits == reader = "cpp" => Len(line) <= MaxLine /\ (~ended => Len(line) < MaxLine)

LEMMA NoHeadIs ==
  NoHead \in HeadType /\ DOMAIN NoHead.headers = {}
<1>1. <<>> \in Seq(Byte) /\ DOMAIN <<>> = {}
  OBVIOUS
<1>2. <<>> \in [{} -> Seq(Byte)]
  BY <1>1
<1>3. {} \in SUBSET Seq(Byte)
  OBVIOUS
<1>4. <<>> \in HeadersType
  BY <1>2, <1>3, Zenon DEF HeadersType
<1> QED
  BY <1>1, <1>4 DEF NoHead, HeadType

LEMMA SetIs ==
  ASSUME NEW h \in HeadersType, NEW k \in Seq(Byte), NEW v \in Seq(Byte)
  PROVE  Set(h, k, v) \in HeadersType
<1>1. PICK K \in SUBSET Seq(Byte) : h \in [K -> Seq(Byte)]
  BY DEF HeadersType
<1>2. Set(h, k, v) \in [K \cup {k} -> Seq(Byte)]
  BY <1>1 DEF Set
<1>3. K \cup {k} \in SUBSET Seq(Byte)
  OBVIOUS
<1> QED
  BY <1>2, <1>3 DEF HeadersType

\* What a request looks like on the wire.
LEMMA WrittenType ==
  ASSUME NEW r \in RequestType
  PROVE  Written(r) \in Seq(Byte)
<1> DEFINE hl == [i \in DOMAIN r.headers |-> HeaderLine(r.headers[i])]
<1>1. r.method \in Seq(Byte) /\ r.url \in Seq(Byte) /\ r.headers \in Seq(Seq(Byte) \X Seq(Byte))
  BY DEF RequestType
<1>2. RequestLine(r) \in Seq(Byte)
  BY <1>1, RequestLineIs
<1>3. hl \in Seq(Seq(Byte))
  <2>1. DOMAIN r.headers = 1..Len(r.headers) /\ Len(r.headers) \in Nat
    BY <1>1, LenProperties
  <2>2. \A i \in 1..Len(r.headers) : HeaderLine(r.headers[i]) \in Seq(Byte)
    BY <1>1, ElementOfSeq, HeaderLineIs
  <2> QED
    BY <2>1, <2>2, SeqDef
<1>4. FlattenSeq(hl) \in Seq(Byte)
  <2> HIDE DEF hl
  <2> QED
    BY <1>3, Flattened
<1>5. (IF r.headers = <<>> THEN CRLF ELSE FlattenSeq(hl)) \in Seq(Byte)
  BY <1>4, CRLFIs
<1> HIDE DEF hl
<1> DEFINE body == IF r.headers = <<>> THEN CRLF ELSE FlattenSeq(hl)
<1>6. Written(r) = RequestLine(r) \o body \o CRLF
  BY DEF Written, hl
<1> HIDE DEF body
<1>7. body \in Seq(Byte)
  BY <1>5 DEF body
<1> QED
  BY <1>2, <1>6, <1>7, CRLFIs, Joined

LEMMA WireType ==
  ASSUME NEW s \in Sent
  PROVE  /\ [i \in DOMAIN s |-> Written(s[i])] \in Seq(Seq(Byte))
         /\ FlattenSeq([i \in DOMAIN s |-> Written(s[i])]) \in Seq(Byte)
<1> DEFINE w == [i \in DOMAIN s |-> Written(s[i])]
<1>1. s \in Seq(RequestType)
  BY HeadAssumption
<1>2. DOMAIN s = 1..Len(s) /\ Len(s) \in Nat
  BY <1>1, LenProperties
<1>3. \A i \in 1..Len(s) : Written(s[i]) \in Seq(Byte)
  BY <1>1, ElementOfSeq, WrittenType
<1>4. w \in Seq(Seq(Byte))
  BY <1>2, <1>3, SeqDef
<1>5. FlattenSeq(w) \in Seq(Byte)
  <2> HIDE DEF w
  <2> QED
    BY <1>4, Flattened
<1> QED
  BY <1>4, <1>5

LEMMA TypeInit ==
  Init => TypeInv /\ LineFits
<1> SUFFICES ASSUME Init
             PROVE  TypeInv /\ LineFits
  OBVIOUS
<1>1. bytes \in Seq(Byte) /\ sent \in Sent \cup {<<>>}
  <2>1. CASE sent \in Sent /\ bytes = FlattenSeq([i \in DOMAIN sent |-> Written(sent[i])])
    BY <2>1, WireType
  <2>2. CASE sent = <<>> /\ bytes \in Garbled
    BY <2>2, HeadAssumption
  <2> QED
    BY <2>1, <2>2 DEF Init
<1>2. 0 \in 0..Len(bytes)
  BY <1>1, LenProperties
<1>3. line \in Seq(Byte) /\ Len(line) = 0 /\ heads \in Seq(HeadType)
  BY DEF Init
<1>4. LineFits
  BY <1>3, HeadAssumption, CRLFIs DEF LineFits
<1> QED
  BY <1>1, <1>2, <1>3, <1>4, NoHeadIs DEF Init, TypeInv

\* What the two parsers return has the types of a head.
LEMMA PartsOfHead ==
  ASSUME line \in Seq(Byte)
  PROVE  /\ RequestParts(line) # <<>> =>
              RequestParts(line)[1] \in Seq(Byte) /\ RequestParts(line)[2] \in Seq(Byte)
         /\ HeaderParts(line) # <<>> =>
              HeaderParts(line)[1] \in Seq(Byte) /\ HeaderParts(line)[2] \in Seq(Byte)
<1>1. /\ RequestParts(line) # <<>> => RequestParts(line) \in Seq(Byte) \X Seq(Byte)
      /\ HeaderParts(line) # <<>> => HeaderParts(line) \in Seq(Byte) \X Seq(Byte)
  BY CppTypes, PyTypes DEF RequestParts, HeaderParts
<1> QED
  BY <1>1

\* One more byte: of the peer's, or the NUL recvUntil takes for one.
LEMMA MoreLine ==
  ASSUME NEW l \in Seq(Byte), NEW b \in Byte
  PROVE  /\ Append(l, b) \in Seq(Byte) /\ Len(l) \in Nat
         /\ Len(Append(l, b)) = Len(l) + 1
         /\ Append(l, b)[Len(l) + 1] = b
         /\ \A i \in 1..Len(l) : Append(l, b)[i] = l[i]
BY AppendProperties, LenProperties

LEMMA RecvTypes ==
  ASSUME TypeInv, LineFits, Recv
  PROVE  TypeInv' /\ LineFits'
<1>1. at \in Nat /\ at + 1 \in 0..Len(bytes) /\ bytes[at + 1] \in Byte
  <2>1. Len(bytes) \in Nat /\ at \in 0..Len(bytes) /\ at < Len(bytes)
    BY LenProperties DEF TypeInv, Recv
  <2>2. at + 1 \in 1..Len(bytes)
    BY <2>1
  <2> QED
    BY <2>1, <2>2, ElementOfSeq DEF TypeInv
<1>2. line' \in Seq(Byte) /\ Len(line') = Len(line) + 1 /\ Len(line) \in Nat
  BY <1>1, MoreLine DEF TypeInv, Recv
<1>3. TypeInv'
  BY <1>1, <1>2 DEF TypeInv, Recv, peer
<1>4. ASSUME reader = "cpp"
      PROVE  Len(line') <= MaxLine /\ (~ended' => Len(line') < MaxLine)
  <2>1. Len(line) < MaxLine /\ MaxLine \in Nat
    BY <1>4, HeadAssumption DEF LineFits, Recv, Reading
  <2>2. Len(line') <= MaxLine
    BY <1>2, <2>1
  <2>3. ~ended' => Len(line') # MaxLine
    BY <1>4 DEF Recv, Full
  <2> QED
    BY <1>2, <2>1, <2>2, <2>3
<1> QED
  BY <1>3, <1>4 DEF LineFits, Recv, peer

LEMMA EofTypes ==
  ASSUME TypeInv, LineFits, Eof
  PROVE  TypeInv' /\ LineFits'
<1>1. CASE reader = "python" /\ ended' = TRUE /\ UNCHANGED line
  BY <1>1 DEF TypeInv, LineFits, Eof, peer
<1>2. CASE reader = "cpp" /\ line' = Append(line, "NUL") /\ ended' = Full(line')
  <2>1. "NUL" \in Byte /\ line \in Seq(Byte)
    BY DEF Byte, TypeInv
  <2>2. line' \in Seq(Byte) /\ Len(line') = Len(line) + 1 /\ Len(line) \in Nat
    BY <1>2, <2>1, MoreLine
  <2>3. TypeInv'
    BY <1>2, <2>2 DEF TypeInv, Eof, peer, Full
  <2>4. Len(line) < MaxLine /\ MaxLine \in Nat
    BY <1>2, HeadAssumption DEF LineFits, Eof, Reading
  <2>5. ~ended' => Len(line') # MaxLine
    BY <1>2 DEF Full
  <2>6. Len(line') <= MaxLine /\ (~ended' => Len(line') < MaxLine)
    BY <2>2, <2>4, <2>5
  <2> QED
    BY <2>3, <2>6 DEF LineFits
<1> QED
  BY <1>1, <1>2 DEF Eof, RecvEof

LEMMA NextLineTypes ==
  ASSUME TypeInv, NEW s \in {"request", "headers", "refused"}, NextLine(s),
         head' \in HeadType, heads' \in Seq(HeadType)
  PROVE  TypeInv' /\ LineFits'
<1>1. line' = <<>> /\ line' \in Seq(Byte) /\ Len(line') = 0
  BY DEF NextLine
<1>2. LineFits'
  BY <1>1, HeadAssumption, CRLFIs DEF LineFits, NextLine, peer
<1>3. TypeInv'
  BY <1>1 DEF TypeInv, NextLine, peer
<1> QED
  BY <1>2, <1>3

LEMMA TypeNext ==
  TypeInv /\ LineFits /\ [Next]_vars => TypeInv' /\ LineFits'
<1> SUFFICES ASSUME TypeInv, LineFits, [Next]_vars
             PROVE  TypeInv' /\ LineFits'
  OBVIOUS
<1>0. line \in Seq(Byte) /\ head \in HeadType /\ heads \in Seq(HeadType)
  BY DEF TypeInv
<1>1. CASE Recv
  BY <1>1, RecvTypes
<1>2. CASE Eof
  BY <1>2, EofTypes
<1>3. CASE SkipBlank
  BY <1>0, <1>3, NextLineTypes DEF SkipBlank
<1>4. CASE ReadRequest
  <2>1. RequestParts(line)[1] \in Seq(Byte) /\ RequestParts(line)[2] \in Seq(Byte)
    BY <1>0, <1>4, PartsOfHead DEF ReadRequest
  <2>2. head' \in HeadType
    BY <1>4, <2>1, NoHeadIs DEF ReadRequest, HeadType
  <2> QED
    BY <1>0, <1>4, <2>2, NextLineTypes DEF ReadRequest
<1>5. CASE ReadHeader
  <2>1. HeaderParts(line)[1] \in Seq(Byte) /\ HeaderParts(line)[2] \in Seq(Byte)
    BY <1>0, <1>5, PartsOfHead DEF ReadHeader
  <2>2. head.headers \in HeadersType
    BY <1>0 DEF HeadType
  <2>3. Set(head.headers, HeaderParts(line)[1], HeaderParts(line)[2]) \in HeadersType
    BY <2>1, <2>2, SetIs
  <2>4. head' = [head EXCEPT !.headers = Set(head.headers, HeaderParts(line)[1], HeaderParts(line)[2])]
    BY <1>5 DEF ReadHeader
  <2>5. head' \in HeadType
    BY <1>0, <2>3, <2>4 DEF HeadType
  <2> QED
    BY <1>0, <1>5, <2>5, NextLineTypes DEF ReadHeader
<1>6. CASE EndOfHead
  <2>1. heads' \in Seq(HeadType)
    BY <1>0, <1>6, AppendProperties DEF EndOfHead
  <2> QED
    BY <1>0, <1>6, <2>1, NextLineTypes DEF EndOfHead
<1>7. CASE Refuse
  BY <1>0, <1>7, NextLineTypes DEF Refuse
<1>8. CASE UNCHANGED vars
  BY <1>8 DEF TypeInv, LineFits, vars, peer
<1> QED
  BY <1>1, <1>2, <1>3, <1>4, <1>5, <1>6, <1>7, <1>8 DEF Next

\* Whatever a peer sends, byte by byte, and wherever it stops, the state of both
\* readers keeps its types, and the C++ one never gathers more than the buffer of
\* recvUntil holds (base.cpp:103-131).
THEOREM HeadTypes == Spec => []TypeOK
<1>1. TypeInv /\ LineFits => TypeOK
  <2> SUFFICES ASSUME TypeInv, LineFits
               PROVE  TypeOK
    OBVIOUS
  <2>1. \A h \in ToSet(heads) : h \in HeadType
    <3>1. heads \in Seq(HeadType) /\ DOMAIN heads = 1..Len(heads)
      BY LenProperties DEF TypeInv
    <3>2. \A i \in DOMAIN heads : heads[i] \in HeadType
      BY <3>1, ElementOfSeq
    <3> QED
      BY <3>2 DEF ToSet
  <2>2. \A h \in HeadType : h.method \in Seq(Byte) /\ h.url \in Seq(Byte)
    BY DEF HeadType
  <2>3. head \in HeadType
    BY DEF TypeInv
  <2>4. \A h \in {head} \cup ToSet(heads) : h.method \in Seq(Byte) /\ h.url \in Seq(Byte)
    BY <2>1, <2>2, <2>3
  <2> QED
    BY <2>4 DEF TypeInv, LineFits, TypeOK
<1> QED
  BY <1>1, TypeInit, TypeNext, PTL DEF Spec

-----------------------------------------------------------------------------
(* Blank lines                                                             *)

\* A CR received that is no part of a line end, and line ends received.
LoneCR == \E i \in 1..(at - 1) : bytes[i] = "CR" /\ bytes[i + 1] # "LF"
LineEndAt(p) == p \in 2..Len(bytes) /\ bytes[p - 1] = "CR" /\ bytes[p] = "LF"

\* The line is what came after the first at - k bytes, and NULs from then on.
Gathered(k) ==
  /\ k \in 0..Len(line) /\ k <= at
  /\ \A j \in 1..k : line[j] = bytes[at - k + j]
  /\ \A j \in 1..Len(line) : j > k => line[j] = "NUL"
  /\ k < Len(line) => at = Len(bytes)

\* No line end is inside the line; the head was read up to a line end, or, a head
\* later, up to two of them.
BlankLines ==
  reader = "cpp" =>
    \E k \in 0..Len(line) :
      /\ Gathered(k)
      /\ \A j \in 1..(Len(line) - 1) :
           line[j] = "CR" /\ line[j + 1] = "LF" => ended /\ j + 1 = Len(line)
      /\ stage = "headers" => LoneCR \/ LineEndAt(at - k)
      /\ stage = "request" /\ heads # <<>> =>
           LoneCR \/ (LineEndAt(at - k) /\ LineEndAt(at - k - 2))

LEMMA BlankInit ==
  Init => BlankLines
<1> SUFFICES ASSUME Init
             PROVE  BlankLines
  OBVIOUS
<1>1. line = <<>> /\ Len(line) = 0 /\ at = 0 /\ stage = "request" /\ heads = <<>>
  BY DEF Init
<1>2. Gathered(0)
  BY <1>1 DEF Gathered
<1> QED
  BY <1>1, <1>2 DEF BlankLines

LEMMA LoneCRGrows ==
  ASSUME TypeInv, LoneCR, at' \in Nat, at' >= at, UNCHANGED bytes
  PROVE  LoneCR'
<1>1. PICK i \in 1..(at - 1) : bytes[i] = "CR" /\ bytes[i + 1] # "LF"
  BY DEF LoneCR
<1>2. at \in Nat /\ at' \in Nat /\ at' >= at
  BY LenProperties DEF TypeInv
<1>3. i \in 1..(at' - 1)
  <2>1. \A n, m \in Nat : m >= n => \A j \in 1..(n - 1) : j \in 1..(m - 1)
    OBVIOUS
  <2> QED
    BY <1>2, <2>1, Zenon
<1> QED
  BY <1>1, <1>3 DEF LoneCR

LEMMA RecvBlank ==
  ASSUME TypeInv, BlankLines, Recv, reader = "cpp"
  PROVE  BlankLines'
<1>0. PICK n \in Nat : n = Len(line)
  BY LenProperties DEF TypeInv
<1>1. PICK k \in 0..n :
        /\ Gathered(k)
        /\ \A j \in 1..(n - 1) : line[j] = "CR" /\ line[j + 1] = "LF" => ended /\ j + 1 = n
        /\ stage = "headers" => LoneCR \/ LineEndAt(at - k)
        /\ stage = "request" /\ heads # <<>> =>
             LoneCR \/ (LineEndAt(at - k) /\ LineEndAt(at - k - 2))
  BY <1>0 DEF BlankLines
<1>2. n \in Nat /\ at \in Nat /\ Len(bytes) \in Nat /\ at < Len(bytes) /\ at' = at + 1
  BY LenProperties DEF TypeInv, Recv
<1>3. k = n /\ n <= at /\ \A j \in 1..n : line[j] = bytes[at - n + j]
  BY <1>0, <1>1, <1>2 DEF Gathered
<1>4. bytes[at + 1] \in Byte
  <2>1. at + 1 \in 1..Len(bytes)
    BY <1>2
  <2> QED
    BY <2>1, ElementOfSeq DEF TypeInv
<1>5. /\ line' \in Seq(Byte) /\ Len(line') = n + 1 /\ line'[n + 1] = bytes[at + 1]
      /\ \A i \in 1..n : line'[i] = line[i]
  BY <1>0, <1>4, MoreLine DEF TypeInv, Recv
<1>6. at' - (n + 1) = at - n /\ n + 1 \in 0..Len(line') /\ n + 1 <= at'
  BY <1>2, <1>3, <1>5
<1>7. Gathered(n + 1)'
  <2>1. \A j \in 1..(n + 1) : line'[j] = bytes[at' - (n + 1) + j]
    <3> TAKE j \in 1..(n + 1)
    <3>1. CASE j \in 1..n
      BY <1>3, <1>5, <1>6, <3>1
    <3>2. CASE j = n + 1
      <4>1. at - n + (n + 1) = at + 1
        BY <1>2
      <4> QED
        BY <1>5, <1>6, <3>2, <4>1
    <3> QED
      BY <1>2, <3>1, <3>2
  <2>2. UNCHANGED bytes
    BY DEF Recv, peer
  <2>3. \A j \in 1..Len(line') : ~(j > n + 1)
    BY <1>2, <1>5
  <2>4. ~(n + 1 < Len(line'))
    BY <1>2, <1>5
  <2> QED
    BY <1>6, <2>1, <2>2, <2>3, <2>4 DEF Gathered
<1>8. ASSUME NEW j \in 1..n, line'[j] = "CR", line'[j + 1] = "LF"
      PROVE  ended' /\ j + 1 = n + 1
  <2>1. CASE j = n
    <3>1. Len(line') >= 2 /\ Len(line') - 1 = n /\ Len(line') = j + 1
      BY <1>2, <1>5, <2>1
    <3>2. IsSuffix(CRLF, line')
      BY <1>5, <1>8, <2>1, <3>1, EndsWithCRLF
    <3>3. ended'
      BY <3>2 DEF Recv
    <3> QED
      BY <2>1, <3>3
  <2>2. CASE j # n
    <3>1. j \in 1..(n - 1) /\ j \in 1..n /\ j + 1 \in 1..n
      BY <1>2, <2>2
    <3>2. line[j] = "CR" /\ line[j + 1] = "LF"
      BY <1>5, <1>8, <3>1
    <3>3. ended
      BY <1>1, <3>1, <3>2
    <3> QED
      BY <3>3 DEF Recv, Reading
  <2> QED
    BY <2>1, <2>2
<1>9. LoneCR => LoneCR'
  <2>1. at' \in Nat /\ at' >= at
    BY <1>2
  <2> QED
    BY <2>1, LoneCRGrows DEF Recv, peer
<1>11. /\ stage' = "headers" => LoneCR' \/ LineEndAt(at - (n + 1))'
       /\ stage' = "request" /\ heads' # <<>> =>
            LoneCR' \/ (LineEndAt(at - (n + 1))' /\ LineEndAt(at - (n + 1) - 2)')
  <2>0. UNCHANGED bytes
    BY DEF Recv, peer
  <2>1. LineEndAt(at - n) => LineEndAt(at - (n + 1))'
    BY <1>6, <2>0 DEF LineEndAt
  <2>2. LineEndAt(at - n - 2) => LineEndAt(at - (n + 1) - 2)'
    BY <1>6, <2>0 DEF LineEndAt
  <2> QED
    BY <1>1, <1>3, <1>9, <2>1, <2>2 DEF Recv
<1>12. \A j \in 1..(Len(line') - 1) :
         line'[j] = "CR" /\ line'[j + 1] = "LF" => ended' /\ j + 1 = Len(line')
  <2>1. Len(line') - 1 = n
    BY <1>2, <1>5
  <2> QED
    BY <1>5, <1>8, <2>1
<1> QED
  BY <1>6, <1>7, <1>11, <1>12 DEF BlankLines

LEMMA EofBlank ==
  ASSUME TypeInv, BlankLines, Eof, reader = "cpp"
  PROVE  BlankLines'
<1> DEFINE n == Len(line)
<1>1. PICK k \in 0..n :
        /\ Gathered(k)
        /\ \A j \in 1..(n - 1) : line[j] = "CR" /\ line[j + 1] = "LF" => ended /\ j + 1 = n
        /\ stage = "headers" => LoneCR \/ LineEndAt(at - k)
        /\ stage = "request" /\ heads # <<>> =>
             LoneCR \/ (LineEndAt(at - k) /\ LineEndAt(at - k - 2))
  BY DEF BlankLines
<1>2. n \in Nat /\ UNCHANGED <<bytes, at, stage, heads>> /\ at = Len(bytes) /\ ~ended
  BY LenProperties DEF TypeInv, Eof, peer, Reading
<1>3. "NUL" \in Byte /\ line' = Append(line, "NUL")
  BY DEF Byte, Eof, RecvEof
<1>4. /\ line' \in Seq(Byte) /\ Len(line') = n + 1 /\ line'[n + 1] = "NUL"
      /\ \A i \in 1..n : line'[i] = line[i]
  BY <1>3, MoreLine DEF TypeInv
<1> HIDE DEF n
<1>5. Gathered(k)'
  <2>1. k <= at /\ k \in 0..n
        /\ (\A j \in 1..k : line[j] = bytes[at - k + j])
        /\ \A j \in 1..n : j > k => line[j] = "NUL"
    BY <1>1 DEF Gathered, n
  <2>2. k \in 0..(n + 1) /\ \A j \in 1..k : j \in 1..n
    BY <1>2, <2>1
  <2>3. \A j \in 1..k : line'[j] = bytes[at - k + j]
    BY <1>4, <2>1, <2>2
  <2>4. \A j \in 1..(n + 1) : j > k => line'[j] = "NUL"
    <3>1. \A j \in 1..(n + 1) : j \in 1..n \/ j = n + 1
      BY <1>2
    <3> QED
      BY <1>4, <2>1, <3>1
  <2> QED
    BY <1>2, <1>4, <2>1, <2>2, <2>3, <2>4 DEF Gathered
<1>6. \A j \in 1..(Len(line') - 1) :
         line'[j] = "CR" /\ line'[j + 1] = "LF" => ended' /\ j + 1 = Len(line')
  <2> SUFFICES ASSUME NEW j \in 1..n, line'[j] = "CR", line'[j + 1] = "LF"
               PROVE  FALSE
    <3>1. Len(line') - 1 = n
      BY <1>2, <1>4
    <3> QED
      BY <3>1
  <2>1. j + 1 # n + 1
    BY <1>4
  <2>2. j \in 1..(n - 1) /\ j \in 1..n /\ j + 1 \in 1..n
    BY <1>2, <2>1
  <2>3. line[j] = "CR" /\ line[j + 1] = "LF"
    BY <1>4, <2>2
  <2> QED
    BY <1>1, <1>2, <2>2, <2>3
<1>7. k \in 0..Len(line')
  BY <1>2, <1>4
<1>8. (LoneCR <=> LoneCR') /\ (LineEndAt(at - k) <=> LineEndAt(at - k)')
      /\ (LineEndAt(at - k - 2) <=> LineEndAt(at - k - 2)')
  BY <1>2 DEF LoneCR, LineEndAt
<1> QED
  BY <1>1, <1>2, <1>5, <1>6, <1>7, <1>8 DEF BlankLines

\* The end of a line that was accepted, where no CR stands alone.
LEMMA AcceptedEnds ==
  ASSUME TypeInv, NEW k \in Nat, Gathered(k),
         \A j \in 1..(Len(line) - 1) :
           line[j] = "CR" /\ line[j + 1] = "LF" => ended /\ j + 1 = Len(line),
         NEW i \in 1..(Len(line) - 1), line[i] = "CR", line[i + 1] # "NUL"
  PROVE  LoneCR \/ LineEndAt(at)
<1> DEFINE n == Len(line)
<1>1. n \in Nat /\ at \in Nat /\ at <= Len(bytes) /\ k <= at /\ k <= n /\ Len(bytes) \in Nat
  BY LenProperties DEF TypeInv, Gathered
<1>2. /\ \A j \in 1..k : line[j] = bytes[at - k + j]
      /\ \A j \in 1..n : j > k => line[j] = "NUL"
  BY DEF Gathered
<1> HIDE DEF n
<1>3. i + 1 \in 1..n /\ i \in 1..n /\ i \in Nat
  BY <1>1 DEF n
<1>4. i + 1 <= k
  BY <1>1, <1>2, <1>3
<1> DEFINE p == at - k + i
<1>5. i \in 1..k /\ i + 1 \in 1..k /\ at - k + (i + 1) = p + 1 /\ p \in 1..(at - 1)
  BY <1>1, <1>3, <1>4
<1>6. bytes[p] = "CR" /\ bytes[p + 1] = line[i + 1]
  BY <1>2, <1>5
<1> HIDE DEF p
<1>7. CASE line[i + 1] = "LF"
  <2>1. i + 1 = n
    BY <1>7 DEF n
  <2>2. p + 1 = at /\ at - 1 = p /\ at \in 2..Len(bytes)
    BY <1>1, <1>3, <1>4, <1>5, <2>1 DEF p
  <2> QED
    BY <1>6, <1>7, <2>2 DEF LineEndAt
<1>8. CASE line[i + 1] # "LF"
  BY <1>5, <1>6, <1>8 DEF LoneCR
<1> QED
  BY <1>7, <1>8

\* A blank line.
LEMMA BlankEnds ==
  ASSUME TypeInv, NEW k \in Nat, Gathered(k), line = CRLF
  PROVE  k = 2 /\ LineEndAt(at)
<1>1. Len(line) = 2 /\ line[1] = "CR" /\ line[2] = "LF"
  BY CRLFIs
<1>2. k \in 0..2 /\ k <= at /\ at \in 0..Len(bytes) /\ Len(bytes) \in Nat
  BY <1>1, LenProperties DEF Gathered, TypeInv
<1>3. k = 2
  <2>1. 2 \in 1..Len(line) /\ (2 > k => line[2] = "NUL")
    BY <1>1 DEF Gathered
  <2> QED
    BY <1>1, <1>2, <2>1
<1>4. \A j \in 1..2 : line[j] = bytes[at - 2 + j]
  BY <1>3 DEF Gathered
<1>5. at - 2 + 1 = at - 1 /\ at - 2 + 2 = at /\ at \in 2..Len(bytes)
  BY <1>2, <1>3
<1>6. bytes[at - 2 + 1] = "CR" /\ bytes[at - 2 + 2] = "LF"
  BY <1>1, <1>4
<1>7. bytes[at - 1] = "CR" /\ bytes[at] = "LF"
  BY <1>5, <1>6
<1> QED
  BY <1>3, <1>5, <1>7 DEF LineEndAt

LEMMA NextLineBlank ==
  ASSUME TypeInv, NEW s, NextLine(s), reader = "cpp",
         s = "headers" => LoneCR \/ LineEndAt(at),
         s = "request" /\ heads' # <<>> => LoneCR \/ (LineEndAt(at) /\ LineEndAt(at - 2))
  PROVE  BlankLines'
<1>1. line' = <<>> /\ Len(line') = 0 /\ stage' = s /\ UNCHANGED <<bytes, at>>
  BY DEF NextLine, peer
<1>2. at \in Nat
  BY LenProperties DEF TypeInv
<1>3. Gathered(0)'
  BY <1>1, <1>2 DEF Gathered
<1>4. (LoneCR <=> LoneCR') /\ (LineEndAt(at) <=> LineEndAt(at - 0)')
      /\ (LineEndAt(at - 2) <=> LineEndAt(at - 0 - 2)')
  <2>1. at - 0 = at
    BY <1>2
  <2> QED
    BY <1>1, <2>1 DEF LoneCR, LineEndAt
<1> QED
  BY <1>1, <1>3, <1>4 DEF BlankLines

LEMMA BlankNext ==
  TypeInv /\ BlankLines /\ [Next]_vars => BlankLines'
<1> SUFFICES ASSUME TypeInv, BlankLines, [Next]_vars, reader' = "cpp"
             PROVE  BlankLines'
  BY DEF BlankLines
<1>0. reader = "cpp"
  BY DEF Next, vars, peer, Recv, Eof, SkipBlank, ReadRequest, ReadHeader, EndOfHead, Refuse,
         NextLine
<1>1. PICK k \in 0..Len(line) :
        /\ Gathered(k)
        /\ \A j \in 1..(Len(line) - 1) :
             line[j] = "CR" /\ line[j + 1] = "LF" => ended /\ j + 1 = Len(line)
        /\ stage = "headers" => LoneCR \/ LineEndAt(at - k)
        /\ stage = "request" /\ heads # <<>> =>
             LoneCR \/ (LineEndAt(at - k) /\ LineEndAt(at - k - 2))
  BY <1>0 DEF BlankLines
<1>2. k \in Nat /\ line \in Seq(Byte) /\ at \in Nat
  BY LenProperties DEF TypeInv
<1>3. ASSUME NEW i \in 1..(Len(line) - 1), line[i] = "CR", line[i + 1] # "NUL"
      PROVE  LoneCR \/ LineEndAt(at)
  BY <1>1, <1>2, <1>3, AcceptedEnds
<1>4. line = CRLF => k = 2 /\ LineEndAt(at)
  BY <1>1, <1>2, BlankEnds
<1>5. CASE Recv
  BY <1>0, <1>5, RecvBlank
<1>6. CASE Eof
  BY <1>0, <1>6, EofBlank
<1>7. CASE SkipBlank
  BY <1>0, <1>1, <1>4, <1>7, NextLineBlank DEF SkipBlank, Blank
<1>8. CASE ReadRequest
  <2>1. CppRequest(line) # <<>>
    BY <1>0, <1>8 DEF ReadRequest, RequestParts
  <2>2. LoneCR \/ LineEndAt(at)
    BY <1>2, <1>3, <2>1, CppTypes
  <2> QED
    BY <1>0, <1>8, <2>2, NextLineBlank DEF ReadRequest
<1>9. CASE ReadHeader
  <2>1. CppHeader(line) # <<>>
    BY <1>0, <1>9 DEF ReadHeader, HeaderParts
  <2>2. LoneCR \/ LineEndAt(at)
    BY <1>2, <1>3, <2>1, CppTypes
  <2> QED
    BY <1>0, <1>9, <2>2, NextLineBlank DEF ReadHeader
<1>10. CASE EndOfHead
  <2>1. line = CRLF
    BY <1>0, <1>10 DEF EndOfHead, Blank
  <2>2. LoneCR \/ (LineEndAt(at) /\ LineEndAt(at - 2))
    BY <1>1, <1>4, <1>10, <2>1 DEF EndOfHead
  <2> QED
    BY <1>0, <1>10, <2>2, NextLineBlank DEF EndOfHead
<1>11. CASE Refuse
  BY <1>0, <1>11, NextLineBlank DEF Refuse
<1>12. CASE UNCHANGED vars
  BY <1>12 DEF vars, peer, BlankLines, Gathered, LoneCR, LineEndAt
<1> QED
  BY <1>5, <1>6, <1>7, <1>8, <1>9, <1>10, <1>11, <1>12 DEF Next

\* Where no CR of the peer's stands alone, the C++ server takes a head for complete
\* only behind a blank line, however its lines were cut (base.cpp:103-131, 237-276).
THEOREM HeadBlankLine == Spec => []HeadEndsAtBlankLine
<1>1. TypeInv /\ BlankLines => HeadEndsAtBlankLine
  <2> DEFINE taken == SubSeq(bytes, 1, at)
             alone == {i \in Where(taken, "CR") : i < at /\ taken[i + 1] # "LF"}
             two == CRLF \o CRLF
  <2> SUFFICES ASSUME TypeInv, BlankLines, reader = "cpp", heads # <<>>, stage = "request",
                      line = <<>>, alone = {}
               PROVE  IsSuffix(two, taken)
    BY DEF HeadEndsAtBlankLine
  <2>1. at \in Nat /\ at <= Len(bytes) /\ bytes \in Seq(Byte) /\ at \in Int /\ Len(bytes) \in Nat
    BY LenProperties DEF TypeInv
  <2>2. /\ taken \in Seq(Byte) /\ Len(taken) = at /\ DOMAIN taken = 1..at
        /\ \A i \in 1..at : taken[i] = bytes[i]
    <3>1. /\ taken \in Seq(Byte)
          /\ Len(taken) = IF 1 <= at THEN at - 1 + 1 ELSE 0
          /\ \A i \in 1..(at - 1 + 1) : taken[i] = bytes[1 + i - 1]
      BY <2>1, Part
    <3> HIDE DEF taken
    <3>2. Len(taken) = at /\ \A i \in 1..at : taken[i] = bytes[i]
      BY <2>1, <3>1
    <3> QED
      BY <3>1, <3>2, LenProperties
  <2> HIDE DEF taken
  <2>3. ~LoneCR
    <3> SUFFICES ASSUME NEW i \in 1..(at - 1), bytes[i] = "CR", bytes[i + 1] # "LF"
                 PROVE  FALSE
      BY DEF LoneCR
    <3>1. i \in 1..at /\ i + 1 \in 1..at /\ i < at
      BY <2>1
    <3>2. i \in alone
      BY <2>2, <3>1 DEF Where
    <3> QED
      BY <3>2
  <2>4. LineEndAt(at) /\ LineEndAt(at - 2)
    <3>1. PICK k \in 0..0 : LineEndAt(at - k) /\ LineEndAt(at - k - 2)
      <4>1. Len(line) = 0
        OBVIOUS
      <4> QED
        BY <2>3, <4>1 DEF BlankLines
    <3>2. k = 0 /\ at - k = at
      BY <2>1
    <3> QED
      BY <3>1, <3>2
  <2>5. /\ two \in Seq(Byte) /\ Len(two) = 4
        /\ two[1] = "CR" /\ two[2] = "LF" /\ two[3] = "CR" /\ two[4] = "LF"
    BY DEF CRLF, Byte
  <2> HIDE DEF two
  <2>6. /\ at >= 4 /\ at - 4 + 1 = at - 2 - 1 /\ at - 4 + 2 = at - 2
        /\ at - 4 + 3 = at - 1 /\ at - 4 + 4 = at
        /\ at - 2 - 1 \in 1..at /\ at - 2 \in 1..at /\ at - 1 \in 1..at /\ at \in 1..at
    BY <2>1, <2>4 DEF LineEndAt
  <2>7. /\ taken[at - 2 - 1] = "CR" /\ taken[at - 2] = "LF"
        /\ taken[at - 1] = "CR" /\ taken[at] = "LF"
    BY <2>2, <2>4, <2>6 DEF LineEndAt
  <2>8. \A j \in 1..4 : taken[at - 4 + j] = two[j]
    <3>1. \A j \in 1..4 : j = 1 \/ j = 2 \/ j = 3 \/ j = 4
      OBVIOUS
    <3>2. taken[at - 4 + 1] = two[1] /\ taken[at - 4 + 2] = two[2]
          /\ taken[at - 4 + 3] = two[3] /\ taken[at - 4 + 4] = two[4]
      BY <2>5, <2>6, <2>7
    <3> QED
      BY <3>1, <3>2
  <2>9. Len(two) <= Len(taken)
        /\ \A j \in 1..Len(two) : taken[Len(taken) - Len(two) + j] = two[j]
    BY <2>1, <2>2, <2>5, <2>6, <2>8
  <2> QED
    BY <2>2, <2>5, <2>9, SuffixIs
<1> QED
  BY <1>1, TypeInit, TypeNext, BlankInit, BlankNext, PTL DEF Spec

-----------------------------------------------------------------------------
(* Requests in order                                                       *)

WellSent == sent # <<>> /\ \A i \in DOMAIN sent : WellFormed(i)

\* Where the i-th request ends.
Wire == [i \in DOMAIN sent |-> Written(sent[i])]
Off(i) == Position(Wire, i)

Holds(c, l) == c \in Nat /\ c + Len(l) <= Len(bytes) /\ \A j \in 1..Len(l) : bytes[c + j] = l[j]

\* A line the reader gathers whole.
IsLine(l) ==
  /\ l \in Seq(Byte) /\ Len(l) >= 2
  /\ l[Len(l) - 1] = "CR" /\ l[Len(l)] = "LF"
  /\ \A j \in 1..(Len(l) - 1) : l[j] # "LF"
  /\ reader = "cpp" => Len(l) <= MaxLine

\* It gathers the line l, which begins behind byte c.
Awaits(c, l) ==
  /\ IsLine(l) /\ Holds(c, l)
  /\ at = c + Len(line) /\ Len(line) <= Len(l)
  /\ \A j \in 1..Len(line) : line[j] = l[j]
  /\ ended <=> Len(line) = Len(l)

\* After n requests: the next one, the line end left over from the last one, or the
\* line behind k headers.
ReadsRequest(n) == stage = "request" /\ Awaits(Off(n), RequestLine(sent[n + 1]))
ReadsSurplus(n) == reader = "cpp" /\ stage = "request" /\ Awaits(Off(n) - 2, CRLF)
ReadsHeaders(n, k) ==
  LET r == sent[n + 1]
  IN /\ stage = "headers" /\ k \in 0..Len(r.headers)
     /\ head.method = r.method /\ head.url = r.url /\ head.headers = Kept(r.headers, k)
     /\ Awaits(Off(n) + LineOff(r, k), HeadLine(r, k))
NothingLeft ==
  /\ stage \in {"request", "refused"}
  /\ \A i \in 1..Len(line) : line[i] # "SP"
  /\ \A i \in (at + 1)..Len(bytes) : bytes[i] # "SP"

Underway(n) ==
  \/ ReadsRequest(n) \/ ReadsSurplus(n)
  \/ \E k \in 0..Len(sent[n + 1].headers) : ReadsHeaders(n, k)

\* The requests are sent, as they are, by a client that keeps to the rules.
Sending == WellSent /\ sent \in Sent /\ bytes = FlattenSeq(Wire)

Handled(n) ==
  Len(heads) = n /\ n <= Len(sent) /\ \A i \in 1..n : heads[i] = Meant(sent[i])

InOrder ==
  WellSent =>
    /\ Sending
    /\ \E n \in 0..Len(sent) :
         /\ Handled(n)
         /\ (n = Len(sent) /\ NothingLeft) \/ (n < Len(sent) /\ Underway(n))

\* The requests sent, and where their bytes are.
LEMMA WireIs ==
  ASSUME sent \in Sent, bytes = FlattenSeq(Wire)
  PROVE  /\ Len(sent) \in Nat /\ DOMAIN sent = 1..Len(sent) /\ bytes \in Seq(Byte)
         /\ Off(0) = 0 /\ Off(Len(sent)) = Len(bytes)
         /\ \A n \in 0..(Len(sent) - 1) :
              /\ n + 1 \in 1..Len(sent)
              /\ sent[n + 1] \in RequestType /\ KeysDiffer(sent[n + 1].headers)
              /\ Off(n) \in Nat /\ Off(n + 1) = Off(n) + Len(Written(sent[n + 1]))
              /\ Off(n + 1) \in Nat /\ Off(n + 1) <= Len(bytes)
              /\ \A j \in 1..Len(Written(sent[n + 1])) :
                   bytes[Off(n) + j] = Written(sent[n + 1])[j]
<1>1. sent \in Seq(RequestType) /\ \A i \in DOMAIN sent : KeysDiffer(sent[i].headers)
  BY HeadAssumption
<1>2. Len(sent) \in Nat /\ DOMAIN sent = 1..Len(sent)
  BY <1>1, LenProperties
<1>3. Wire \in Seq(Seq(Byte)) /\ bytes \in Seq(Byte)
  BY WireType DEF Wire
<1>4. Len(Wire) = Len(sent) /\ \A i \in 1..Len(sent) : Wire[i] = Written(sent[i])
  <2>1. DOMAIN Wire = 1..Len(sent)
    BY <1>2 DEF Wire
  <2> QED
    BY <1>2, <1>3, <2>1, LenProperties DEF Wire
<1>5. /\ Len(bytes) = Position(Wire, Len(Wire))
      /\ \A i \in 1..Len(Wire) :
           /\ Position(Wire, i) <= Len(bytes)
           /\ \A j \in 1..Len(Wire[i]) : bytes[Position(Wire, i - 1) + j] = Wire[i][j]
  BY <1>3, Flattened
<1>6. Off(0) = 0 /\ Off(Len(sent)) = Len(bytes)
  BY <1>4, <1>5 DEF Off, Position
<1>7. ASSUME NEW n \in 0..(Len(sent) - 1)
      PROVE  /\ n + 1 \in 1..Len(sent)
             /\ sent[n + 1] \in RequestType /\ KeysDiffer(sent[n + 1].headers)
             /\ Off(n) \in Nat /\ Off(n + 1) = Off(n) + Len(Written(sent[n + 1]))
             /\ Off(n + 1) \in Nat /\ Off(n + 1) <= Len(bytes)
             /\ \A j \in 1..Len(Written(sent[n + 1])) :
                  bytes[Off(n) + j] = Written(sent[n + 1])[j]
  <2> DEFINE i == n + 1
  <2>1. i \in 1..Len(sent) /\ i - 1 = n
    BY <1>2
  <2> HIDE DEF i
  <2>2. i \in 1..Len(Wire) /\ i \in DOMAIN sent /\ Wire[i] = Written(sent[i])
    BY <1>2, <1>4, <2>1
  <2>3. sent[i] \in RequestType /\ KeysDiffer(sent[i].headers)
    BY <1>1, <2>1, <2>2, ElementOfSeq
  <2>4. /\ Position(Wire, i - 1) \in Nat /\ Position(Wire, i) \in Nat
        /\ Position(Wire, i) = Position(Wire, i - 1) + Len(Wire[i])
    BY <1>3, <2>2, PositionStep
  <2>5. /\ Position(Wire, i) <= Len(bytes)
        /\ \A j \in 1..Len(Wire[i]) : bytes[Position(Wire, i - 1) + j] = Wire[i][j]
    BY <1>5, <2>2
  <2>6. /\ Off(n) \in Nat /\ Off(i) \in Nat /\ Off(i) = Off(n) + Len(Written(sent[i]))
        /\ Off(i) <= Len(bytes)
        /\ \A j \in 1..Len(Written(sent[i])) : bytes[Off(n) + j] = Written(sent[i])[j]
    BY <2>1, <2>2, <2>4, <2>5, Zenon DEF Off
  <2> QED
    BY <2>1, <2>3, <2>6, Zenon DEF i
<1> QED
  BY <1>2, <1>3, <1>6, <1>7

\* What WellFormed says, byte by byte.
LEMMA GoodRequest ==
  ASSUME sent \in Sent, NEW i \in 1..Len(sent), WellFormed(i), sent[i] \in RequestType
  PROVE  LET r == sent[i]
         IN  /\ r.method \in Seq(Byte) /\ r.method # <<>>
             /\ \A k \in 1..Len(r.method) : r.method[k] = "A"
             /\ r.url \in Seq(Byte) /\ r.url # <<>>
             /\ \A k \in 1..Len(r.url) : r.url[k] \notin {"CR", "LF", "NUL"}
             /\ reader = "cpp" => /\ \A k \in 1..Len(r.url) : r.url[k] \notin {"SP", "CR", "LF", "NUL"}
                                  /\ Len(RequestLine(r)) <= MaxLine
             /\ reader = "python" => r.headers # <<>> \/ i = Len(sent)
             /\ r.headers \in Seq(Seq(Byte) \X Seq(Byte))
<1> DEFINE r == sent[i]
<1>1. r.method \in Seq(Byte) /\ r.url \in Seq(Byte) /\ r.headers \in Seq(Seq(Byte) \X Seq(Byte))
  BY DEF RequestType
<1>2. DOMAIN r.method = 1..Len(r.method) /\ DOMAIN r.url = 1..Len(r.url)
  BY <1>1, LenProperties
<1>3. /\ r.method # <<>> /\ \A k \in DOMAIN r.method : r.method[k] = "A"
      /\ r.url # <<>> /\ \A k \in DOMAIN r.url : r.url[k] \notin {"CR", "LF", "NUL"}
      /\ reader = "cpp" => (\A k \in DOMAIN r.url : r.url[k] \notin {"SP"})
                           /\ Len(RequestLine(r)) <= MaxLine
      /\ reader = "python" => r.headers # <<>> \/ i = Len(sent)
  BY DEF WellFormed, Without
<1> HIDE DEF r
<1>4. reader = "cpp" => /\ \A k \in 1..Len(r.url) : r.url[k] \notin {"SP", "CR", "LF", "NUL"}
                        /\ Len(RequestLine(r)) <= MaxLine
  BY <1>2, <1>3
<1> QED
  BY <1>1, <1>2, <1>3, <1>4 DEF r

LEMMA GoodHeader ==
  ASSUME sent \in Sent, NEW i \in 1..Len(sent), WellFormed(i), sent[i] \in RequestType,
         NEW k \in 1..Len(sent[i].headers)
  PROVE  LET h == sent[i].headers[k]
         IN  /\ h \in Seq(Byte) \X Seq(Byte) /\ h[1] # <<>>
             /\ Trimmed(h[1]) /\ Trimmed(h[2])
             /\ \A j \in 1..Len(h[1]) : h[1][j] \notin {"COLON", "CR", "LF", "NUL"}
             /\ \A j \in 1..Len(h[2]) : h[2][j] \notin {"CR", "LF", "NUL"}
             /\ reader = "cpp" => Len(HeaderLine(h)) <= MaxLine
<1> DEFINE hs == sent[i].headers
           h == hs[k]
<1>1. hs \in Seq(Seq(Byte) \X Seq(Byte))
  BY DEF RequestType
<1>2. k \in DOMAIN hs /\ h \in Seq(Byte) \X Seq(Byte)
  BY <1>1, ElementOfSeq, LenProperties
<1>3. h \in ToSet(hs)
  BY <1>2 DEF ToSet
<1>4. \A g \in ToSet(hs) :
        /\ g[1] # <<>> /\ Without(g[1], {"COLON", "CR", "LF", "NUL"}) /\ Trimmed(g[1])
        /\ Without(g[2], {"CR", "LF", "NUL"}) /\ Trimmed(g[2])
        /\ reader = "cpp" => Len(HeaderLine(g)) <= MaxLine
  BY DEF WellFormed
<1> HIDE DEF h, hs
<1>5. h[1] \in Seq(Byte) /\ h[2] \in Seq(Byte)
  BY <1>2
<1>6. DOMAIN h[1] = 1..Len(h[1]) /\ DOMAIN h[2] = 1..Len(h[2])
  BY <1>5, LenProperties
<1>7. /\ h[1] # <<>> /\ Without(h[1], {"COLON", "CR", "LF", "NUL"}) /\ Trimmed(h[1])
      /\ Without(h[2], {"CR", "LF", "NUL"}) /\ Trimmed(h[2])
      /\ reader = "cpp" => Len(HeaderLine(h)) <= MaxLine
  BY <1>3, <1>4
<1>8. (\A j \in 1..Len(h[1]) : h[1][j] \notin {"COLON", "CR", "LF", "NUL"})
      /\ \A j \in 1..Len(h[2]) : h[2][j] \notin {"CR", "LF", "NUL"}
  BY <1>6, <1>7 DEF Without
<1> QED
  BY <1>2, <1>7, <1>8 DEF h, hs

\* The lines of a request: the readers gather them whole and parse them as meant.
LEMMA GoodRequestLine ==
  ASSUME TypeInv, sent \in Sent, NEW i \in 1..Len(sent), WellFormed(i), sent[i] \in RequestType
  PROVE  /\ IsLine(RequestLine(sent[i])) /\ RequestLine(sent[i]) # CRLF
         /\ RequestParts(RequestLine(sent[i])) = <<sent[i].method, sent[i].url>>
<1> DEFINE r == sent[i]
<1>1. /\ r.method \in Seq(Byte) /\ r.method # <<>>
      /\ \A k \in 1..Len(r.method) : r.method[k] = "A"
      /\ r.url \in Seq(Byte) /\ r.url # <<>>
      /\ \A k \in 1..Len(r.url) : r.url[k] \notin {"CR", "LF", "NUL"}
      /\ reader = "cpp" => /\ \A k \in 1..Len(r.url) : r.url[k] \notin {"SP", "CR", "LF", "NUL"}
                           /\ Len(RequestLine(r)) <= MaxLine
  BY GoodRequest
<1>2. r \in RequestType
  OBVIOUS
<1> HIDE DEF r
<1>3. IsLine(RequestLine(r))
  BY <1>1, <1>2, RequestLineEnds DEF IsLine
<1>4. RequestLine(r) # CRLF
  <2>1. Len(RequestLine(r)) = Len(r.method) + Len(r.url) + 5 /\ Len(r.method) \in Nat
        /\ Len(r.url) \in Nat
    BY <1>1, RequestLineIs
  <2>2. Len(RequestLine(r)) # 2
    <3>1. \A a, b \in Nat : a + b + 5 # 2
      OBVIOUS
    <3>2. Len(r.method) + Len(r.url) + 5 # 2
      BY <2>1, <3>1, Zenon
    <3> QED
      BY <2>1, <3>2, Zenon
  <2> QED
    BY <2>2, CRLFIs
<1>5. CASE reader = "cpp"
  BY <1>1, <1>3, <1>4, <1>5, CppRequestLine DEF RequestParts, r
<1>6. CASE reader # "cpp"
  BY <1>1, <1>3, <1>4, <1>6, PyRequestLine DEF RequestParts, r
<1> QED
  BY <1>5, <1>6

LEMMA GoodHeaderLine ==
  ASSUME TypeInv, sent \in Sent, NEW i \in 1..Len(sent), WellFormed(i), sent[i] \in RequestType,
         NEW k \in 1..Len(sent[i].headers)
  PROVE  LET h == sent[i].headers[k]
         IN  /\ IsLine(HeaderLine(h)) /\ HeaderLine(h) # CRLF
             /\ HeaderParts(HeaderLine(h)) = <<h[1], h[2]>>
<1> DEFINE h == sent[i].headers[k]
<1>1. /\ h \in Seq(Byte) \X Seq(Byte) /\ h[1] # <<>>
      /\ Trimmed(h[1]) /\ Trimmed(h[2])
      /\ \A j \in 1..Len(h[1]) : h[1][j] \notin {"COLON", "CR", "LF", "NUL"}
      /\ \A j \in 1..Len(h[2]) : h[2][j] \notin {"CR", "LF", "NUL"}
      /\ reader = "cpp" => Len(HeaderLine(h)) <= MaxLine
  BY GoodHeader
<1> HIDE DEF h
<1>2. IsLine(HeaderLine(h))
  BY <1>1, HeaderLineEnds DEF IsLine
<1>3. HeaderLine(h) # CRLF
  <2>1. Len(HeaderLine(h)) = Len(h[1]) + Len(h[2]) + 3 /\ Len(h[1]) \in Nat /\ Len(h[2]) \in Nat
    BY <1>1, HeaderLineIs
  <2>2. Len(HeaderLine(h)) # 2
    <3>1. \A a, b \in Nat : a + b + 3 # 2
      OBVIOUS
    <3>2. Len(h[1]) + Len(h[2]) + 3 # 2
      BY <2>1, <3>1, Zenon
    <3> QED
      BY <2>1, <3>2, Zenon
  <2> QED
    BY <2>2, CRLFIs
<1>4. CASE reader = "cpp"
  <2>1. CppHeader(HeaderLine(h)) = <<h[1], h[2]>>
    BY <1>1, CppHeaderLine
  <2> QED
    BY <1>2, <1>3, <1>4, <2>1 DEF HeaderParts, h
<1>5. CASE reader # "cpp"
  <2>1. PyHeader(HeaderLine(h)) = <<h[1], h[2]>>
    BY <1>1, PyHeaderLine
  <2> QED
    BY <1>2, <1>3, <1>5, <2>1 DEF HeaderParts, h
<1> QED
  BY <1>4, <1>5

\* And what they make of a line end.
LEMMA CRLFLine ==
  /\ IsLine(CRLF)
  /\ reader # "cpp" => HeaderParts(CRLF) = <<>>
<1>1. IsLine(CRLF)
  <2>1. \A j \in 1..(Len(CRLF) - 1) : j = 1
    BY CRLFIs
  <2>2. CRLF[1] # "LF"
    BY CRLFIs
  <2>3. Len(CRLF) <= MaxLine
    BY HeadAssumption, CRLFIs
  <2> QED
    BY <2>1, <2>2, <2>3, CRLFIs DEF IsLine
<1>2. \A j \in 1..Len(CRLF) : CRLF[j] # "COLON"
  <2>1. \A j \in 1..2 : j = 1 \/ j = 2
    OBVIOUS
  <2> QED
    BY <2>1, CRLFIs
<1>3. PyHeader(CRLF) = <<>>
  BY <1>2, CRLFIs, PyNone
<1> QED
  BY <1>1, <1>3 DEF HeaderParts

-----------------------------------------------------------------------------
(* A line on its way                                                       *)

LEMMA AwaitsIs ==
  ASSUME TypeInv, NEW c, NEW l, Awaits(c, l), NEW m, m = Len(line)
  PROVE  /\ l \in Seq(Byte) /\ Len(l) \in Nat /\ Len(l) >= 2 /\ Len(bytes) \in Nat
         /\ c \in Nat /\ m \in Nat /\ m <= Len(l) /\ at = c + m /\ c + Len(l) <= Len(bytes)
         /\ line \in Seq(Byte) /\ (ended <=> m = Len(l)) /\ ended \in BOOLEAN
         /\ \A j \in 1..m : line[j] = l[j]
<1>1. l \in Seq(Byte) /\ line \in Seq(Byte) /\ bytes \in Seq(Byte) /\ ended \in BOOLEAN
  BY DEF TypeInv, Awaits, IsLine
<1>2. Len(l) \in Nat /\ Len(line) \in Nat /\ Len(bytes) \in Nat
  BY <1>1, LenProperties
<1> QED
  BY <1>1, <1>2 DEF Awaits, IsLine, Holds

\* The next byte of the line, and the end of it with its last byte only.
LEMMA RecvAwaits ==
  ASSUME TypeInv, NEW c, NEW l, Awaits(c, l), Recv
  PROVE  Awaits(c, l)'
<1>1. PICK m : m = Len(line)
  OBVIOUS
<1>2. PICK n : n = Len(l)
  OBVIOUS
<1>3. /\ l \in Seq(Byte) /\ n \in Nat /\ n >= 2
      /\ c \in Nat /\ m \in Nat /\ m <= n /\ at = c + m /\ c + n <= Len(bytes)
      /\ line \in Seq(Byte) /\ (ended <=> m = n)
      /\ \A j \in 1..m : line[j] = l[j]
  BY <1>1, <1>2, AwaitsIs
<1>4. /\ l[n - 1] = "CR" /\ l[n] = "LF" /\ \A j \in 1..(n - 1) : l[j] # "LF"
      /\ reader = "cpp" => n <= MaxLine
      /\ \A j \in 1..n : bytes[c + j] = l[j]
  BY <1>2 DEF Awaits, IsLine, Holds
<1>5. UNCHANGED <<reader, bytes>> /\ ~ended
  BY DEF Recv, peer, Reading
<1>6. m < n /\ m + 1 \in 1..n /\ m + 1 <= n /\ c + m + 1 = c + (m + 1)
  BY <1>3, <1>5
<1>7. l[m + 1] \in Byte /\ bytes[at + 1] = l[m + 1]
  <2>1. l[m + 1] \in Byte
    BY <1>2, <1>3, <1>6, ElementOfSeq
  <2>2. bytes[c + (m + 1)] = l[m + 1]
    BY <1>4, <1>6
  <2> QED
    BY <1>3, <1>6, <2>1, <2>2
<1>8. line' = Append(line, l[m + 1]) /\ at' = at + 1
  BY <1>7 DEF Recv
<1>9. /\ line' \in Seq(Byte) /\ Len(line') = m + 1 /\ line'[m + 1] = l[m + 1]
      /\ \A i \in 1..m : line'[i] = line[i]
  BY <1>1, <1>3, <1>7, <1>8, MoreLine
<1>10. \A i \in 1..(m + 1) : line'[i] = l[i]
  <2>1. \A i \in 1..(m + 1) : i \in 1..m \/ i = m + 1
    BY <1>3
  <2> QED
    BY <1>3, <1>9, <2>1
<1>11. at' = c + (m + 1)
  BY <1>3, <1>6, <1>8
<1>12. ended' <=> m + 1 = n
  <2>1. CASE m + 1 = n
    <3>1. Len(line') >= 2 /\ Len(line') - 1 = n - 1 /\ n - 1 \in 1..(m + 1) /\ n \in 1..(m + 1)
      BY <1>3, <1>9, <2>1
    <3>2. line'[Len(line') - 1] = "CR" /\ line'[Len(line')] = "LF"
      BY <1>4, <1>9, <1>10, <2>1, <3>1
    <3>3. IsSuffix(CRLF, line')
      BY <1>9, <3>1, <3>2, EndsWithCRLF
    <3> QED
      BY <2>1, <3>3 DEF Recv
  <2>2. CASE m + 1 # n
    <3>1. m + 1 \in 1..(n - 1) /\ m + 1 \in 1..(m + 1) /\ m + 1 < n
      BY <1>3, <1>6, <2>2
    <3>2. line'[m + 1] # "LF"
      BY <1>4, <1>10, <3>1
    <3>3. ~IsSuffix(CRLF, line')
      BY <1>9, <3>2, EndsWithCRLF
    <3>4. ~(reader = "cpp" /\ Full(line'))
      <4>1. \A x \in Nat : m + 1 < n /\ n <= x => m + 1 # x
        BY <1>3
      <4> QED
        BY <1>4, <1>9, <3>1, <4>1, HeadAssumption DEF Full
    <3>5. line' # <<"LF">>
      <4>1. Len(<<"LF">>) = 1 /\ <<"LF">>[1] = "LF"
        OBVIOUS
      <4>2. m + 1 = 1 => line' # <<"LF">>
        BY <3>2, <4>1
      <4> QED
        BY <1>9, <4>1, <4>2
    <3> QED
      BY <2>2, <3>3, <3>4, <3>5 DEF Recv
  <2> QED
    BY <2>1, <2>2
<1>13. IsLine(l)' /\ Holds(c, l)'
  BY <1>5 DEF Awaits, IsLine, Holds
<1> QED
  BY <1>2, <1>6, <1>9, <1>10, <1>11, <1>12, <1>13 DEF Awaits

\* The connection does not end inside a line of the peer's.
LEMMA EofAwaits ==
  ASSUME TypeInv, NEW c, NEW l, Awaits(c, l), Eof
  PROVE  FALSE
<1>1. PICK m : m = Len(line)
  OBVIOUS
<1>2. PICK n : n = Len(l)
  OBVIOUS
<1>3. /\ n \in Nat /\ c \in Nat /\ m \in Nat /\ m <= n /\ at = c + m /\ c + n <= Len(bytes)
      /\ (ended <=> m = n) /\ Len(bytes) \in Nat
  BY <1>1, <1>2, AwaitsIs
<1>4. at = Len(bytes) /\ ~ended
  BY DEF Eof, Reading
<1> QED
  BY <1>3, <1>4

\* The line is read.
LEMMA EndAwaits ==
  ASSUME TypeInv, NEW c, NEW l, Awaits(c, l), ended
  PROVE  line = l /\ at = c + Len(l)
<1>1. PICK m : m = Len(line)
  OBVIOUS
<1>2. /\ l \in Seq(Byte) /\ m = Len(l) /\ at = c + m /\ line \in Seq(Byte)
      /\ \A j \in 1..m : line[j] = l[j]
  BY <1>1, AwaitsIs
<1>3. line = l
  BY <1>1, <1>2, SeqEqual
<1> QED
  BY <1>2, <1>3

LEMMA BeginAwaits ==
  ASSUME TypeInv, NEW s, NextLine(s), NEW c, NEW l, IsLine(l), Holds(c, l), at = c
  PROVE  Awaits(c, l)'
<1>1. line' = <<>> /\ Len(line') = 0 /\ ~ended' /\ UNCHANGED <<reader, bytes, at>>
  BY DEF NextLine, peer
<1>2. c \in Nat /\ Len(l) \in Nat /\ Len(l) >= 2
  BY LenProperties DEF IsLine, Holds
<1>3. IsLine(l)' /\ Holds(c, l)'
  BY <1>1 DEF IsLine, Holds
<1> QED
  BY <1>1, <1>2, <1>3 DEF Awaits

-----------------------------------------------------------------------------
(* A request on its way                                                    *)

\* The lines of the request behind n of them, where they are and what is read there.
Lines(n) ==
  LET r == sent[n + 1]
      m == Len(r.headers)
  IN /\ m \in Nat /\ Off(n) \in Nat
     /\ IsLine(RequestLine(r)) /\ RequestLine(r) # CRLF /\ Holds(Off(n), RequestLine(r))
     /\ RequestParts(RequestLine(r)) = <<r.method, r.url>>
     /\ LineOff(r, 0) = Len(RequestLine(r))
     /\ \A k \in 0..m :
          /\ LineOff(r, k) \in Nat
          /\ IsLine(HeadLine(r, k)) /\ Holds(Off(n) + LineOff(r, k), HeadLine(r, k))
     /\ \A k \in 0..(m - 1) :
          /\ HeadLine(r, k) # CRLF
          /\ HeaderParts(HeadLine(r, k)) = <<r.headers[k + 1][1], r.headers[k + 1][2]>>
          /\ LineOff(r, k + 1) = LineOff(r, k) + Len(HeadLine(r, k))
     /\ r.headers # <<>> => Off(n) + LineOff(r, m) + 2 = Off(n + 1)
     /\ r.headers = <<>> => /\ m = 0 /\ Off(n) + LineOff(r, m) + 4 = Off(n + 1)
                            /\ Holds(Off(n + 1) - 2, CRLF)
     /\ reader = "cpp" \/ r.headers # <<>> \/ n + 1 = Len(sent)

LEMMA LinesAre ==
  ASSUME TypeInv, Sending, NEW n \in 0..(Len(sent) - 1)
  PROVE  Lines(n)
<1> DEFINE i == n + 1
           r == sent[i]
           m == Len(r.headers)
           W == Written(r)
<1>1. /\ i \in 1..Len(sent) /\ r \in RequestType
      /\ Off(n) \in Nat /\ Off(i) = Off(n) + Len(W)
      /\ Off(i) \in Nat /\ Off(i) <= Len(bytes)
      /\ \A j \in 1..Len(W) : bytes[Off(n) + j] = W[j]
  BY WireIs DEF Sending
<1>2. WellFormed(i)
  <2>1. DOMAIN sent = 1..Len(sent)
    BY WireIs DEF Sending
  <2> QED
    BY <1>1, <2>1 DEF Sending, WellSent
<1>3. /\ Len(W) \in Nat /\ m \in Nat
      /\ Len(RequestLine(r)) <= Len(W)
      /\ \A j \in 1..Len(RequestLine(r)) : W[j] = RequestLine(r)[j]
      /\ LineOff(r, 0) = Len(RequestLine(r))
      /\ \A k \in 0..m : /\ LineOff(r, k) \in Nat
                         /\ LineOff(r, k) + Len(HeadLine(r, k)) <= Len(W)
                         /\ \A j \in 1..Len(HeadLine(r, k)) :
                              W[LineOff(r, k) + j] = HeadLine(r, k)[j]
      /\ \A k \in 0..(m - 1) : LineOff(r, k + 1) = LineOff(r, k) + Len(HeadLine(r, k))
      /\ r.headers # <<>> => LineOff(r, m) + 2 = Len(W)
      /\ r.headers = <<>> => /\ m = 0 /\ LineOff(r, m) + 4 = Len(W)
                             /\ \A j \in 1..2 : W[Len(W) - 2 + j] = CRLF[j]
  BY <1>1, WrittenIs
<1>4. /\ IsLine(RequestLine(r)) /\ RequestLine(r) # CRLF
      /\ RequestParts(RequestLine(r)) = <<r.method, r.url>>
  BY <1>1, <1>2, GoodRequestLine DEF Sending
<1>5. ASSUME NEW k \in 0..(m - 1)
      PROVE  /\ IsLine(HeadLine(r, k)) /\ HeadLine(r, k) # CRLF
             /\ HeaderParts(HeadLine(r, k)) = <<r.headers[k + 1][1], r.headers[k + 1][2]>>
  <2>1. k + 1 \in 1..m /\ k < m
    BY <1>3
  <2>2. LET h == r.headers[k + 1]
        IN  /\ IsLine(HeaderLine(h)) /\ HeaderLine(h) # CRLF
            /\ HeaderParts(HeaderLine(h)) = <<h[1], h[2]>>
    BY <1>1, <1>2, <2>1, GoodHeaderLine DEF Sending
  <2> QED
    BY <2>1, <2>2, Zenon DEF HeadLine
<1>6. reader = "cpp" \/ r.headers # <<>> \/ i = Len(sent)
  <2>1. reader = "python" => r.headers # <<>> \/ i = Len(sent)
    BY <1>2 DEF WellFormed
  <2> QED
    BY <2>1, HeadAssumption DEF TypeInv
<1>7. ASSUME NEW k \in 0..m
      PROVE  IsLine(HeadLine(r, k))
  <2>1. CASE k = m
    <3>1. HeadLine(r, k) = CRLF
      BY <1>3, <2>1 DEF HeadLine
    <3> QED
      BY <3>1, CRLFLine
  <2>2. CASE k # m
    <3>1. k \in 0..(m - 1)
      BY <1>3, <2>2
    <3> QED
      BY <1>5, <3>1
  <2> QED
    BY <2>1, <2>2
<1> HIDE DEF W, m, r, i
\* Bytes of the request are bytes of the wire.
<1>8. ASSUME NEW p \in Nat, NEW l, Len(l) \in Nat, p + Len(l) <= Len(W),
             \A j \in 1..Len(l) : W[p + j] = l[j]
      PROVE  Holds(Off(n) + p, l)
  <2>1. PICK z : z = Len(l)
    OBVIOUS
  <2>2. z \in Nat /\ p + z <= Len(W) /\ \A j \in 1..z : W[p + j] = l[j]
    BY <1>8, <2>1
  <2>3. Off(n) + p \in Nat /\ Off(n) + p + z <= Len(bytes)
    <3>1. \A o, q, b, w \in Nat : q + z <= w /\ o + w <= b => o + q \in Nat /\ o + q + z <= b
      BY <2>2
    <3>2. Len(bytes) \in Nat
      BY LenProperties DEF TypeInv
    <3>3. Off(n) + Len(W) <= Len(bytes)
      BY <1>1
    <3> QED
      BY <1>1, <1>3, <1>8, <2>2, <3>1, <3>2, <3>3, Zenon
  <2>4. ASSUME NEW j \in 1..z
        PROVE  bytes[Off(n) + p + j] = l[j]
    <3>1. p + j \in 1..Len(W) /\ Off(n) + p + j = Off(n) + (p + j)
      <4>1. \A o, w \in Nat : p + z <= w => p + j \in 1..w /\ o + p + j = o + (p + j)
        BY <2>2
      <4> QED
        BY <1>1, <1>3, <2>2, <4>1, Zenon
    <3> QED
      BY <1>1, <2>2, <3>1
  <2> QED
    BY <2>1, <2>3, <2>4 DEF Holds
<1>9. Holds(Off(n), RequestLine(r))
  <2>1. Len(RequestLine(r)) \in Nat
    BY <1>4, LenProperties DEF IsLine
  <2>2. \A x \in Nat : 0 + x = x
    OBVIOUS
  <2>3. \A j \in 1..Len(RequestLine(r)) : W[0 + j] = RequestLine(r)[j]
    <3>1. \A j \in 1..Len(RequestLine(r)) : 0 + j = j
      OBVIOUS
    <3> QED
      BY <1>3, <3>1
  <2>4. Holds(Off(n) + 0, RequestLine(r))
    BY <1>3, <1>8, <2>1, <2>2, <2>3
  <2>5. Off(n) + 0 = Off(n)
    BY <1>1
  <2> QED
    BY <2>4, <2>5
<1>10. ASSUME NEW k \in 0..m
       PROVE  Holds(Off(n) + LineOff(r, k), HeadLine(r, k))
  <2>1. Len(HeadLine(r, k)) \in Nat
    BY <1>7, LenProperties DEF IsLine
  <2> QED
    BY <1>3, <1>8, <2>1
<1>11. /\ r.headers # <<>> => Off(n) + LineOff(r, m) + 2 = Off(i)
       /\ r.headers = <<>> => Off(n) + LineOff(r, m) + 4 = Off(i)
  <2>1. \A o, w, x \in Nat : /\ x + 2 = w => o + x + 2 = o + w
                             /\ x + 4 = w => o + x + 4 = o + w
    OBVIOUS
  <2>2. m \in 0..m
    BY <1>3
  <2>3. LineOff(r, m) \in Nat
        /\ (r.headers # <<>> => LineOff(r, m) + 2 = Len(W))
        /\ (r.headers = <<>> => LineOff(r, m) + 4 = Len(W))
    BY <1>3, <2>2
  <2>4. Off(n) \in Nat /\ Off(i) = Off(n) + Len(W) /\ Len(W) \in Nat
    BY <1>1, <1>3
  <2> QED
    BY <2>1, <2>3, <2>4, Zenon
<1>12. ASSUME r.headers = <<>>
       PROVE  Holds(Off(i) - 2, CRLF)
  <2>1. /\ Len(W) - 2 \in Nat /\ Len(W) - 2 + 2 <= Len(W)
        /\ \A j \in 1..2 : W[Len(W) - 2 + j] = CRLF[j]
    <3>1. 0 \in 0..m /\ m = 0 /\ LineOff(r, 0) \in Nat /\ LineOff(r, 0) + 4 = Len(W)
      BY <1>3, <1>12
    <3>2. Len(W) - 2 \in Nat /\ Len(W) - 2 + 2 <= Len(W)
      BY <1>3, <3>1
    <3> QED
      BY <1>3, <1>12, <3>2
  <2>2. Holds(Off(n) + (Len(W) - 2), CRLF)
    <3>1. PICK p : p = Len(W) - 2
      OBVIOUS
    <3>2. /\ p \in Nat /\ Len(CRLF) \in Nat
          /\ p + Len(CRLF) <= Len(W) /\ \A j \in 1..Len(CRLF) : W[p + j] = CRLF[j]
      BY <2>1, <3>1, CRLFIs
    <3>3. Holds(Off(n) + p, CRLF)
      BY <1>8, <3>2
    <3> QED
      BY <3>1, <3>3, Zenon
  <2>3. Off(n) + (Len(W) - 2) = Off(i) - 2
    <3>1. \A o, w \in Nat : o + (w - 2) = (o + w) - 2
      OBVIOUS
    <3>2. Off(n) + (Len(W) - 2) = (Off(n) + Len(W)) - 2
      BY <1>1, <1>3, <3>1, Zenon
    <3> QED
      BY <1>1, <3>2, Zenon
  <2> QED
    BY <2>2, <2>3
<1> QED
  BY <1>1, <1>3, <1>4, <1>5, <1>6, <1>7, <1>9, <1>10, <1>11, <1>12, Zenon DEF Lines, i, r, m

-----------------------------------------------------------------------------
(* The steps                                                               *)

\* What the peer sends stays what it is.
LEMMA PeerKept ==
  ASSUME UNCHANGED peer
  PROVE  /\ WellSent <=> WellSent'
         /\ Sending <=> Sending'
         /\ sent' = sent /\ reader' = reader /\ bytes' = bytes
         /\ Wire' = Wire /\ \A n : Off(n)' = Off(n)
<1>1. sent' = sent /\ reader' = reader /\ bytes' = bytes
  BY DEF peer
<1>2. WellSent <=> WellSent'
  BY <1>1 DEF WellSent, WellFormed
<1>3. Wire' = Wire /\ \A n : Off(n)' = Off(n)
  BY <1>1 DEF Wire, Off
<1> QED
  BY <1>1, <1>2, <1>3 DEF Sending

LEMMA RecvUnderway ==
  ASSUME TypeInv, NEW n, Underway(n), Recv
  PROVE  Underway(n)'
<1>1. UNCHANGED <<peer, stage, head>>
  BY DEF Recv
<1>2. sent' = sent /\ reader' = reader /\ Off(n)' = Off(n)
  BY <1>1, PeerKept
<1>3. CASE ReadsRequest(n)
  <2>1. PICK c, l : c = Off(n) /\ l = RequestLine(sent[n + 1])
    OBVIOUS
  <2>2. Awaits(c, l)
    BY <1>3, <2>1 DEF ReadsRequest
  <2>3. Awaits(c, l)'
    BY <2>2, RecvAwaits
  <2>4. c = Off(n)' /\ l = RequestLine(sent[n + 1])'
    BY <1>2, <2>1
  <2>5. ReadsRequest(n)'
    BY <1>1, <1>3, <2>3, <2>4 DEF ReadsRequest
  <2> QED
    BY <2>5 DEF Underway
<1>4. CASE ReadsSurplus(n)
  <2>1. PICK c : c = Off(n) - 2
    OBVIOUS
  <2>2. Awaits(c, CRLF)
    BY <1>4, <2>1 DEF ReadsSurplus
  <2>3. Awaits(c, CRLF)'
    BY <2>2, RecvAwaits
  <2>4. c = (Off(n) - 2)'
    BY <1>2, <2>1
  <2>5. ReadsSurplus(n)'
    BY <1>1, <1>2, <1>4, <2>3, <2>4 DEF ReadsSurplus
  <2> QED
    BY <2>5 DEF Underway
<1>5. CASE \E k \in 0..Len(sent[n + 1].headers) : ReadsHeaders(n, k)
  <2>1. PICK k \in 0..Len(sent[n + 1].headers) : ReadsHeaders(n, k)
    BY <1>5
  <2>2. PICK c, l : c = Off(n) + LineOff(sent[n + 1], k) /\ l = HeadLine(sent[n + 1], k)
    OBVIOUS
  <2>3. Awaits(c, l)
    BY <2>1, <2>2 DEF ReadsHeaders
  <2>4. Awaits(c, l)'
    BY <2>3, RecvAwaits
  <2>5. c = (Off(n) + LineOff(sent[n + 1], k))' /\ l = HeadLine(sent[n + 1], k)'
    BY <1>2, <2>2
  <2>6. ReadsHeaders(n, k)'
    BY <1>1, <1>2, <2>1, <2>4, <2>5 DEF ReadsHeaders
  <2>7. k \in 0..Len(sent[n + 1].headers)'
    BY <1>2
  <2> QED
    BY <2>6, <2>7 DEF Underway
<1> QED
  BY <1>3, <1>4, <1>5 DEF Underway

LEMMA EofUnderway ==
  ASSUME TypeInv, NEW n, Underway(n), Eof
  PROVE  FALSE
<1>1. PICK c, l : Awaits(c, l)
  BY DEF Underway, ReadsRequest, ReadsSurplus, ReadsHeaders
<1> QED
  BY <1>1, EofAwaits

\* The request line is read for what it is, and the headers are next.
LEMMA StepRequest ==
  ASSUME TypeInv, Sending, NEW n \in 0..(Len(sent) - 1), ReadsRequest(n), ended,
         SkipBlank \/ ReadRequest \/ ReadHeader \/ EndOfHead \/ Refuse
  PROVE  ReadsHeaders(n, 0)' /\ UNCHANGED <<peer, heads>>
<1>1. PICK r, c, l : r = sent[n + 1] /\ c = Off(n) /\ l = RequestLine(r)
  OBVIOUS
<1>2. Lines(n)
  BY LinesAre
<1>3. /\ l # CRLF /\ RequestParts(l) = <<r.method, r.url>> /\ LineOff(r, 0) = Len(l)
      /\ 0 \in 0..Len(r.headers)
      /\ IsLine(HeadLine(r, 0)) /\ Holds(c + LineOff(r, 0), HeadLine(r, 0))
  <2>1. /\ Len(r.headers) \in Nat
        /\ l # CRLF /\ RequestParts(l) = <<r.method, r.url>> /\ LineOff(r, 0) = Len(l)
        /\ \A k \in 0..Len(r.headers) :
             IsLine(HeadLine(r, k)) /\ Holds(c + LineOff(r, k), HeadLine(r, k))
    BY <1>1, <1>2 DEF Lines
  <2>2. 0 \in 0..Len(r.headers)
    BY <2>1
  <2> QED
    BY <2>1, <2>2
<1>4. line = l /\ at = c + Len(l) /\ stage = "request"
  BY <1>1, EndAwaits DEF ReadsRequest
<1>5. RequestParts(line) # <<>> /\ RequestParts(line)[1] = r.method /\ RequestParts(line)[2] = r.url
  <2>1. PICK x, y : x = r.method /\ y = r.url
    OBVIOUS
  <2>2. RequestParts(line) = <<x, y>>
    BY <1>3, <1>4, <2>1
  <2>3. <<x, y>> # <<>> /\ <<x, y>>[1] = x /\ <<x, y>>[2] = y
    OBVIOUS
  <2> QED
    BY <2>1, <2>2, <2>3
<1>6. ReadRequest
  BY <1>3, <1>4, <1>5 DEF SkipBlank, ReadHeader, EndOfHead, Refuse, Blank
<1>7. /\ head'.method = r.method /\ head'.url = r.url /\ head'.headers = Kept(r.headers, 0)
      /\ stage' = "headers" /\ UNCHANGED <<peer, heads>>
  <2>1. head' = [NoHead EXCEPT !.method = r.method, !.url = r.url]
    BY <1>5, <1>6 DEF ReadRequest
  <2>2. head'.method = r.method /\ head'.url = r.url /\ head'.headers = NoHead.headers
    BY <2>1 DEF NoHead
  <2>3. NoHead.headers = Kept(r.headers, 0)
    BY KeptNone
  <2> QED
    BY <1>6, <2>2, <2>3 DEF ReadRequest, NextLine
<1>8. PICK d, h : d = c + LineOff(r, 0) /\ h = HeadLine(r, 0)
  OBVIOUS
<1>9. Awaits(d, h)'
  <2>1. IsLine(h) /\ Holds(d, h) /\ at = d /\ NextLine("headers")
    BY <1>3, <1>4, <1>6, <1>8 DEF ReadRequest
  <2> QED
    BY <2>1, BeginAwaits
<1>10. r = sent[n + 1]' /\ c = Off(n)'
  BY <1>1, <1>7, PeerKept
<1>11. ReadsHeaders(n, 0)'
  BY <1>3, <1>7, <1>8, <1>9, <1>10 DEF ReadsHeaders
<1> QED
  BY <1>7, <1>11

\* The line end left over is skipped, and the request line is next.
LEMMA StepSurplus ==
  ASSUME TypeInv, Sending, NEW n \in 0..(Len(sent) - 1), ReadsSurplus(n), ended,
         SkipBlank \/ ReadRequest \/ ReadHeader \/ EndOfHead \/ Refuse
  PROVE  ReadsRequest(n)' /\ UNCHANGED <<peer, heads>>
<1>1. PICK c, l : c = Off(n) /\ l = RequestLine(sent[n + 1])
  OBVIOUS
<1>2. c \in Nat /\ IsLine(l) /\ Holds(c, l)
  BY <1>1, LinesAre DEF Lines
<1>3. line = CRLF /\ at = c /\ stage = "request" /\ reader = "cpp"
  <2>1. PICK d : d = Off(n) - 2
    OBVIOUS
  <2>2. line = CRLF /\ at = d + Len(CRLF) /\ d \in Nat
    BY <2>1, EndAwaits DEF ReadsSurplus, Awaits, Holds
  <2>3. d + 2 = c
    BY <1>1, <1>2, <2>1, <2>2
  <2> QED
    BY <2>2, <2>3, CRLFIs DEF ReadsSurplus
<1>4. RequestParts(line) = <<>>
  <2>1. \A i \in 1..(Len(CRLF) - 1) : CRLF[i] # "SP"
    <3>1. \A i \in 1..(2 - 1) : i = 1
      OBVIOUS
    <3> QED
      BY <3>1, CRLFIs
  <2>2. CppRequest(CRLF) = <<>>
    BY <2>1, CppTypes, CRLFIs
  <2> QED
    BY <1>3, <2>2 DEF RequestParts
<1>5. SkipBlank
  BY <1>3, <1>4 DEF ReadRequest, ReadHeader, EndOfHead, Refuse, Blank
<1>6. stage' = "request" /\ UNCHANGED <<peer, heads>> /\ NextLine("request")
  BY <1>5 DEF SkipBlank, NextLine
<1>7. Awaits(c, l)'
  BY <1>2, <1>3, <1>6, BeginAwaits
<1>8. c = Off(n)' /\ l = RequestLine(sent[n + 1])'
  BY <1>1, <1>6, PeerKept
<1> QED
  BY <1>6, <1>7, <1>8 DEF ReadsRequest

\* A header line is read for what it is, and the next line is one more on.
LEMMA StepHeader ==
  ASSUME TypeInv, Sending, NEW n \in 0..(Len(sent) - 1),
         NEW k \in 0..(Len(sent[n + 1].headers) - 1), ReadsHeaders(n, k), ended,
         SkipBlank \/ ReadRequest \/ ReadHeader \/ EndOfHead \/ Refuse
  PROVE  ReadsHeaders(n, k + 1)' /\ UNCHANGED <<peer, heads>>
<1>1. PICK r, c, l, m : r = sent[n + 1] /\ c = Off(n) /\ l = HeadLine(r, k) /\ m = Len(r.headers)
  OBVIOUS
<1>2. r \in RequestType /\ KeysDiffer(r.headers) /\ c \in Nat
  BY <1>1, WireIs DEF Sending
<1>3. r.headers \in Seq(Seq(Byte) \X Seq(Byte)) /\ m \in Nat /\ DOMAIN r.headers = 1..m
  <2>1. r.headers \in Seq(Seq(Byte) \X Seq(Byte))
    BY <1>2 DEF RequestType
  <2> QED
    BY <1>1, <2>1, LenProperties
<1>4. k \in 0..m /\ k + 1 \in 0..m /\ k \in 0..(m - 1)
  BY <1>1, <1>3
<1>5. /\ l # CRLF /\ HeaderParts(l) = <<r.headers[k + 1][1], r.headers[k + 1][2]>>
      /\ LineOff(r, k) \in Nat /\ LineOff(r, k + 1) = LineOff(r, k) + Len(l)
      /\ IsLine(HeadLine(r, k + 1)) /\ Holds(c + LineOff(r, k + 1), HeadLine(r, k + 1))
      /\ IsLine(l)
  <2>1. /\ \A i \in 0..m : /\ LineOff(r, i) \in Nat /\ IsLine(HeadLine(r, i))
                           /\ Holds(c + LineOff(r, i), HeadLine(r, i))
        /\ \A i \in 0..(m - 1) :
             /\ HeadLine(r, i) # CRLF
             /\ HeaderParts(HeadLine(r, i)) = <<r.headers[i + 1][1], r.headers[i + 1][2]>>
             /\ LineOff(r, i + 1) = LineOff(r, i) + Len(HeadLine(r, i))
    BY <1>1, LinesAre DEF Lines
  <2> QED
    BY <1>1, <1>4, <2>1
<1>6. /\ stage = "headers"
      /\ head.method = r.method /\ head.url = r.url /\ head.headers = Kept(r.headers, k)
      /\ Awaits(c + LineOff(r, k), l)
  BY <1>1 DEF ReadsHeaders
<1>7. line = l /\ at = c + LineOff(r, k + 1)
  <2>1. PICK d : d = c + LineOff(r, k)
    OBVIOUS
  <2>2. line = l /\ at = d + Len(l)
    BY <1>6, <2>1, EndAwaits
  <2>3. Len(l) \in Nat
    BY <1>5, LenProperties DEF IsLine
  <2>4. \A x, y, z \in Nat : (x + y) + z = x + (y + z)
    OBVIOUS
  <2>5. (c + LineOff(r, k)) + Len(l) = c + (LineOff(r, k) + Len(l))
    BY <1>2, <1>5, <2>3, <2>4, Zenon
  <2> QED
    BY <1>5, <2>1, <2>2, <2>5, Zenon
<1>8. PICK x, y : x = r.headers[k + 1][1] /\ y = r.headers[k + 1][2]
  OBVIOUS
<1>9. HeaderParts(line) # <<>> /\ HeaderParts(line)[1] = x /\ HeaderParts(line)[2] = y
  <2>1. HeaderParts(line) = <<x, y>>
    BY <1>5, <1>7, <1>8
  <2>2. <<x, y>> # <<>> /\ <<x, y>>[1] = x /\ <<x, y>>[2] = y
    OBVIOUS
  <2> QED
    BY <2>1, <2>2
<1>10. ReadHeader
  BY <1>5, <1>6, <1>7, <1>9 DEF SkipBlank, ReadRequest, EndOfHead, Refuse, Blank
<1>11. /\ head'.method = r.method /\ head'.url = r.url
       /\ head'.headers = Kept(r.headers, k + 1)
       /\ stage' = "headers" /\ UNCHANGED <<peer, heads>> /\ NextLine("headers")
  <2>1. head' = [head EXCEPT !.headers = Set(Kept(r.headers, k), x, y)]
    BY <1>6, <1>9, <1>10 DEF ReadHeader
  <2>2. Set(Kept(r.headers, k), x, y) = Kept(r.headers, k + 1)
    BY <1>1, <1>2, <1>3, <1>4, <1>8, KeptStep
  <2>3. head \in [method: Seq(Byte), url: Seq(Byte), headers: HeadersType]
    BY DEF TypeInv, HeadType
  <2> QED
    BY <1>6, <1>10, <2>1, <2>2, <2>3 DEF ReadHeader, NextLine
<1>12. PICK d, h : d = c + LineOff(r, k + 1) /\ h = HeadLine(r, k + 1)
  OBVIOUS
<1>13. Awaits(d, h)'
  BY <1>5, <1>7, <1>11, <1>12, BeginAwaits
<1>14. r = sent[n + 1]' /\ c = Off(n)'
  BY <1>1, <1>11, PeerKept
<1>15. k + 1 \in 0..Len(r.headers)
  BY <1>1, <1>4
<1>16. ReadsHeaders(n, k + 1)'
  BY <1>11, <1>12, <1>13, <1>14, <1>15 DEF ReadsHeaders
<1> QED
  BY <1>11, <1>16

\* Behind the last request nothing is left but a line end.
LEMMA BeginNothing ==
  ASSUME TypeInv, NextLine("request"), NEW a \in Nat, at = a,
         \/ a = Len(bytes)
         \/ a + 2 = Len(bytes) /\ bytes[a + 1] = "CR" /\ bytes[a + 2] = "LF"
  PROVE  NothingLeft'
<1>1. line' = <<>> /\ Len(line') = 0 /\ stage' = "request" /\ UNCHANGED <<at, bytes>>
  BY DEF NextLine, peer
<1>2. \A i \in (a + 1)..Len(bytes) : bytes[i] # "SP"
  <2>1. Len(bytes) \in Nat
    BY LenProperties DEF TypeInv
  <2> SUFFICES ASSUME NEW i \in (a + 1)..Len(bytes)
               PROVE  bytes[i] # "SP"
    OBVIOUS
  <2>2. a + 2 = Len(bytes) => i = a + 1 \/ i = a + 2
    BY <2>1
  <2>3. a # Len(bytes)
    BY <2>1
  <2> QED
    BY <2>2, <2>3
<1> QED
  BY <1>1, <1>2 DEF NothingLeft

\* Behind n requests, at the line end behind the headers of one more: it is handled,
\* with what was meant, and then the next one is read, or its surplus line end, or
\* nothing is left.
LEMMA StepEnd ==
  ASSUME TypeInv, Sending, NEW n \in 0..(Len(sent) - 1),
         ReadsHeaders(n, Len(sent[n + 1].headers)), ended,
         SkipBlank \/ ReadRequest \/ ReadHeader \/ EndOfHead \/ Refuse
  PROVE  /\ UNCHANGED peer /\ heads' = Append(heads, Meant(sent[n + 1]))
         /\ n + 1 = Len(sent) => NothingLeft'
         /\ n + 1 < Len(sent) => Underway(n + 1)'
<1>1. PICK r, c, m, i : r = sent[n + 1] /\ c = Off(n) /\ m = Len(r.headers) /\ i = n + 1
  OBVIOUS
<1>2. PICK e : e = Off(i)
  OBVIOUS
<1>3. /\ r \in RequestType /\ c \in Nat /\ e \in Nat /\ Len(sent) \in Nat /\ i \in 1..Len(sent)
      /\ i = Len(sent) => e = Len(bytes)
  BY <1>1, <1>2, WireIs DEF Sending
<1>4. /\ m \in Nat /\ LineOff(r, m) \in Nat
      /\ r.headers # <<>> => c + LineOff(r, m) + 2 = e
      /\ r.headers = <<>> => c + LineOff(r, m) + 4 = e /\ Holds(e - 2, CRLF)
      /\ reader = "cpp" \/ r.headers # <<>> \/ i = Len(sent)
  <2>1. /\ m \in Nat
        /\ \A j \in 0..m : LineOff(r, j) \in Nat
        /\ r.headers # <<>> => c + LineOff(r, m) + 2 = e
        /\ r.headers = <<>> => c + LineOff(r, m) + 4 = e /\ Holds(e - 2, CRLF)
        /\ reader = "cpp" \/ r.headers # <<>> \/ i = Len(sent)
    BY <1>1, <1>2, LinesAre DEF Lines
  <2>2. m \in 0..m
    BY <2>1
  <2> QED
    BY <2>1, <2>2
<1>5. /\ stage = "headers"
      /\ head.method = r.method /\ head.url = r.url /\ head.headers = Kept(r.headers, m)
      /\ Awaits(c + LineOff(r, m), CRLF)
  <2>1. HeadLine(r, m) = CRLF
    BY <1>1, <1>4 DEF HeadLine
  <2> QED
    BY <1>1, <2>1 DEF ReadsHeaders
<1>6. PICK a : a = c + LineOff(r, m) + 2
  OBVIOUS
<1>7. line = CRLF /\ at = a /\ a \in Nat
  <2>1. PICK d : d = c + LineOff(r, m)
    OBVIOUS
  <2>2. line = CRLF /\ at = d + 2
    <3>1. Awaits(d, CRLF)
      BY <1>5, <2>1
    <3>2. line = CRLF /\ at = d + Len(CRLF)
      BY <3>1, EndAwaits
    <3> QED
      BY <3>2, CRLFIs
  <2> QED
    BY <1>3, <1>4, <1>6, <2>1, <2>2
<1>8. reader = "cpp" \/ (reader = "python" /\ HeaderParts(line) = <<>>)
  BY <1>7, CRLFLine, HeadAssumption DEF TypeInv
<1>9. EndOfHead
  BY <1>5, <1>7, <1>8 DEF SkipBlank, ReadRequest, ReadHeader, Refuse, Blank
<1>10. NextLine("request") /\ UNCHANGED peer /\ stage' = "request" /\ heads' = Append(heads, head)
  BY <1>9 DEF EndOfHead, NextLine
<1>11. head = Meant(r)
  <2>1. head \in [method: Seq(Byte), url: Seq(Byte), headers: HeadersType]
    BY DEF TypeInv, HeadType
  <2>2. head = [method |-> head.method, url |-> head.url, headers |-> head.headers]
    BY <2>1
  <2>3. Meant(r) = [method |-> r.method, url |-> r.url, headers |-> Kept(r.headers, m)]
    BY <1>1, <1>3, KeptAll
  <2> QED
    BY <1>5, <2>2, <2>3, Zenon
<1>12. e = Off(i)' /\ sent' = sent /\ reader' = reader
  BY <1>2, <1>10, PeerKept
<1>13. ASSUME i < Len(sent), r.headers # <<>>
       PROVE  Underway(i)'
  <2>1. PICK l : l = RequestLine(sent[i + 1])
    OBVIOUS
  <2>2. i \in 0..(Len(sent) - 1)
    BY <1>3, <1>13
  <2>3. IsLine(l) /\ Holds(e, l)
    BY <1>2, <2>1, <2>2, LinesAre DEF Lines
  <2>4. at = e
    BY <1>4, <1>6, <1>7, <1>13
  <2>5. Awaits(e, l)'
    BY <1>10, <2>3, <2>4, BeginAwaits
  <2>6. ReadsRequest(i)'
    BY <1>10, <1>12, <2>1, <2>5 DEF ReadsRequest
  <2> QED
    BY <2>6 DEF Underway
<1>14. ASSUME r.headers = <<>>
       PROVE  a + 2 = e /\ a = e - 2
  <2>1. \A x, y \in Nat : x + y + 4 = e /\ a = x + y + 2 => a + 2 = e /\ a = e - 2
    BY <1>3, <1>7
  <2> QED
    BY <1>3, <1>4, <1>6, <1>14, <2>1
<1>15. ASSUME i < Len(sent), r.headers = <<>>
       PROVE  Underway(i)'
  <2>1. reader = "cpp"
    BY <1>3, <1>4, <1>15
  <2>2. Holds(a, CRLF) /\ at = a
    BY <1>4, <1>7, <1>14, <1>15
  <2>3. Awaits(a, CRLF)'
    BY <1>10, <2>2, BeginAwaits, CRLFLine
  <2>4. a = (Off(i) - 2)'
    BY <1>12, <1>14, <1>15
  <2>5. ReadsSurplus(i)'
    BY <1>10, <1>12, <2>1, <2>3, <2>4 DEF ReadsSurplus
  <2> QED
    BY <2>5 DEF Underway
<1>16. ASSUME i = Len(sent)
       PROVE  NothingLeft'
  <2>1. CASE r.headers # <<>>
    <3>1. a = Len(bytes)
      BY <1>3, <1>4, <1>6, <1>16, <2>1
    <3> QED
      BY <1>7, <1>10, <3>1, BeginNothing
  <2>2. CASE r.headers = <<>>
    <3>1. a + 2 = Len(bytes) /\ Holds(a, CRLF)
      BY <1>3, <1>4, <1>14, <1>16, <2>2
    <3>2. bytes[a + 1] = "CR" /\ bytes[a + 2] = "LF"
      <4>1. 1 \in 1..Len(CRLF) /\ 2 \in 1..Len(CRLF)
        BY CRLFIs
      <4> QED
        BY <3>1, <4>1, CRLFIs DEF Holds
    <3> QED
      BY <1>7, <1>10, <3>1, <3>2, BeginNothing
  <2> QED
    BY <2>1, <2>2
<1> QED
  BY <1>1, <1>10, <1>11, <1>13, <1>15, <1>16

LEMMA StepNothing ==
  ASSUME TypeInv, NothingLeft, [Next]_vars
  PROVE  NothingLeft' /\ UNCHANGED <<peer, heads>>
<1>1. line \in Seq(Byte) /\ Len(line) \in Nat /\ bytes \in Seq(Byte) /\ Len(bytes) \in Nat
      /\ at \in 0..Len(bytes)
  BY LenProperties DEF TypeInv
<1>2. /\ stage \in {"request", "refused"}
      /\ \A i \in 1..Len(line) : line[i] # "SP"
      /\ \A i \in (at + 1)..Len(bytes) : bytes[i] # "SP"
  BY DEF NothingLeft
<1>3. ASSUME NEW b \in Byte, b # "SP", line' = Append(line, b)
      PROVE  \A i \in 1..Len(line') : line'[i] # "SP"
  <2>1. /\ Len(line') = Len(line) + 1 /\ line'[Len(line) + 1] = b
        /\ \A i \in 1..Len(line) : line'[i] = line[i]
    BY <1>1, <1>3, MoreLine
  <2>2. \A i \in 1..(Len(line) + 1) : i \in 1..Len(line) \/ i = Len(line) + 1
    BY <1>1
  <2> QED
    BY <1>2, <1>3, <2>1, <2>2
<1>4. CASE Recv
  <2>1. at < Len(bytes) /\ at' = at + 1 /\ UNCHANGED <<peer, stage, heads, bytes>>
        /\ line' = Append(line, bytes[at + 1])
    BY <1>4 DEF Recv, peer
  <2>2. at + 1 \in (at + 1)..Len(bytes) /\ at + 1 \in 1..Len(bytes)
    BY <1>1, <2>1
  <2>3. bytes[at + 1] # "SP" /\ bytes[at + 1] \in Byte
    BY <1>1, <1>2, <2>2, ElementOfSeq
  <2>4. \A i \in 1..Len(line') : line'[i] # "SP"
    BY <1>3, <2>1, <2>3
  <2>5. \A i \in (at' + 1)..Len(bytes) : i \in (at + 1)..Len(bytes)
    BY <1>1, <2>1
  <2> QED
    BY <1>2, <2>1, <2>4, <2>5 DEF NothingLeft
<1>5. CASE Eof
  <2>1. UNCHANGED <<peer, at, stage, heads, bytes>>
    BY <1>5 DEF Eof, peer
  <2>2. \A i \in 1..Len(line') : line'[i] # "SP"
    <3>1. CASE UNCHANGED line
      BY <1>2, <3>1
    <3>2. CASE line' = Append(line, "NUL")
      <4>1. "NUL" \in Byte /\ "NUL" # "SP"
        BY DEF Byte
      <4> QED
        BY <1>3, <3>2, <4>1
    <3> QED
      BY <1>5, <3>1, <3>2 DEF Eof, RecvEof
  <2> QED
    BY <1>2, <2>1, <2>2 DEF NothingLeft
<1>6. ASSUME NEW s \in {"request", "refused"}, NextLine(s), UNCHANGED heads
      PROVE  NothingLeft' /\ UNCHANGED <<peer, heads>>
  <2>1. line' = <<>> /\ Len(line') = 0 /\ stage' = s /\ UNCHANGED <<peer, at, bytes>>
    BY <1>6 DEF NextLine, peer
  <2> QED
    BY <1>2, <1>6, <2>1 DEF NothingLeft
<1>7. CASE SkipBlank
  BY <1>6, <1>7 DEF SkipBlank
<1>8. CASE ReadRequest
  <2>1. CppRequest(line) = <<>> /\ PyRequest(line) = <<>>
    <3>1. \A i \in 1..(Len(line) - 1) : line[i] # "SP"
      <4>1. \A i \in 1..(Len(line) - 1) : i \in 1..Len(line)
        BY <1>1
      <4> QED
        BY <1>2, <4>1
    <3> QED
      BY <1>1, <1>2, <3>1, CppTypes, PyNone
  <2> QED
    BY <1>8, <2>1 DEF ReadRequest, RequestParts
<1>9. CASE ReadHeader
  BY <1>2, <1>9 DEF ReadHeader
<1>10. CASE EndOfHead
  BY <1>2, <1>10 DEF EndOfHead
<1>11. CASE Refuse
  BY <1>6, <1>11 DEF Refuse
<1>12. CASE UNCHANGED vars
  BY <1>12 DEF vars, peer, NothingLeft
<1> QED
  BY <1>4, <1>5, <1>7, <1>8, <1>9, <1>10, <1>11, <1>12 DEF Next

LEMMA OrderInit ==
  Init => InOrder
<1> SUFFICES ASSUME Init, WellSent
             PROVE  InOrder
  BY DEF InOrder
<1>1. Sending
  BY DEF Init, Sending, WellSent, Wire
<1>2. TypeInv
  BY TypeInit
<1>3. Len(sent) \in Nat /\ Off(0) = 0
  BY <1>1, WireIs DEF Sending
<1>4. 0 \in 0..(Len(sent) - 1) /\ 0 \in 0..Len(sent) /\ 0 < Len(sent)
  <2>1. sent \in Seq(RequestType) /\ sent # <<>>
    BY <1>1, HeadAssumption DEF Sending, WellSent
  <2>2. Len(sent) # 0
    BY <2>1, EmptySeq
  <2> QED
    BY <1>3, <2>2
<1>5. heads = <<>> /\ line = <<>> /\ at = 0 /\ ~ended /\ stage = "request"
      /\ Len(heads) = 0 /\ Len(line) = 0
  BY DEF Init
<1>6. PICK c, l : c = Off(0) /\ l = RequestLine(sent[0 + 1])
  OBVIOUS
<1>7. IsLine(l) /\ Holds(c, l)
  BY <1>1, <1>2, <1>4, <1>6, LinesAre DEF Lines
<1>8. Awaits(c, l)
  <2>1. c = 0 /\ Len(l) \in Nat /\ Len(l) >= 2
    BY <1>3, <1>6, <1>7, LenProperties DEF IsLine
  <2> QED
    BY <1>5, <1>7, <2>1 DEF Awaits
<1>9. Underway(0)
  BY <1>5, <1>6, <1>8 DEF Underway, ReadsRequest
<1>10. Handled(0)
  BY <1>4, <1>5 DEF Handled
<1> QED
  BY <1>1, <1>4, <1>9, <1>10 DEF InOrder

LEMMA OrderNext ==
  TypeInv /\ InOrder /\ [Next]_vars => InOrder'
<1> SUFFICES ASSUME TypeInv, InOrder, [Next]_vars, WellSent'
             PROVE  InOrder'
  BY DEF InOrder
<1>1. UNCHANGED peer
  BY DEF Next, vars, Recv, Eof, SkipBlank, ReadRequest, ReadHeader, EndOfHead, Refuse, NextLine
<1>2. WellSent /\ (Sending <=> Sending') /\ sent' = sent
  BY <1>1, PeerKept
<1>3. PICK n \in 0..Len(sent) :
        /\ Sending /\ Handled(n)
        /\ (n = Len(sent) /\ NothingLeft) \/ (n < Len(sent) /\ Underway(n))
  BY <1>2 DEF InOrder
<1>4. Len(sent) \in Nat /\ n \in Nat
  <2>1. Len(sent) \in Nat
    BY <1>3, WireIs DEF Sending
  <2> QED
    BY <2>1
<1>5. ASSUME heads' = heads, n < Len(sent), Underway(n)'
      PROVE  InOrder'
  <2>1. Handled(n)'
    BY <1>2, <1>3, <1>5 DEF Handled
  <2> QED
    BY <1>2, <1>3, <1>5, <2>1 DEF InOrder
<1>6. CASE n = Len(sent) /\ NothingLeft
  <2>1. NothingLeft' /\ heads' = heads
    BY <1>6, StepNothing
  <2>2. Handled(n)'
    BY <1>2, <1>3, <2>1 DEF Handled
  <2> QED
    BY <1>2, <1>3, <1>6, <2>1, <2>2 DEF InOrder
<1>7. CASE n < Len(sent) /\ Underway(n)
  <2>0. n \in 0..(Len(sent) - 1)
    BY <1>4, <1>7
  <2>1. CASE Recv
    BY <1>5, <1>7, <2>1, RecvUnderway DEF Recv
  <2>2. CASE Eof
    BY <1>7, <2>2, EofUnderway
  <2>3. CASE SkipBlank \/ ReadRequest \/ ReadHeader \/ EndOfHead \/ Refuse
    <3>0. ended
      BY <2>3 DEF SkipBlank, ReadRequest, ReadHeader, EndOfHead, Refuse, NextLine
    <3>1. PICK m : m = Len(sent[n + 1].headers)
      OBVIOUS
    <3>2. m \in Nat
      BY <1>3, <2>0, <3>1, LinesAre DEF Lines
    <3>3. CASE ReadsRequest(n)
      <4>1. ReadsHeaders(n, 0)' /\ heads' = heads
        BY <1>3, <2>0, <2>3, <3>0, <3>3, StepRequest
      <4>2. 0 \in 0..Len(sent[n + 1].headers)'
        BY <1>2, <3>1, <3>2
      <4>3. Underway(n)'
        BY <4>1, <4>2 DEF Underway
      <4> QED
        BY <1>5, <1>7, <4>1, <4>3
    <3>4. CASE ReadsSurplus(n)
      <4>1. ReadsRequest(n)' /\ heads' = heads
        BY <1>3, <2>0, <2>3, <3>0, <3>4, StepSurplus
      <4>2. Underway(n)'
        BY <4>1 DEF Underway
      <4> QED
        BY <1>5, <1>7, <4>1, <4>2
    <3>5. ASSUME NEW k \in 0..m, ReadsHeaders(n, k), k # m
          PROVE  InOrder'
      <4>1. k \in 0..(Len(sent[n + 1].headers) - 1)
        BY <3>1, <3>2, <3>5
      <4>2. ReadsHeaders(n, k + 1)' /\ heads' = heads
        BY <1>3, <2>0, <2>3, <3>0, <3>5, <4>1, StepHeader
      <4>3. k + 1 \in 0..Len(sent[n + 1].headers)'
        <5>1. k + 1 \in 0..m
          BY <3>2, <3>5
        <5> QED
          BY <1>2, <3>1, <5>1
      <4>4. Underway(n)'
        BY <4>2, <4>3 DEF Underway
      <4> QED
        BY <1>5, <1>7, <4>2, <4>4
    <3>6. ASSUME ReadsHeaders(n, m)
          PROVE  InOrder'
      <4>1. PICK i : i = n + 1
        OBVIOUS
      <4>2. /\ heads' = Append(heads, Meant(sent[i]))
            /\ i = Len(sent) => NothingLeft'
            /\ i < Len(sent) => Underway(i)'
        BY <1>3, <2>0, <2>3, <3>0, <3>1, <3>6, <4>1, StepEnd
      <4>3. i \in Nat /\ i <= Len(sent) /\ (i = Len(sent) \/ i < Len(sent)) /\ i \in 0..Len(sent)
        BY <1>4, <1>7, <4>1
      <4>4. Handled(i)'
        <5>1. PICK x : x = Meant(sent[i])
          OBVIOUS
        <5>2. /\ Len(heads) = n /\ heads \in Seq(HeadType)
              /\ \A j \in 1..n : heads[j] = Meant(sent[j])
          BY <1>3 DEF Handled, TypeInv
        <5>3. heads' = Append(heads, x)
          BY <4>2, <5>1
        <5>4. Len(heads') = n + 1 /\ heads'[n + 1] = x /\ \A j \in 1..n : heads'[j] = heads[j]
          <6>1. /\ Len(Append(heads, x)) = Len(heads) + 1 /\ Append(heads, x)[Len(heads) + 1] = x
                /\ \A j \in 1..Len(heads) : Append(heads, x)[j] = heads[j]
            <7>1. heads \in Seq(HeadType \cup {x}) /\ x \in HeadType \cup {x}
              BY <5>2
            <7> QED
              BY <7>1, AppendProperties
          <6> QED
            BY <5>2, <5>3, <6>1
        <5>5. \A j \in 1..i : heads'[j] = Meant(sent[j])
          <6>1. \A j \in 1..i : j \in 1..n \/ j = n + 1
            BY <1>4, <4>1
          <6> QED
            BY <4>1, <5>1, <5>2, <5>4, <6>1
        <5>6. \A j \in 1..i : heads'[j] = Meant(sent'[j])
          BY <1>2, <5>5
        <5> QED
          BY <1>2, <4>1, <4>3, <5>4, <5>6, Zenon DEF Handled
      <4> QED
        BY <1>2, <1>3, <4>2, <4>3, <4>4 DEF InOrder
    <3> QED
      BY <1>7, <3>1, <3>3, <3>4, <3>5, <3>6 DEF Underway
  <2>4. CASE UNCHANGED vars
    <3>1. Underway(n)' /\ heads' = heads
      <4>1. UNCHANGED <<reader, sent, bytes, at, line, ended, stage, head, heads>>
        BY <2>4 DEF vars, peer
      <4>2. Off(n)' = Off(n)
        BY <1>1, PeerKept
      <4> QED
        BY <1>7, <4>1, <4>2 DEF Underway, ReadsRequest, ReadsSurplus, ReadsHeaders, Awaits,
           IsLine, Holds
    <3> QED
      BY <1>5, <1>7, <3>1
  <2> QED
    BY <2>1, <2>2, <2>3, <2>4 DEF Next
<1> QED
  BY <1>3, <1>6, <1>7

\* However many requests come behind each other, with whatever method, url and
\* headers, and however their bytes come in: the server reads each of them where it
\* begins, with what the client meant by it, and is left with none of their bytes
\* (base.cpp:208-280, base.py:92-117).
THEOREM HeadParsesAsSent == Spec => []ParsesAsSent
<1>1. TypeInv /\ InOrder => ParsesAsSent
  <2> SUFFICES ASSUME TypeInv, InOrder, WellSent
               PROVE  /\ IsPrefix(heads, [i \in DOMAIN sent |-> Meant(sent[i])])
                      /\ stage = "refused" \/ (at = Len(bytes) /\ line = <<>>)
                           => Len(heads) = Len(sent)
    BY DEF ParsesAsSent, WellSent
  <2> DEFINE meant == [i \in DOMAIN sent |-> Meant(sent[i])]
             S == HeadType \cup {Meant(sent[i]) : i \in DOMAIN sent}
  <2>1. PICK n \in 0..Len(sent) :
          /\ Sending /\ Handled(n)
          /\ (n = Len(sent) /\ NothingLeft) \/ (n < Len(sent) /\ Underway(n))
    BY DEF InOrder
  <2>2. Len(sent) \in Nat /\ DOMAIN sent = 1..Len(sent)
    BY <2>1, WireIs DEF Sending
  <2>3. heads \in Seq(S)
    BY DEF TypeInv
  <2>4. meant \in Seq(S) /\ Len(meant) = Len(sent)
        /\ \A i \in 1..Len(sent) : meant[i] = Meant(sent[i])
    <3>1. meant \in [1..Len(sent) -> S]
      BY <2>2
    <3>2. meant \in Seq(S)
      BY <2>2, <3>1, SeqDef
    <3>3. Len(meant) = Len(sent)
      <4>1. DOMAIN meant = 1..Len(sent)
        BY <2>2
      <4> HIDE DEF meant
      <4> QED
        BY <2>2, <3>2, <4>1, LenProperties
    <3> QED
      BY <2>2, <3>2, <3>3
  <2> HIDE DEF meant, S
  <2>5. Len(heads) = n /\ n <= Len(sent) /\ \A i \in 1..n : heads[i] = Meant(sent[i])
    BY <2>1 DEF Handled
  <2>6. \A i \in 1..n : i \in 1..Len(sent)
    BY <2>2, <2>5
  <2>7. IsPrefix(heads, meant)
    BY <2>3, <2>4, <2>5, <2>6, PrefixIs
  <2>8. ASSUME n # Len(sent)
        PROVE  stage # "refused" /\ ~(at = Len(bytes) /\ line = <<>>)
    <3>1. Underway(n)
      BY <2>1, <2>8
    <3>2. stage # "refused"
      BY <3>1 DEF Underway, ReadsRequest, ReadsSurplus, ReadsHeaders
    <3>3. PICK c, l : Awaits(c, l)
      BY <3>1 DEF Underway, ReadsRequest, ReadsSurplus, ReadsHeaders
    <3>4. ASSUME line = <<>>
          PROVE  at # Len(bytes)
      <4>1. Len(line) = 0
        BY <3>4
      <4>2. /\ Len(l) \in Nat /\ Len(l) >= 2 /\ c \in Nat /\ at = c + 0 /\ c + Len(l) <= Len(bytes)
            /\ Len(bytes) \in Nat
        BY <3>3, <4>1, AwaitsIs
      <4> QED
        BY <4>2
    <3> QED
      BY <3>2, <3>4
  <2> QED
    BY <2>5, <2>7, <2>8 DEF meant
<1> QED
  BY <1>1, TypeInit, TypeNext, OrderInit, OrderNext, PTL DEF Spec

-----------------------------------------------------------------------------
(* The end of the connection                                               *)

\* What a NUL in the line keeps of it, or another byte.
Spent(l) == Where(l, "NUL") = DOMAIN l

LEMMA SpentIs ==
  ASSUME NEW l \in Seq(Byte)
  PROVE  /\ Spent(l) <=> \A i \in 1..Len(l) : l[i] = "NUL"
         /\ Spent(<<>>)
<1>1. DOMAIN l = 1..Len(l)
  BY LenProperties
<1>2. Where(<<>>, "NUL") = DOMAIN <<>>
  BY DEF Where
<1> QED
  BY <1>1, <1>2 DEF Spent, Where

LEMMA CppNears ==
  ASSUME TypeInv, LineFits, Next, at = Len(bytes), reader = "cpp"
  PROVE  StepsLeft' \in 0..(StepsLeft - 1)
<1>1. PICK n : n = Len(line)
  OBVIOUS
<1>2. PICK z : z = IF Spent(line) THEN 0 ELSE MaxLine + 2
  OBVIOUS
<1>3. /\ n \in Nat /\ MaxLine \in Nat /\ n <= MaxLine /\ (~ended => n < MaxLine)
      /\ z \in Nat /\ line \in Seq(Byte) /\ (~Spent(line) => z = MaxLine + 2)
  BY <1>1, <1>2, LenProperties, HeadAssumption DEF TypeInv, LineFits
<1>4. stage # "refused" => StepsLeft = z + MaxLine + 1 - n
  BY <1>1, <1>2 DEF StepsLeft, Spent
<1>5. stage # "refused" /\ UNCHANGED reader
  <2>1. ~Recv
    BY <1>3, LenProperties DEF Recv, TypeInv
  <2> QED
    BY <2>1 DEF Next, Eof, SkipBlank, ReadRequest, ReadHeader, EndOfHead, Refuse, Reading,
       NextLine, peer
<1>6. CASE Eof
  <2>1. line' = Append(line, "NUL") /\ "NUL" \in Byte /\ UNCHANGED stage /\ ~ended
    BY <1>6 DEF Eof, RecvEof, Reading, Byte
  <2>2. /\ line' \in Seq(Byte) /\ Len(line') = n + 1 /\ line'[n + 1] = "NUL"
        /\ \A i \in 1..n : line'[i] = line[i]
    BY <1>1, <1>3, <2>1, MoreLine
  <2>3. Spent(line) => Spent(line')
    <3>1. \A i \in 1..(n + 1) : i \in 1..n \/ i = n + 1
      BY <1>3
    <3> QED
      BY <1>1, <1>3, <2>2, <3>1, SpentIs
  <2>4. PICK y : y = IF Spent(line') THEN 0 ELSE MaxLine + 2
    OBVIOUS
  <2>5. y \in Nat /\ y <= z
    BY <1>2, <1>3, <2>3, <2>4
  <2>6. StepsLeft' = y + MaxLine + 1 - (n + 1)
    BY <1>5, <2>1, <2>2, <2>4 DEF StepsLeft, Spent
  <2>7. n < MaxLine
    BY <1>3, <2>1
  <2> QED
    BY <1>3, <1>4, <1>5, <2>5, <2>6, <2>7
<1>7. ASSUME NEW i \in 1..n, line[i] = "CR", NextLine(stage'), stage' # "refused"
      PROVE  StepsLeft' \in 0..(StepsLeft - 1)
  <2>1. ~Spent(line)
    BY <1>1, <1>3, <1>7, SpentIs
  <2>2. line' = <<>> /\ Len(line') = 0 /\ Spent(line')
    BY <1>3, <1>7, SpentIs DEF NextLine
  <2>3. StepsLeft' = 0 + MaxLine + 1 - 0
    BY <1>5, <1>7, <2>2 DEF StepsLeft, Spent
  <2> QED
    BY <1>3, <1>4, <1>5, <2>1, <2>3
<1>8. ASSUME line = CRLF
      PROVE  1 \in 1..n /\ line[1] = "CR"
  BY <1>1, <1>8, CRLFIs
<1>9. CASE SkipBlank
  <2>1. NextLine(stage') /\ stage' = "request" /\ line = CRLF
    BY <1>9 DEF SkipBlank, Blank, NextLine
  <2> QED
    BY <1>7, <1>8, <2>1
<1>10. CASE ReadRequest
  <2>1. NextLine(stage') /\ stage' = "headers" /\ CppRequest(line) # <<>>
    BY <1>10 DEF ReadRequest, RequestParts, NextLine
  <2>2. PICK i \in 1..(n - 1) : line[i] = "CR"
    BY <1>1, <1>3, <2>1, CppTypes
  <2>3. i \in 1..n
    BY <1>3
  <2> QED
    BY <1>7, <2>1, <2>2, <2>3
<1>11. CASE ReadHeader
  <2>1. NextLine(stage') /\ stage' = "headers" /\ CppHeader(line) # <<>>
    BY <1>11 DEF ReadHeader, HeaderParts, NextLine
  <2>2. PICK i \in 1..(n - 1) : line[i] = "CR"
    BY <1>1, <1>3, <2>1, CppTypes
  <2>3. i \in 1..n
    BY <1>3
  <2> QED
    BY <1>7, <2>1, <2>2, <2>3
<1>12. CASE EndOfHead
  <2>1. NextLine(stage') /\ stage' = "request" /\ line = CRLF
    BY <1>12 DEF EndOfHead, Blank, NextLine
  <2> QED
    BY <1>7, <1>8, <2>1
<1>13. CASE Refuse
  <2>1. StepsLeft' = 0
    BY <1>13 DEF Refuse, NextLine, StepsLeft
  <2> QED
    BY <1>3, <1>4, <1>5, <2>1
<1>14. CASE Recv
  BY <1>14, LenProperties DEF Recv, TypeInv
<1> QED
  BY <1>6, <1>9, <1>10, <1>11, <1>12, <1>13, <1>14 DEF Next

LEMMA PythonNears ==
  ASSUME TypeInv, Next, at = Len(bytes), reader = "python"
  PROVE  StepsLeft' \in 0..(StepsLeft - 1)
<1>1. CASE Recv
  BY <1>1, LenProperties DEF Recv, TypeInv
<1>2. CASE Eof
  BY <1>2 DEF Eof, RecvEof, Reading, StepsLeft, peer
<1>3. ASSUME line = <<>>
      PROVE  RequestParts(line) = <<>> /\ HeaderParts(line) = <<>>
  <2>1. <<>> \in Seq(Byte) /\ \A i \in 1..Len(<<>>) : FALSE
    OBVIOUS
  <2> QED
    BY <1>3, <2>1, PyNone DEF RequestParts, HeaderParts
<1>4. ASSUME NextLine(stage'), stage # "refused", stage' = "refused" \/ line # <<>>
      PROVE  StepsLeft' \in 0..(StepsLeft - 1)
  BY <1>4 DEF NextLine, StepsLeft, peer
<1>5. ~Blank(line)
  BY DEF Blank
<1>6. CASE ReadRequest
  <2>1. NextLine(stage') /\ line # <<>> /\ stage # "refused"
    BY <1>3, <1>6 DEF ReadRequest, NextLine
  <2> QED
    BY <1>4, <2>1
<1>7. CASE ReadHeader
  <2>1. NextLine(stage') /\ line # <<>> /\ stage # "refused"
    BY <1>3, <1>7 DEF ReadHeader, NextLine
  <2> QED
    BY <1>4, <2>1
<1>8. CASE EndOfHead
  BY <1>8 DEF EndOfHead, NextLine, StepsLeft, peer
<1>9. CASE Refuse
  <2>1. NextLine(stage') /\ stage' = "refused" /\ stage # "refused"
    BY <1>9 DEF Refuse, NextLine
  <2> QED
    BY <1>4, <2>1
<1> QED
  BY <1>1, <1>2, <1>5, <1>6, <1>7, <1>8, <1>9 DEF Next, SkipBlank

\* Once a peer has sent all it will, the loops of either server take a bounded
\* number of steps, however long the line was it stopped in, and whatever recv
\* makes of the end (base.cpp:107-124, base.py:32-34).
THEOREM HeadNearsEnd == Spec => NearsEnd
<1>1. TypeInv /\ LineFits /\ [Next]_vars => [at = Len(bytes) => StepsLeft' \in 0..(StepsLeft - 1)]_vars
  <2> SUFFICES ASSUME TypeInv, LineFits, Next, at = Len(bytes)
               PROVE  StepsLeft' \in 0..(StepsLeft - 1)
    OBVIOUS
  <2>1. reader = "cpp" \/ reader = "python"
    BY HeadAssumption DEF TypeInv
  <2> QED
    BY <2>1, CppNears, PythonNears
<1> QED
  BY <1>1, TypeInit, TypeNext, PTL DEF Spec, NearsEnd

=============================================================================
