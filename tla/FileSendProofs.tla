--------------------------- MODULE FileSendProofs ---------------------------
(***************************************************************************)
(* Proofs about FileSend, for files, ranges and chunks of any size.  The   *)
(* invariant relates what was sent to where the stream is: as much as the  *)
(* stream has advanced if the file has no CR LF, and never more.           *)
(***************************************************************************)
EXTENDS FileSend, FiniteSetTheorems, TLAPS

\* While the stream is good, no more was sent than it has advanced.
Advanced ==
  /\ ~failed => sent <= pos - start
  /\ ranged /\ wide => sent <= limit - start

\* Without CR LF the two are equal, and the stream stays good.
Plain ==
  crlf = {} =>
    /\ ~failed /\ sent = pos - start /\ good = sent
    /\ ranged => pos <= limit
    /\ phase = "done" => Left = 0

\* The kinds of reader.
Reader ==
  /\ ~ranged => start = 0 /\ limit = size
  /\ ranged => limit >= 1 /\ CppPlay(size, start, limit - 1).status = 206

SendInv == TypeOK /\ Reader /\ Advanced /\ Plain

\* The characters between two positions are at most the bytes, and just these
\* if there is no CR LF.
LEMMA CharsBounds ==
  ASSUME TypeOK, NEW p \in Nat, NEW q \in Nat, p <= q
  PROVE  /\ Chars(p, q) \in Nat /\ Chars(p, q) <= q - p
         /\ crlf = {} => Chars(p, q) = q - p
<1> DEFINE inside == {l \in crlf : p <= l /\ l + 2 <= q}
<1>1. IsFiniteSet(p..(q - 1)) /\ Cardinality(p..(q - 1)) = q - p
  <2>1. p \in Int /\ q - 1 \in Int
    OBVIOUS
  <2>2. /\ IsFiniteSet(p..(q - 1))
        /\ Cardinality(p..(q - 1)) = IF p > q - 1 THEN 0 ELSE (q - 1) - p + 1
    BY <2>1, FS_Interval
  <2> QED
    BY <2>2
<1>2. inside \in SUBSET (p..(q - 1))
  <2>1. ASSUME NEW l \in inside PROVE l \in p..(q - 1)
    <3>1. l \in Int /\ p <= l /\ l + 2 <= q
      BY DEF TypeOK
    <3> QED
      BY <3>1
  <2> QED
    BY <2>1
<1>3. IsFiniteSet(inside) /\ Cardinality(inside) <= q - p
  BY <1>1, <1>2, FS_Subset
<1>4. Cardinality(inside) \in Nat
  BY <1>3, FS_CardinalityType
<1>5. crlf = {} => Cardinality(inside) = 0
  <2>1. ASSUME crlf = {} PROVE inside = {}
    BY <2>1
  <2> QED
    BY <2>1, FS_EmptySet
<1> HIDE DEF inside
<1>6. Chars(p, q) = q - p - Cardinality(inside)
  BY DEF Chars, inside
<1> QED
  BY <1>3, <1>4, <1>5, <1>6

\* A read asks for some bytes, and of a good stream for no more than there are,
\* in the file and in the range.
LEMMA AskedBounds ==
  ASSUME FileSendAssumption, TypeOK
  PROVE  /\ Left \in Nat /\ Asked \in Nat
         /\ (Asked = 0) <=> (Left = 0)
         /\ ~failed => Asked <= size - pos
         /\ ranged /\ Asked > 0 /\ (wide \/ ~failed) => ~failed /\ Asked <= limit - pos
<1>1. /\ size \in Nat /\ start \in Nat /\ limit \in Nat /\ pos \in Nat
      /\ pos <= size
  BY DEF TypeOK
<1>2. /\ Left \in Nat
      /\ ~failed => Left <= size - pos
      /\ ranged /\ Left > 0 /\ (wide \/ ~failed) => ~failed /\ Left <= limit - pos
  BY <1>1 DEF Left, Least
<1>3. Chunk \in Nat /\ Chunk > 0
  BY DEF FileSendAssumption
<1> HIDE DEF Left
<1> QED
  BY <1>1, <1>2, <1>3 DEF Asked, Least

\* The first state.
LEMMA SendInit == FileSendAssumption /\ Init => SendInv
<1> SUFFICES ASSUME FileSendAssumption, Init PROVE SendInv
  OBVIOUS
<1>1. size \in Nat /\ crlf \in SUBSET (0..size)
  BY DEF Init, FileSendAssumption
<1>2. /\ start \in 0..size /\ limit \in start..(size + 1) /\ ranged \in BOOLEAN
      /\ Reader
  <2>1. CASE ranged = FALSE
    <3>1. start = 0 /\ limit = size
      BY <2>1 DEF Init
    <3>2. start \in 0..size /\ limit \in start..(size + 1)
      BY <1>1, <3>1
    <3>3. ranged \in BOOLEAN /\ Reader
      BY <2>1, <3>1, Zenon DEF Reader
    <3> QED
      BY <3>2, <3>3
  <2>2. CASE ranged = TRUE
    <3>1. PICK first \in Positions, last \in Positions :
            /\ CppPlay(size, first, last).status = 206
            /\ start = first /\ limit = last + 1
      BY <2>2 DEF Init
    <3>2. first \in Nat /\ last \in Nat
      BY DEF FileSendAssumption
    <3>3. first <= last /\ first <= size /\ last <= size
      BY <1>1, <3>1, <3>2 DEF CppPlay, Refused, Answered, NoEnd
    <3>4. limit - 1 = last
      BY <3>1, <3>2
    <3> QED
      BY <1>1, <2>2, <3>1, <3>2, <3>3, <3>4 DEF Reader
  <2> QED
    BY <2>1, <2>2 DEF Init
<1>3. TypeOK
  <2>1. /\ pos = start /\ sent = 0 /\ good = 0 /\ wide \in BOOLEAN
        /\ phase = "sending"
    BY DEF Init
  <2>2. failed \in BOOLEAN
    BY Zenon DEF Init
  <2>3. pos \in start..size
    BY <1>1, <1>2, <2>1
  <2> QED
    BY <1>1, <1>2, <2>1, <2>2, <2>3 DEF TypeOK
<1>4. Advanced /\ Plain
  BY <1>2, <1>3 DEF Init, Advanced, Plain, TypeOK
<1> QED
  BY <1>2, <1>3, <1>4 DEF SendInv

\* One turn of the loop, for each way its read may go.
LEMMA SendChunkInv ==
  ASSUME FileSendAssumption, SendInv, SendChunk
  PROVE  SendInv'
<1> USE DEF SendInv
<1>1. /\ UNCHANGED <<size, crlf, wide, ranged, start, limit, phase>>
      /\ phase = "sending" /\ sent' = sent + Asked
      /\ TypeOK /\ Reader /\ Advanced /\ Plain
  BY DEF SendChunk, file
<1>2. /\ Asked \in Nat \ {0} /\ (~failed => Asked <= size - pos)
      /\ ranged /\ (wide \/ ~failed) => ~failed /\ Asked <= limit - pos
  BY AskedBounds DEF SendChunk
<1>3. Reader'
  BY <1>1 DEF Reader
<1>4. ranged /\ wide => sent' <= limit - start
  BY <1>1, <1>2 DEF Advanced, TypeOK
<1>5. pos \in Nat /\ size \in Nat /\ start \in Nat /\ start <= pos /\ pos <= size
  BY DEF TypeOK
<1>6. CASE ReadFull
  <2>1. PICK q \in Stops(pos) : Chars(pos, q) = Asked /\ pos' = q
    BY <1>6 DEF ReadFull
  <2>2. q \in pos..size /\ q \in Nat /\ pos <= q
    BY <1>5 DEF Stops
  <2>3. Asked <= q - pos /\ (crlf = {} => Asked = q - pos)
    BY <1>5, <2>1, <2>2, CharsBounds
  <2>4. ~failed /\ failed' = failed /\ good' = good + Asked /\ pos' = q
    BY <1>6, <2>1 DEF ReadFull
  <2>5. TypeOK'
    BY <1>1, <1>2, <1>5, <2>2, <2>4 DEF TypeOK
  <2>6. Advanced'
    BY <1>1, <1>2, <1>4, <1>5, <2>2, <2>3, <2>4 DEF TypeOK, Advanced
  <2>7. Plain'
    BY <1>1, <1>2, <1>5, <2>2, <2>3, <2>4 DEF TypeOK, Plain
  <2> QED
    BY <1>3, <2>5, <2>6, <2>7
<1>7. CASE ReadShort
  <2>1. crlf # {}
    <3> SUFFICES ASSUME crlf = {} PROVE FALSE
      OBVIOUS
    <3>1. pos + Asked \in Stops(pos)
      BY <1>2, <1>5, <1>7 DEF Stops, ReadShort
    <3>2. Chars(pos, pos + Asked) = Asked
      BY <1>2, <1>5, CharsBounds
    <3> QED
      BY <1>7, <3>1, <3>2 DEF ReadShort
  <2>2. Chars(pos, size) \in Nat
    BY <1>5, CharsBounds
  <2>3. /\ failed' = TRUE /\ pos' = size /\ good' = good + Chars(pos, size)
    BY <1>7 DEF ReadShort
  <2>4. TypeOK'
    BY <1>1, <1>2, <1>5, <2>2, <2>3 DEF TypeOK
  <2> QED
    BY <1>1, <1>3, <1>4, <2>1, <2>3, <2>4 DEF Advanced, Plain
<1>8. CASE ReadNone
  <2>1. crlf # {} /\ UNCHANGED <<pos, good, failed>> /\ failed
    BY <1>8 DEF ReadNone, Plain
  <2>2. TypeOK'
    BY <1>1, <1>2, <2>1 DEF TypeOK
  <2> QED
    BY <1>1, <1>3, <1>4, <2>1, <2>2 DEF Advanced, Plain
<1> QED
  BY <1>6, <1>7, <1>8 DEF SendChunk

\* Every step preserves the invariant.
LEMMA SendNext == FileSendAssumption /\ SendInv /\ [Next]_vars => SendInv'
<1> SUFFICES ASSUME FileSendAssumption, SendInv, [Next]_vars PROVE SendInv'
  OBVIOUS
<1>1. ASSUME UNCHANGED <<file, pos, failed, sent, good>>,
             phase' \in {"sending", "done", "raised"},
             phase' = "done" => Left = 0
      PROVE  SendInv'
  <2>1. TypeOK' /\ Reader' /\ Advanced' /\ (Left' = Left)
    BY <1>1 DEF file, SendInv, TypeOK, Reader, Advanced, Left
  <2>2. Plain'
    BY <1>1, <2>1 DEF file, SendInv, Plain
  <2> QED
    BY <2>1, <2>2 DEF SendInv
<1>2. CASE Finish
  BY <1>1, <1>2, AskedBounds DEF Finish, SendInv
<1>3. CASE SendFails
  BY <1>1, <1>3 DEF SendFails
<1>4. CASE UNCHANGED vars
  <2>1. CASE phase = "done"
    BY <1>4, <2>1 DEF vars, file, SendInv, TypeOK, Reader, Advanced, Plain, Left
  <2>2. CASE phase # "done"
    BY <1>1, <1>4, <2>2 DEF vars, SendInv, TypeOK
  <2> QED
    BY <2>1, <2>2
<1> QED
  BY <1>2, <1>3, <1>4, SendChunkInv DEF Next

\* The invariant holds in every state of every run.
THEOREM SendInvariant == Spec => []SendInv
  BY SendInit, SendNext, FileSendAssumption, PTL DEF Spec

\* The state has its type: the stream never leaves the file, nor the reader its
\* range (base.cpp:616-639).
THEOREM FileSendTypes == Spec => []TypeOK
<1>1. SendInv => TypeOK
  BY DEF SendInv
<1> QED
  BY <1>1, SendInvariant, PTL

\* A file without CR LF: the loop over read(1024) sends just the bytes PlayRange
\* computes in one go (base.cpp:328-335, 475-486).
THEOREM FileSentAsComputed == Spec => []SendsAsComputed
<1>1. SendInv => SendsAsComputed
  <2> SUFFICES ASSUME SendInv, crlf = {}
               PROVE  /\ sent <= Computed.sent /\ good = sent /\ ~failed
                      /\ phase = "done" => sent = Computed.sent
    BY DEF SendsAsComputed
  <2>1. /\ sent = pos - start /\ good = sent /\ ~failed
        /\ ranged => pos <= limit
        /\ phase = "done" => Left = 0
    BY DEF SendInv, Plain
  <2>2. /\ size \in Nat /\ start \in Nat /\ limit \in Nat /\ pos \in Nat
        /\ start <= pos /\ pos <= size /\ start <= limit
    BY DEF SendInv, TypeOK
  <2>3. CASE ~ranged
    <3>1. Computed.sent = size /\ start = 0
      BY <2>3 DEF Computed, CppPlayAll, Answered, SendInv, Reader
    <3>2. phase = "done" => size - pos = 0
      BY <2>1, <2>3 DEF Left
    <3> QED
      BY <2>1, <2>2, <3>1, <3>2
  <2>4. CASE ranged
    <3>1. limit >= 1 /\ CppPlay(size, start, limit - 1).status = 206
      BY <2>4 DEF SendInv, Reader
    <3>2. Computed.sent = Least(limit - start, Rest(size, start))
      BY <2>2, <2>4, <3>1 DEF Computed, CppPlay, Answered, Refused, NoEnd
    <3>3. Computed.sent = Least(limit, size) - start
      BY <2>2, <3>2 DEF Least, Rest
    <3>4. phase = "done" => pos >= limit \/ Least(limit, size) - pos = 0
      BY <2>1, <2>2, <2>4 DEF Left
    <3> QED
      BY <2>1, <2>2, <2>4, <3>3, <3>4 DEF Least
  <2> QED
    BY <2>3, <2>4
<1> QED
  BY <1>1, SendInvariant, PTL

\* A range never sends more than was announced, in a 64-bit build, even if its
\* reads come short (RangeFileStreamReader::read).
THEOREM RangeNeverPast == Spec => []NeverPastRange
<1>1. SendInv => NeverPastRange
  BY DEF SendInv, Advanced, NeverPastRange, Announced
<1> QED
  BY <1>1, SendInvariant, PTL

=============================================================================
