------------------------------ MODULE PlayRange ------------------------------
(***************************************************************************)
(* How many bytes a PLAY announces and how many it sends, in Session.play  *)
(* of the Python server (base.py) and in the play callback of the C++      *)
(* server (server-main.cpp).  A range is a pair of positions, NoEnd for an *)
(* end left out ("npt=5-"); sizes and positions are natural numbers.       *)
(***************************************************************************)
EXTENDS Integers

NoEnd == -1

\* What happens to one PLAY: the answer has a head, with a Content-Length, and a
\* body; or the handler raises, before (status 0) or after the head.
Answered(n, a, b) == [status |-> n, announced |-> a, sent |-> b, raised |-> FALSE]
Refused(n) == Answered(n, 0, 0)
RaisedBeforeHead == [status |-> 0, announced |-> 0, sent |-> 0, raised |-> TRUE]
RaisedAfterHead(a) == [status |-> 206, announced |-> a, sent |-> 0, raised |-> TRUE]

\* Bytes of a file of the given size from position p on.
Rest(size, p) == IF p < size THEN size - p ELSE 0
Least(a, b) == IF a < b THEN a ELSE b

-----------------------------------------------------------------------------
(* Python: Session.play and FileStreamReader.readall                       *)

PyPlayAll(size) == Answered(206, size, size)

\* `if not end` takes an end of 0 for one left out.
PyEnd(size, end) == IF end = 0 THEN size + 1 ELSE end

\* Mutant: the end is taken as exclusive in the head.
PyPlayExclusive(size, start, end) ==
  IF end = NoEnd THEN RaisedBeforeHead
  ELSE Answered(206, end - start, Least(end + 1 - start, Rest(size, start)))

\* file.read(n) after file.seek(start): to the end of the file for n = -1,
\* ValueError below.
PyPlay(size, start, end) ==
  LET last == PyEnd(size, end)
      asked == last + 1 - start
  IN  IF end = NoEnd THEN RaisedBeforeHead
      ELSE IF asked < -1 THEN RaisedAfterHead(asked)
      ELSE IF asked = -1 THEN Answered(206, asked, Rest(size, start))
      ELSE Answered(206, asked, Least(asked, Rest(size, start)))

-----------------------------------------------------------------------------
(* C++: the play callback, RangeFileStreamReader::read and maxlen          *)

CppPlayAll(size) == Answered(200, size, size)

\* Mutant: the check of the positions dropped.
CppPlayUnchecked(size, start, end) ==
  IF end = NoEnd \/ end < start THEN Refused(400)
  ELSE Answered(206, end + 1 - start, Least(end + 1 - start, Rest(size, start)))

CppPlay(size, start, end) ==
  IF end = NoEnd \/ end < start THEN Refused(400)
  ELSE IF start > size \/ end > size THEN Refused(416)
  ELSE Answered(206, end + 1 - start, Least(end + 1 - start, Rest(size, start)))

-----------------------------------------------------------------------------
(* What a client may expect                                                *)

\* The bytes from start to end, both included, of a range inside the file.
InFile(size, start, end) == start <= end /\ end < size

Exact(a) == ~a.raised /\ a.announced = a.sent

=============================================================================
