--------------------------- MODULE PlayRangeProofs ---------------------------
(* Proofs about PlayRange, for files and ranges of any size.               *)
EXTENDS PlayRange, TLAPS

\* A range inside the file is answered with just the bytes asked for, by either
\* server (base.py:228-235, server-main.cpp:81-93).
THEOREM InFileRangesAreExact ==
  ASSUME NEW size \in Nat, NEW start \in Nat, NEW end \in Nat \ {0},
         InFile(size, start, end)
  PROVE  /\ PyPlay(size, start, end) = Answered(206, end - start + 1, end - start + 1)
         /\ CppPlay(size, start, end) = PyPlay(size, start, end)
<1>1. /\ start <= end /\ end < size /\ end # NoEnd
      /\ end + 1 - start = end - start + 1 /\ end + 1 - start >= 1
      /\ Least(end + 1 - start, Rest(size, start)) = end + 1 - start
  BY DEF InFile, NoEnd, Least, Rest
<1>2. PyPlay(size, start, end) = Answered(206, end - start + 1, end - start + 1)
  BY <1>1 DEF PyPlay, PyEnd
<1>3. CppPlay(size, start, end) = Answered(206, end - start + 1, end - start + 1)
  BY <1>1 DEF CppPlay
<1> QED
  BY <1>2, <1>3

\* The Python server announces what it sends only for a range inside the file
\* or an empty one: an end past the file, or an end of 0, is never clipped
\* (base.py:223-229).
THEOREM PyExactIff ==
  ASSUME NEW size \in Nat, NEW start \in Nat, NEW end \in Nat
  PROVE  Exact(PyPlay(size, start, end)) <=>
           \/ InFile(size, start, PyEnd(size, end))
           \/ start = PyEnd(size, end) + 1
<1> DEFINE last == PyEnd(size, end)
           asked == last + 1 - start
<1>1. last \in Nat /\ asked \in Int /\ end # NoEnd
  BY DEF PyEnd, NoEnd
<1>2. CASE asked < -1
  BY <1>1, <1>2 DEF PyPlay, RaisedAfterHead, Exact, InFile
<1>3. CASE asked = -1
  BY <1>1, <1>3 DEF PyPlay, Answered, Exact, InFile, Rest
<1>4. CASE asked >= 0
  BY <1>1, <1>4 DEF PyPlay, Answered, Exact, InFile, Rest, Least
<1> QED
  BY <1>1, <1>2, <1>3, <1>4

\* The C++ server announces at most one byte too many, and that only for a range
\* that ends at the size of the file, which line 82 lets through.
THEOREM CppOneByteOff ==
  ASSUME NEW size \in Nat, NEW start \in Nat, NEW end \in Nat,
         CppPlay(size, start, end).status = 206
  PROVE  /\ CppPlay(size, start, end).announced =
              CppPlay(size, start, end).sent + (IF end = size THEN 1 ELSE 0)
         /\ CppPlay(size, start, end).announced >= 1
<1>1. end # NoEnd /\ start <= end /\ end <= size
  BY DEF CppPlay, Refused, Answered, NoEnd
<1> QED
  BY <1>1 DEF CppPlay, Answered, Rest, Least, NoEnd

=============================================================================
