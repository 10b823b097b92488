----------------------------- MODULE MCFileSend -----------------------------
(* Instances of FileSend for TLC.                                          *)
EXTENDS FileSend

SmallSizes == 0..6
SmallPositions == 0..6

=============================================================================
