------------------------------ MODULE MCDianWire ------------------------------
(* Instances of DianWire for TLC.                                          *)
EXTENDS DianWire

SmallSizes == 0..2
SmallPositions == 0..4

===============================================================================
