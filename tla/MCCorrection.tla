----------------------------- MODULE MCCorrection ------------------------------
(***************************************************************************)
(* The code's tables in thousands.  WORD is to their products what 2^32 is *)
(* to the code's, and what the sensor delivers goes beyond where a product *)
(* wraps, at 490 without a correction.  The calibrations: factors inside   *)
(* the limits and beyond both of them, a target in every segment, one      *)
(* below and one above half a range, one that the tables do not hold, and  *)
(* a device that read nothing.                                             *)
(***************************************************************************)
EXTENDS Correction, Sequences

Table(s) == [i \in 0 .. Len(s) - 1 |-> s[i + 1]]
MC_dx == Table(<<5, 5, 70, 10>>)
MC_dy == Table(<<12, 6, 42, 10>>)

Of(target, own) == <<target, Pm252Data(target), own>>
MC_Reading == {Of(11, 5), Of(16, 20), Of(40, 30), Of(64, 80), Of(30, 90),
               Of(5, 40), Of(40, 9), Of(3, 0), Of(0, 0), <<80, 17, 30>>}
MC_Sensed == (0 .. 200) \cup (480 .. 560)
===============================================================================
