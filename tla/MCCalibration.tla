---------------------------- MODULE MCCalibration ----------------------------
(***************************************************************************)
(* The five commands and one byte that is none, a digit buffer that makes  *)
(* a number, one that makes 0 and the wiped one, which makes another       *)
(* number, and a reading that is steady after two.  The fairness is part   *)
(* of the run: PendingResolved needs it, EachChangeUnlocked holds with it  *)
(* and without.                                                            *)
(***************************************************************************)
EXTENDS Calibration
===============================================================================
