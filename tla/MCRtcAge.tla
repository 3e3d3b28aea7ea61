------------------------------- MODULE MCRtcAge --------------------------------
(***************************************************************************)
(* A calendar of sixteen rounds, in which every phase of alarm and round   *)
(* occurs, and units so short that an age goes through all of them.        *)
(***************************************************************************)
EXTENDS RtcAge

MC_div_for_time == [i \in Seconds .. Months - 1 |-> IF i = 1 THEN 3 ELSE 2]
===============================================================================
