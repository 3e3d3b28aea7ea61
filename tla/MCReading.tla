------------------------------- MODULE MCReading -------------------------------
(***************************************************************************)
(* Small numbers in the proportions of the code's: 4 * 2^13 is about a     *)
(* sixth of 1 / KVALUE, so that a distance of six or less is not made up   *)
(* by a rise before the factor wraps, and one of seven is; and with BITS a *)
(* fall from 28 to 24 at the factor 1 is less than a float can hold.       *)
(* Every segment of the curve, a difference and a product that wrap.       *)
(***************************************************************************)
EXTENDS Reading, Sequences

Table(s) == [i \in 0 .. Len(s) - 1 |-> s[i + 1]]
MC_dx == Table(<<1, 1, 3, 4>>)
MC_dy == Table(<<3, 2, 2, 40>>)
MC_Power == [e \in 0 .. BITS |-> 2^e]
===============================================================================
