------------------------------ MODULE MCHistory ------------------------------
(***************************************************************************)
(* A small ring for TLC: two slots, so four index values and bytes of      *)
(* eight, enough for the indices to wrap both as bytes and as a ring.      *)
(***************************************************************************)
EXTENDS History, TLC

RecordSymmetry == Permutations(Record)
===============================================================================
