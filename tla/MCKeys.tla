-------------------------------- MODULE MCKeys --------------------------------
(***************************************************************************)
(* The times of the keys scaled down, in the order they have in system.h.  *)
(***************************************************************************)
EXTENDS Keys

AnyKey == {"POWER", "MODE", "SELECT"}
===============================================================================
