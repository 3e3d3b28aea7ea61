------------------------------- MODULE MCSleep --------------------------------
(* Module Sleep with its converter, two conversions to a loop.             *)
EXTENDS Sleep
===============================================================================
