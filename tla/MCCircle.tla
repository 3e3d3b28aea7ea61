------------------------------- MODULE MCCircle -------------------------------
(***************************************************************************)
(* The periods and limits of the code, in their order, as small as leaves  *)
(* a circle of each kind: refresh < hold in power save < hold in real time *)
(* < period of power save < power off.  As in the code the period is a     *)
(* multiple of that of the refresh.                                        *)
(***************************************************************************)
EXTENDS Circle

\* Every combination of key events and commands.
AllKeys == SUBSET {"power", "mode", "select"}
AllCommands == {"none", "P", "W", "M", "other"}
===============================================================================
