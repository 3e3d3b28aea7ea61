------------------------------- MODULE MCSerial -------------------------------
(***************************************************************************)
(* Two digits, so that storing one and storing the last one differ, and    *)
(* one byte of each kind the receiver tells apart: 'S', 'E', 'M', another  *)
(* byte and 0x00.                                                          *)
(***************************************************************************)
EXTENDS Serial
===============================================================================
