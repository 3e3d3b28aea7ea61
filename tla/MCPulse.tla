------------------------------- MODULE MCPulse --------------------------------
(* Two overlapping windows, as those of dust_info, and a maximum the       *)
(* pulses of one circle can reach.                                         *)
EXTENDS Pulse

MCxmin == <<0, 2>>
MCxmax == <<3, 5>>
MCLight == {-1, 1, 2}
===============================================================================
