----------------------------- MODULE CommandPort -----------------------------
(***************************************************************************)
(* What the rest of the firmware may rely on of the serial port: a mailbox *)
(* for one command and the digits that came with it.  A command that waits *)
(* is safe from the line.  Once it is taken the mailbox is open again, and *)
(* from then on the line may change both the type byte and the digits at   *)
(* any moment, even while the taken command is still being dealt with.     *)
(***************************************************************************)
CONSTANTS Byte,          \* the values of a received byte
          Zero,          \* the byte 0x00
          CALIBRATE,     \* the command whose digits are used
          Digits,        \* the contents of the digit buffer
          Wiped          \* the buffer after memset

VARIABLES full,          \* a command waits in the mailbox
          type,          \* the type byte of the mailbox
          digits,        \* the digits of the mailbox
          CommandType,   \* the command last taken, until it is finished with
          stage          \* the operation on the port the main program is in

vars == <<full, type, digits, CommandType, stage>>

Init == /\ full = FALSE
        /\ type = Zero
        /\ digits = Wiped
        /\ CommandType = Zero
        /\ stage = "circle"

-------------------------------------------------------------------------------
(* The line.                                                               *)

Arrive == /\ ~full
          /\ full' = TRUE
          /\ UNCHANGED <<type, digits, CommandType, stage>>

Disturb == /\ ~full
           /\ type' \in Byte
           /\ digits' \in Digits
           /\ UNCHANGED <<full, CommandType, stage>>

(* The main program.  What it goes by is the type byte at Return, and the  *)
(* digits at Deal.                                                         *)

Take == /\ stage = "circle"
        /\ full
        /\ full' = FALSE
        /\ CommandType' = type
        /\ stage' = "inform"
        /\ UNCHANGED <<type, digits>>

Return == /\ stage = "inform"
          /\ stage' = "circle"
          /\ UNCHANGED <<full, type, digits, CommandType>>

Deal == /\ stage = "circle"
        /\ CommandType = CALIBRATE
        /\ stage' = "deal"
        /\ UNCHANGED <<full, type, digits, CommandType>>

Wipe == /\ stage = "deal"
        /\ digits' = Wiped
        /\ stage' = "write"
        /\ UNCHANGED <<full, type, CommandType>>

Finish == /\ stage = "write"
          /\ CommandType' = Zero
          /\ stage' = "circle"
          /\ UNCHANGED <<full, type, digits>>

Drop == /\ stage = "circle"
        /\ CommandType = CALIBRATE
        /\ CommandType' = Zero
        /\ UNCHANGED <<full, type, digits, stage>>

Reset == /\ full' = FALSE
         /\ type' = Zero
         /\ digits' = Wiped
         /\ CommandType' = Zero
         /\ stage' = "circle"

Next == \/ Arrive
        \/ Disturb
        \/ Take
        \/ Return
        \/ Deal
        \/ Wipe
        \/ Finish
        \/ Drop
        \/ Reset

Spec == Init /\ [][Next]_vars
===============================================================================
