------------------------------ MODULE HistoryLog ------------------------------
(***************************************************************************)
(* What the history component promises to the rest of the firmware: a      *)
(* bounded log of measurements, oldest first, read back newest first and   *)
(* round again.  Saving into a full log first gives up the oldest entry.   *)
(* A reset loses at most the entry being saved and that oldest entry.      *)
(* Power lost half way through erasing the log voids the promise until the *)
(* next completed erase.                                                   *)
(***************************************************************************)
EXTENDS Naturals, Sequences

CONSTANTS SIZE,      \* capacity (HISTORY_EEPROM_SIZE)
          Record,    \* the measurements that can be saved
          NoRecord   \* the zeroed history_t the program starts with

VARIABLES log,       \* the saved measurements, oldest first
          cursor,    \* how many were shown since the newest
          shown,     \* the measurement last read back
          intact     \* FALSE while an interrupted erase voids the promise

vars == <<log, cursor, shown, intact>>

Init == log = <<>> /\ cursor = 0 /\ shown = NoRecord /\ intact = TRUE

-------------------------------------------------------------------------------
Save(rec) == /\ intact
             /\ Len(log) < SIZE
             /\ log' = Append(log, rec)
             /\ UNCHANGED <<cursor, shown, intact>>

GiveUpOldest == /\ intact
                /\ Len(log) = SIZE
                /\ log' = Tail(log)
                /\ UNCHANGED <<cursor, shown, intact>>

Read(k) == /\ shown' = log[Len(log) - k]
           /\ cursor' = k + 1

\* The next older measurement, or the newest when isfirst or at the end.
ReadNext(isfirst) ==
    /\ intact
    /\ UNCHANGED <<log, intact>>
    /\ LET at == IF isfirst THEN 0 ELSE cursor
       IN  \/ log = <<>> /\ cursor' = 0 /\ shown' = shown
           \/ log # <<>> /\ Read(IF at < Len(log) THEN at ELSE 0)

Reset == /\ cursor' = 0
         /\ shown' = NoRecord
         /\ intact' \in {intact, FALSE}
         /\ log' = IF intact' THEN log ELSE <<>>

Erase == /\ log' = <<>>
         /\ intact' = TRUE
         /\ UNCHANGED <<cursor, shown>>

\* Nothing is promised of what is read from a log whose erase was cut short.
Unspecified == ~intact /\ UNCHANGED <<log, intact>>

Next == \/ \E rec \in Record : Save(rec)
        \/ GiveUpOldest
        \/ \E isfirst \in BOOLEAN : ReadNext(isfirst)
        \/ Reset
        \/ Erase
        \/ Unspecified

Spec == Init /\ [][Next]_vars
===============================================================================
