----------------------------- MODULE Calibration -----------------------------
(***************************************************************************)
(* Remote commands and calibration: check_uart of main.c, which obeys the  *)
(* commands taken from the serial port under the lock g_main_unlock_step,  *)
(* and pm25_get_correction of serial.c, which carries a calibration out    *)
(* once the reading has been steady.  The two meet only in the lock, in    *)
(* the system status and in the latched CommandType, and many circles may  *)
(* pass between them.                                                      *)
(*                                                                         *)
(* The serial port is the mailbox of CommandPort, which Serial implements. *)
(* The calibration pair in the EEPROM is one value here, its writing is    *)
(* the subject of CalibrationStore.                                        *)
(***************************************************************************)
EXTENDS Integers

CONSTANTS Byte, Zero,
          COMMAND_POWERON,          \* 'P'
          COMMAND_SWITCH,           \* 'W'
          PM25_CALIBRATION_CODE,    \* 'M'
          PM25_UNLOCK_CODE,         \* 'L'
          PM25_ERASE_CODE,          \* 'R'
          Digits,                   \* contents of the digit buffer
          Wiped,                    \* four bytes 0x00: -48 each, as digits
          Nought,                   \* the digits whose value is 0
          Identity,                 \* the correction of an erased EEPROM
          STEADY,                   \* readings in a row that count as steady (6)
          STEADY_CAP                \* INT8_MAX - 1

ASSUME SteadyAssumption == /\ STEADY \in Nat /\ STEADY_CAP \in Nat
                           /\ STEADY <= STEADY_CAP
ASSUME CodeAssumption ==     \* they are six characters
    /\ COMMAND_POWERON \notin {COMMAND_SWITCH, PM25_CALIBRATION_CODE, PM25_UNLOCK_CODE,
                               PM25_ERASE_CODE, Zero}
    /\ COMMAND_SWITCH \notin {PM25_CALIBRATION_CODE, PM25_UNLOCK_CODE, PM25_ERASE_CODE, Zero}
    /\ PM25_CALIBRATION_CODE \notin {PM25_UNLOCK_CODE, PM25_ERASE_CODE, Zero}
    /\ PM25_UNLOCK_CODE \notin {PM25_ERASE_CODE, Zero}
    /\ PM25_ERASE_CODE # Zero
ASSUME DigitsAssumption == /\ {Wiped, Nought} \subseteq Digits /\ Wiped # Nought
                           /\ Identity \notin Digits

VARIABLES
    full, type, digits, CommandType, stage,   \* the port
    unlock_step,   \* g_main_unlock_step
    status,        \* current_system_status
    charging,      \* battery_is_charging()
    calm,          \* the filtered reading is close to the last one
    steady,        \* pm25SteadyLast
    value,         \* the digits DealUART2Data added up (a local, Wiped when unused)
    correction,    \* the digits the device is calibrated to, or Identity
    unlocked,      \* ghost: an unlock was obeyed since the EEPROM last changed
    raced          \* ghost: a command was obeyed that is not the one taken

port  == <<full, type, digits, CommandType, stage>>
ghost == <<unlocked, raced>>
vars  == <<full, type, digits, CommandType, stage, unlock_step, status,
           charging, calm, steady, value, correction, unlocked, raced>>

Port == INSTANCE CommandPort WITH CALIBRATE <- PM25_CALIBRATION_CODE

UnlockStep == {"LOCK", "UNLOCK", "READY"}
Status == {"POWERDOFF", "REALTIME", "POWERSAVE", "HISTORY"}

Init ==
    /\ Port!Init
    /\ unlock_step = "LOCK"
    /\ status = "POWERDOFF"
    /\ charging \in BOOLEAN /\ calm \in BOOLEAN
    /\ steady = 0
    /\ value = Wiped
    /\ correction = Identity
    /\ unlocked = FALSE /\ raced = FALSE

-------------------------------------------------------------------------------
(* The line, at any moment.                                                *)
Line ==
    /\ Port!Arrive \/ Port!Disturb
    /\ UNCHANGED <<unlock_step, status, charging, calm, steady, value,
                   correction, ghost>>

(* check_uart: nothing while the battery is not charging; otherwise the    *)
(* type byte CheckUART2Rev returns is obeyed.                              *)
CheckTake ==
    /\ charging
    /\ Port!Take
    /\ UNCHANGED <<unlock_step, status, charging, calm, steady, value,
                   correction, ghost>>

Obey(command) ==
    /\ Port!Return
    /\ type = command
    /\ raced' = (raced \/ type # CommandType)
    /\ UNCHANGED <<charging, calm, steady, value>>

PowerOn ==
    /\ Obey(COMMAND_POWERON)
    /\ IF unlock_step = "UNLOCK"
       THEN status' = "REALTIME" /\ unlock_step' = "LOCK"
       ELSE UNCHANGED <<status, unlock_step>>
    /\ UNCHANGED <<correction, unlocked>>

Switch ==
    /\ Obey(COMMAND_SWITCH)
    /\ IF unlock_step = "UNLOCK"
       THEN /\ status' = IF status # "REALTIME" THEN "REALTIME" ELSE "POWERSAVE"
            /\ unlock_step' = "LOCK"
       ELSE UNCHANGED <<status, unlock_step>>
    /\ UNCHANGED <<correction, unlocked>>

\* Mutant for EachChangeUnlocked: only the first calibration is guarded.
CalibrateStaysReady ==
    /\ Obey(PM25_CALIBRATION_CODE)
    /\ status' = IF status = "POWERDOFF" THEN "REALTIME" ELSE status
    /\ unlock_step' = IF unlock_step = "UNLOCK" THEN "READY" ELSE unlock_step
    /\ UNCHANGED <<correction, unlocked>>

Calibrate ==
    /\ Obey(PM25_CALIBRATION_CODE)
    /\ status' = IF status = "POWERDOFF" THEN "REALTIME" ELSE status
    /\ unlock_step' = IF unlock_step = "UNLOCK" THEN "READY" ELSE "LOCK"
    /\ UNCHANGED <<correction, unlocked>>

Unlock ==
    /\ Obey(PM25_UNLOCK_CODE)
    /\ unlock_step' = "UNLOCK"
    /\ unlocked' = TRUE
    /\ UNCHANGED <<status, correction>>

Erase ==
    /\ Obey(PM25_ERASE_CODE)
    /\ IF unlock_step = "UNLOCK"
       THEN unlock_step' = "LOCK" /\ correction' = Identity /\ unlocked' = FALSE
       ELSE UNCHANGED <<unlock_step, correction, unlocked>>
    /\ UNCHANGED status

OtherCommand ==
    /\ Obey(type)
    /\ type \notin {COMMAND_POWERON, COMMAND_SWITCH, PM25_CALIBRATION_CODE,
                    PM25_UNLOCK_CODE, PM25_ERASE_CODE}
    /\ UNCHANGED <<unlock_step, status, correction, unlocked>>

(* pm25_get_correction, called when the display is refreshed in any status *)
(* but SYSTEM_HISTORY.                                                     *)
Capped(n)  == IF n > STEADY_CAP THEN STEADY_CAP ELSE n
Floored(n) == IF n < 0 THEN 0 ELSE n

\* Mutant for PendingResolved: the latch is cleared only after a calibration.
RefreshKeepsLatch ==
    /\ stage = "circle"
    /\ status # "HISTORY"
    /\ steady' = IF calm THEN Capped(steady + 1) ELSE Floored(steady - 2)
    /\ IF /\ CommandType = PM25_CALIBRATION_CODE /\ steady' >= STEADY
          /\ status = "REALTIME" /\ unlock_step = "READY"
       THEN Port!Deal /\ value' = digits
       ELSE UNCHANGED <<port, value>>
    /\ UNCHANGED <<unlock_step, status, charging, calm, correction, ghost>>

Refresh ==
    /\ stage = "circle"
    /\ status # "HISTORY"
    /\ steady' = IF calm THEN Capped(steady + 1) ELSE Floored(steady - 2)
    /\ IF CommandType = PM25_CALIBRATION_CODE /\ steady' >= STEADY
       THEN IF status = "REALTIME" /\ unlock_step = "READY"
            THEN Port!Deal /\ value' = digits
            ELSE Port!Drop /\ UNCHANGED value
       ELSE UNCHANGED <<port, value>>
    /\ UNCHANGED <<unlock_step, status, charging, calm, correction, ghost>>

(* DealUART2Data clears the buffer, and writes nothing when the digits     *)
(* make 0.  That is the digit '0' four times, not the cleared bytes: of    *)
(* these '0' is subtracted as well, so that their sum wraps to a large     *)
(* number and is written.  Then CommandType is cleared; the lock is left   *)
(* as it is.                                                               *)
Clear ==
    /\ Port!Wipe
    /\ UNCHANGED <<unlock_step, status, charging, calm, steady, value,
                   correction, ghost>>

Write ==
    /\ Port!Finish
    /\ IF value = Nought
       THEN UNCHANGED <<correction, unlocked>>
       ELSE correction' = value /\ unlocked' = FALSE
    /\ value' = Wiped
    /\ UNCHANGED <<unlock_step, status, charging, calm, steady, raced>>

(* The keys and the time-outs of the circle change the status.             *)
OtherStatus ==
    /\ stage = "circle"
    /\ status' \in Status \ {status}
    /\ UNCHANGED <<port, unlock_step, charging, calm, steady, value, correction,
                   ghost>>

(* Going to sleep locks.                                                   *)
Sleep ==
    /\ stage = "circle"
    /\ status = "POWERDOFF" /\ ~charging
    /\ unlock_step' = "LOCK"
    /\ UNCHANGED <<port, status, charging, calm, steady, value, correction, ghost>>

Charger ==
    /\ charging' = ~charging
    /\ UNCHANGED <<port, unlock_step, status, calm, steady, value, correction,
                   ghost>>

Air ==
    /\ calm' = ~calm
    /\ UNCHANGED <<port, unlock_step, status, charging, steady, value,
                   correction, ghost>>

(* The reset pin makes the next circle start in SYSTEM_REALTIME.           *)
Reset ==
    /\ Port!Reset
    /\ unlock_step' = "LOCK"
    /\ status' \in {"POWERDOFF", "REALTIME"}
    /\ steady' = 0
    /\ value' = Wiped
    /\ unlocked' = FALSE /\ raced' = FALSE
    /\ UNCHANGED <<charging, calm, correction>>

Next ==
    \/ Line
    \/ CheckTake
    \/ PowerOn \/ Switch \/ Calibrate \/ Unlock \/ Erase \/ OtherCommand
    \/ Refresh
    \/ Clear
    \/ Write
    \/ OtherStatus
    \/ Sleep
    \/ Charger
    \/ Air
    \/ Reset

Spec == Init /\ [][Next]_vars

(* The main loop finishes each call it makes.  The display is refreshed at *)
(* the latest every 64 circles, and in a circle that obeyed a command, so  *)
(* that commands, however many, cannot keep it from being refreshed again. *)
Fairness == /\ SF_vars(Refresh)
            /\ WF_vars(Clear)
            /\ WF_vars(Write)
            /\ WF_vars(PowerOn \/ Switch \/ Calibrate \/ Unlock \/ Erase
                       \/ OtherCommand)

FairSpec == Spec /\ Fairness

-------------------------------------------------------------------------------
(* Properties.                                                             *)

(* Each change of the calibration, writing or erasing it, needs an unlock  *)
(* command of its own: one unlock never serves two changes, however many   *)
(* other commands come between and however long the reading takes to get   *)
(* steady.  (The lock stays READY after a calibration; what protects the   *)
(* next one is that obeying its command closes the lock.  That fails when  *)
(* the command obeyed is not the command taken.)                           *)
EachChangeUnlocked == [][correction' # correction => unlocked \/ raced]_vars

(* A calibration command does not stay pending for ever once the reading   *)
(* is steady and the history is left: it is carried out or dropped, and    *)
(* the latch is free again.                                                *)
PendingResolved ==
    <>[](calm /\ status # "HISTORY") => []<>(CommandType # PM25_CALIBRATION_CODE)
===============================================================================
