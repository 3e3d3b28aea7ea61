-------------------------------- MODULE Circle --------------------------------
(***************************************************************************)
(* The main circle of main.c: circle_callback, called every 16 ms.  One    *)
(* step of this module is one call, from the keys to the decision to       *)
(* sleep; it is the composition of the blocks of the function, each an     *)
(* operator below, in the order of the code.                               *)
(*                                                                         *)
(* What the blocks only sample is an input of the call: the events of the  *)
(* three keys (module Keys), a command and whether the lock was open       *)
(* (module Calibration), the charger, the battery level and the power key. *)
(* circle_index is only ever compared with the three indices remembered of *)
(* it, so the state holds the distances to them; since stops at            *)
(* SINCE_CAP, beyond every limit it is compared with.                      *)
(***************************************************************************)
EXTENDS Integers

CONSTANTS
    OLED_UPDATE,      \* circles per refresh: CIRCLE_OLED_UPDATE_MASK + 1
    POWERSAVE_PERIOD, \* CIRCLE_POWERSAVE_CALCULATE_MASK + 1
    AUTO_POWER_OFF,   \* CIRCLE_AUTO_POWER_OFF_INDEX
    AUTO_HOLD_REALTIME, AUTO_HOLD_POWERSAVE,  \* CIRCLE_AUTO_HOLD_INDEX_*
    PRE_POWER_OFF,    \* 50*3, the circles the low battery message stays
    RECORDS,          \* bound on the number of saved measurements
    Keys, Commands    \* the key events and commands a call may meet

ASSUME PeriodAssumption ==
    /\ OLED_UPDATE \in Nat /\ OLED_UPDATE > 2
    /\ POWERSAVE_PERIOD \in Nat /\ POWERSAVE_PERIOD > 1
    /\ PRE_POWER_OFF \in 1 .. POWERSAVE_PERIOD
    /\ RECORDS \in Nat /\ RECORDS > 0
ASSUME LimitAssumption ==
    /\ {AUTO_POWER_OFF, AUTO_HOLD_REALTIME, AUTO_HOLD_POWERSAVE} \subseteq Nat
    /\ AUTO_HOLD_REALTIME <= AUTO_POWER_OFF
    /\ AUTO_HOLD_POWERSAVE <= AUTO_POWER_OFF
ASSUME InputAssumption ==
    /\ Keys \subseteq SUBSET {"power", "mode", "select"}
    /\ Commands \subseteq {"none", "P", "W", "M", "other"}

SINCE_CAP == AUTO_POWER_OFF + 1

Status == {"POWERDOFF", "REALTIME", "POWERSAVE", "HISTORY"}
Measuring == {"REALTIME", "POWERSAVE"}

VARIABLES
    c,      \* the state below
    quiet   \* history: the calls since last Watched, up to SINCE_CAP
vars == <<c, quiet>>

State ==
    [status      : Status,                      \* current_system_status
     last        : Status,                      \* scan_key's last_system_status
     is_hold     : BOOLEAN,
     since       : 0 .. SINCE_CAP,              \* circle_index - last_operate_index
     oled_due    : 0 .. OLED_UPDATE - 1,        \* circle_index - oled_updata_index
     calc_due    : 0 .. POWERSAVE_PERIOD - 1,   \* - power_save_calculate_index
     pre_power_off_left : 0 .. PRE_POWER_OFF,
     need_recalculate   : BOOLEAN,
     extrf       : BOOLEAN,                     \* the external reset flag
     records     : 0 .. RECORDS,                \* measurements in the history
     read        : BOOLEAN,                     \* one was read in this SYSTEM_HISTORY
     laser : BOOLEAN, fan : BOOLEAN, avcc : BOOLEAN,
     dark_ground : BOOLEAN,                     \* see Measure
     vcc12 : BOOLEAN, oled : BOOLEAN,
     asleep      : BOOLEAN,
     changed     : BOOLEAN,                     \* system_status_changed, and
     sub         : BOOLEAN]                     \* sub_function, of the last call

\* check_uart reads the port only while charging, and a low battery only
\* counts while not.
Input ==
    {in \in [keys : Keys, command : Commands, released : BOOLEAN,
              supply : {"charging", "good", "low"}] :
        in.command # "none" => in.supply = "charging"}

Charging(in) == in.supply = "charging"

-------------------------------------------------------------------------------
(* A reset by the pin erases the history and starts in SYSTEM_REALTIME.    *)
ExternalReset(s) ==
    IF s.extrf
    THEN [s EXCEPT !.extrf = FALSE, !.records = 0, !.status = "REALTIME"]
    ELSE s

Advance(s) ==
    [s EXCEPT !.changed = FALSE, !.sub = FALSE,
              !.since = IF @ < SINCE_CAP THEN @ + 1 ELSE @,
              !.oled_due = (@ + 1) % OLED_UPDATE,
              !.calc_due = (@ + 1) % POWERSAVE_PERIOD]

(* scan_key, once the key events are known.                                *)
ScanPower(s, in) ==
    IF "power" \notin in.keys
    THEN s
    ELSE IF s.status = "POWERDOFF"
         THEN [s EXCEPT !.status = s.last, !.changed = TRUE]
         ELSE [s EXCEPT !.last = s.status, !.status = "POWERDOFF", !.changed = TRUE]

After(status) == CASE status = "REALTIME"  -> "POWERSAVE"
                   [] status = "POWERSAVE" -> "HISTORY"
                   [] OTHER                -> "REALTIME"

ScanMode(s, in) ==
    IF "mode" \in in.keys /\ s.status # "POWERDOFF"
    THEN [s EXCEPT !.status = After(@), !.changed = TRUE]
    ELSE s

ScanSelect(s, in) ==
    IF "select" \in in.keys /\ s.status # "POWERDOFF" THEN [s EXCEPT !.sub = TRUE] ELSE s

(* check_uart, as far as the status goes; "P" and "W" are those that meet  *)
(* an open lock, the others do nothing, and "other" is an "L" or an "R".   *)
CheckUart(s, in) ==
    CASE in.command = "P" -> [s EXCEPT !.status = "REALTIME", !.changed = TRUE]
      [] in.command = "W" ->
             [s EXCEPT !.status = IF @ # "REALTIME" THEN "REALTIME" ELSE "POWERSAVE",
                       !.changed = TRUE]
      [] in.command = "M" ->
             [s EXCEPT !.status = IF @ = "POWERDOFF" THEN "REALTIME" ELSE @,
                       !.changed = TRUE]
      [] in.command = "other" -> [s EXCEPT !.changed = TRUE]
      [] OTHER -> s

PowerUp(s, in) ==
    IF s.status = "POWERDOFF" /\ ~Charging(in)
    THEN s
    ELSE [s EXCEPT !.vcc12 = TRUE, !.oled = TRUE]

Operated(s) == s.changed \/ s.sub

Operation(s) ==
    LET t == IF s.changed THEN [s EXCEPT !.is_hold = FALSE] ELSE s
    IN  IF Operated(s)
        THEN [t EXCEPT !.since = 0, !.oled_due = 0, !.calc_due = 1]
        ELSE t

(* Without an operation the device turns itself off, and in power save it  *)
(* starts to measure again once a period.                                  *)
\* Mutant for PowerSaveMeasures: the hold is not released.
AutoPowerOffHeld(s, in) ==
    IF s.status = "POWERSAVE"
    THEN IF s.calc_due = 0 THEN [s EXCEPT !.since = 0] ELSE s
    ELSE IF s.since > AUTO_POWER_OFF /\ s.status # "POWERDOFF"
         THEN IF Charging(in)
              THEN [s EXCEPT !.since = 0]
              ELSE [s EXCEPT !.status = "POWERDOFF", !.oled_due = 0]
         ELSE s

AutoPowerOff(s, in) ==
    IF s.status = "POWERSAVE"
    THEN IF s.calc_due = 0 THEN [s EXCEPT !.since = 0, !.is_hold = FALSE] ELSE s
    ELSE IF s.since > AUTO_POWER_OFF /\ s.status # "POWERDOFF"
         THEN IF Charging(in)
              THEN [s EXCEPT !.since = 0]
              ELSE [s EXCEPT !.status = "POWERDOFF", !.oled_due = 0]
         ELSE s

LowBattery(s, in) ==
    IF in.supply = "low" /\ ~Charging(in)
    THEN IF s.pre_power_off_left = 0 /\ s.status # "POWERDOFF"
         THEN [s EXCEPT !.pre_power_off_left = PRE_POWER_OFF, !.oled_due = 0,
                        !.status = "POWERDOFF"]
         ELSE [s EXCEPT !.status = "POWERDOFF"]
    ELSE IF Charging(in) THEN [s EXCEPT !.pre_power_off_left = 0] ELSE s

ToggleHold(s) == IF s.sub THEN [s EXCEPT !.is_hold = ~@] ELSE s

\* Mutant for LaserLimited: power save has no limit of its own.
AutoHoldRealtime(s, in) ==
    IF s.status = "REALTIME" /\ s.since > AUTO_HOLD_REALTIME
    THEN IF Charging(in) THEN [s EXCEPT !.since = 0] ELSE [s EXCEPT !.is_hold = TRUE]
    ELSE s

AutoHold(s, in) ==
    IF \/ s.status = "REALTIME"  /\ s.since > AUTO_HOLD_REALTIME
       \/ s.status = "POWERSAVE" /\ s.since > AUTO_HOLD_POWERSAVE
    THEN IF Charging(in) THEN [s EXCEPT !.since = 0] ELSE [s EXCEPT !.is_hold = TRUE]
    ELSE s

\* Mutant for HistoryShowsRecord: only SELECT reads a measurement.
ShowHistorySub(s) ==
    IF s.status = "HISTORY" /\ s.sub
    THEN IF s.records = 0
         THEN [s EXCEPT !.status = "REALTIME", !.is_hold = FALSE]
         ELSE [s EXCEPT !.read = TRUE]
    ELSE [s EXCEPT !.read = @ /\ s.status = "HISTORY"]

(* Each operation in SYSTEM_HISTORY reads a measurement; when there is     *)
(* none the device goes back to measuring.                                 *)
ShowHistory(s) ==
    IF s.status = "HISTORY" /\ Operated(s)
    THEN IF s.records = 0
         THEN [s EXCEPT !.status = "REALTIME", !.is_hold = FALSE]
         ELSE [s EXCEPT !.read = TRUE]
    ELSE [s EXCEPT !.read = @ /\ s.status = "HISTORY"]

(* Holding a measurement by key saves it.                                  *)
Save(s, last_hold) ==
    IF s.status \in Measuring
    THEN [s EXCEPT !.need_recalculate = FALSE,
                   !.records = IF s.is_hold /\ ~last_hold /\ s.sub /\ @ < RECORDS
                               THEN @ + 1 ELSE @]
    ELSE s

CountDown(s) ==
    IF s.pre_power_off_left = 0
    THEN s
    ELSE [s EXCEPT !.pre_power_off_left = @ - 1,
                   !.oled_due = IF s.pre_power_off_left = 1 THEN 0 ELSE @]

\* Mutant for GroundRenewed: the detector is calibrated only while held.
MeasureHeld(s) ==
    CASE s.oled_due = 0 -> s
      [] s.oled_due = OLED_UPDATE - 1 ->
             IF s.is_hold THEN [s EXCEPT !.laser = FALSE, !.dark_ground = ~s.avcc] ELSE s
      [] OTHER ->
             IF ~s.is_hold /\ s.status \in Measuring
             THEN [s EXCEPT !.avcc = TRUE, !.fan = TRUE, !.laser = TRUE]
             ELSE s

(* One circle in OLED_UPDATE refreshes the display, the one before it      *)
(* calibrates the detector with the laser off, all others measure.  While  *)
(* held or in SYSTEM_HISTORY it is calibrated all the same, although Stop  *)
(* took the detector's supply away: the ground is then a dark one.         *)
Measure(s) ==
    CASE s.oled_due = 0 -> s
      [] s.oled_due = OLED_UPDATE - 1 ->
             IF s.status # "POWERDOFF"
             THEN [s EXCEPT !.laser = FALSE, !.dark_ground = ~s.avcc]
             ELSE s
      [] OTHER ->
             IF ~s.is_hold /\ s.status \in Measuring
             THEN [s EXCEPT !.avcc = TRUE, !.fan = TRUE, !.laser = TRUE]
             ELSE s

Stop(s) ==
    IF ~s.is_hold /\ s.status \in Measuring
    THEN [s EXCEPT !.fan = TRUE, !.avcc = TRUE]
    ELSE [s EXCEPT !.fan = FALSE, !.laser = FALSE, !.avcc = FALSE]

\* Mutant for MessageStaysLit: the countdown is not waited for.
PowerDownAtOnce(s, in) ==
    LET t == IF s.status = "POWERDOFF" THEN [s EXCEPT !.need_recalculate = TRUE] ELSE s
    IN  IF s.status = "POWERDOFF" /\ ~Charging(in)
        THEN [t EXCEPT !.vcc12 = FALSE, !.oled = FALSE, !.asleep = in.released]
        ELSE t

PowerDown(s, in) ==
    LET t == IF s.status = "POWERDOFF" THEN [s EXCEPT !.need_recalculate = TRUE] ELSE s
    IN  IF s.status = "POWERDOFF" /\ ~Charging(in) /\ s.pre_power_off_left = 0
        THEN [t EXCEPT !.vcc12 = FALSE, !.oled = FALSE, !.asleep = in.released]
        ELSE t

(* Not code: the times nobody has to be waited for.  An operation, the     *)
(* start of a period of power save, and the whole time on the charger,     *)
(* where the code measures without end.                                    *)
Watched(s, in) ==
    \/ Operated(s)
    \/ s.status = "POWERSAVE" /\ s.calc_due = 0
    \/ Charging(in)

-------------------------------------------------------------------------------
(* The state main leaves behind after start-up.                            *)
Init ==
    /\ quiet = 0
    /\ \E extrf \in BOOLEAN, records \in 0 .. RECORDS :
           c = [status |-> "POWERDOFF", last |-> "REALTIME", is_hold |-> FALSE,
                since |-> 0, oled_due |-> 0, calc_due |-> 0,
                pre_power_off_left |-> 0, need_recalculate |-> FALSE,
                extrf |-> extrf, records |-> records, read |-> FALSE,
                laser |-> FALSE, fan |-> FALSE, avcc |-> FALSE, dark_ground |-> FALSE,
                vcc12 |-> TRUE, oled |-> TRUE, asleep |-> FALSE,
                changed |-> FALSE, sub |-> FALSE]

\* circle_callback: its blocks in the order of the code, each bound name the
\* state the block leaves.
Circle(in) ==
    /\ ~c.asleep
    /\ \E advanced  \in {Advance(ExternalReset(c))} :
       \E scanned   \in {ScanSelect(ScanMode(ScanPower(advanced, in), in), in)} :
       \E commanded \in {PowerUp(CheckUart(scanned, in), in)} :
       \E operated  \in {Operation(commanded)} :
       \E powered   \in {LowBattery(AutoPowerOff(operated, in), in)} :
       \E held      \in {AutoHold(ToggleHold(powered), in)} :
       \E shown     \in {ShowHistory(held)} :
       \E saved     \in {CountDown(Save(shown, powered.is_hold))} :
           /\ c' = PowerDown(Stop(Measure(saved)), in)
           /\ quiet' = IF Watched(operated, in) THEN 0
                       ELSE IF quiet < SINCE_CAP THEN quiet + 1 ELSE quiet

\* The power key, the charger or the real-time clock ends the sleep.
Wake == c.asleep /\ c' = [c EXCEPT !.asleep = FALSE] /\ UNCHANGED quiet

Next == (\E in \in Input : Circle(in)) \/ Wake

Spec == Init /\ [][Next]_vars

(* The timer overflows for ever and the RTC wakes every ten seconds.       *)
FairSpec == Spec /\ WF_vars(Next)

-------------------------------------------------------------------------------
(* Properties.                                                             *)

(* Between two calls the laser burns only in a running fan and a powered   *)
(* detector, in a measuring status, not held, and off the charger for no   *)
(* longer after the last operation, or the start of a period of power      *)
(* save, than the hold limit of that status; and no status but power save  *)
(* outlives the limit to power off.  The limits are those of quiet, of     *)
(* time really passed, and not of since, which the charger sets back: on   *)
(* the charger the laser burns without end.                                *)
LaserLimited ==
    /\ c.laser => /\ c.fan /\ c.avcc /\ c.vcc12 /\ ~c.is_hold
                  /\ \/ c.status = "REALTIME"  /\ quiet <= AUTO_HOLD_REALTIME
                     \/ c.status = "POWERSAVE" /\ quiet <= AUTO_HOLD_POWERSAVE
    /\ c.status \in {"REALTIME", "HISTORY"} => quiet <= AUTO_POWER_OFF

(* In SYSTEM_HISTORY there is always a saved measurement to show and it    *)
(* was read since the status was entered, however it was entered.          *)
HistoryShowsRecord == c.status = "HISTORY" => c.records > 0 /\ c.read

(* A low battery turns the device off with its message on the display for  *)
(* the whole countdown: as long as some of it is left, the display keeps   *)
(* its supply.                                                             *)
MessageStaysLit == c.pre_power_off_left > 0 => c.vcc12 /\ c.oled

(* A ground taken from the detector without its supply is not used for     *)
(* long: counted from the operation, or the start of power save, that      *)
(* began to measure with it, a new one is taken within two periods of the  *)
(* refresh.  (One is not enough, since the end of a low battery message    *)
(* moves the refresh, and the calibration before it, away.)                *)
GroundRenewed == c.laser /\ c.dark_ground => c.since < 2 * OLED_UPDATE - 2

(* In power save the device measures again and again, as long as nobody    *)
(* operates it, although it holds in between.                              *)
PowerSaveMeasures ==
    <>[](c.status = "POWERSAVE" /\ ~Operated(c)) => []<>c.laser
===============================================================================
