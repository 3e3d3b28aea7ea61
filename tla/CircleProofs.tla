----------------------------- MODULE CircleProofs ------------------------------
(***************************************************************************)
(* What holds between two calls of circle_callback, for all periods and    *)
(* limits and whatever keys, commands, charger and battery do.             *)
(*                                                                         *)
(* A call is the composition of blocks, so its proof is one lemma for each *)
(* block: from an assertion about the state the block meets follows the    *)
(* one about the state it leaves, as in a proof of a sequential program.   *)
(***************************************************************************)
EXTENDS Circle, TLAPS

-------------------------------------------------------------------------------
(* The parts of the invariant say something of a state s: of c between two *)
(* calls, and of the states the blocks of a call leave.                    *)

Running(s) == ~s.is_hold /\ s.status \in Measuring

(* The supplies go with what is being measured, and the laser with them.   *)
Supplied(s) == Running(s) <=> s.avcc
Blown(s)    == s.laser => Running(s) /\ s.fan

(* What is on has its supply, and so has the message.                      *)
MessagePowered(s) == s.pre_power_off_left > 0 => s.vcc12 /\ s.oled
Powered(s) == MessagePowered(s) /\ (s.status # "POWERDOFF" => s.vcc12 /\ s.oled)

(* Only a device that was never operated has its reset before it.          *)
Fresh(s) == s.extrf => /\ s.status = "POWERDOFF" /\ s.oled_due = 0
                       /\ s.pre_power_off_left = 0 /\ ~s.avcc /\ ~s.dark_ground

(* A message turned off the device; who operates it while the message      *)
(* stays starts a period of power save that ends after the message.        *)
MessageInPeriod(s) ==
    s.pre_power_off_left > 0 /\ s.status # "POWERDOFF"
        => s.calc_due > 0 /\ s.calc_due + s.pre_power_off_left <= PRE_POWER_OFF
MessageShorter(s) ==
    /\ s.pre_power_off_left < PRE_POWER_OFF
    /\ s.pre_power_off_left > 0 /\ s.status # "POWERDOFF"
           => s.calc_due > 0 /\ s.calc_due + s.pre_power_off_left < PRE_POWER_OFF

(* Where the refresh is while a dark ground is in use: the calibration is  *)
(* at most two periods away from the operation, and one as long as a       *)
(* message can still move it.                                              *)
Renewing(s) ==
    s.dark_ground /\ Running(s)
        => /\ s.since - s.oled_due < OLED_UPDATE
           /\ s.pre_power_off_left > 0 => s.since <= s.oled_due

(* Just calibrated, the ground is a dark one only when power save had just *)
(* started to measure.                                                     *)
Calibrated(s) ==
    s.dark_ground /\ Running(s) /\ s.oled_due = OLED_UPDATE - 1
        => s.since = 0 /\ s.pre_power_off_left = 0

(* The limits of time, for each status.                                    *)
Attended(s) == s.status \in {"REALTIME", "HISTORY"} => s.since <= AUTO_POWER_OFF
HoldLimited(s) ==
    ~s.is_hold => /\ s.status = "REALTIME"  => s.since <= AUTO_HOLD_REALTIME
                  /\ s.status = "POWERSAVE" => s.since <= AUTO_HOLD_POWERSAVE

Shown(s) == s.status = "HISTORY" => s.records > 0 /\ s.read

CircleInv ==
    /\ c \in State
    /\ Supplied(c) /\ Blown(c) /\ Powered(c) /\ Fresh(c) /\ MessageShorter(c)
    /\ Renewing(c) /\ Calibrated(c) /\ Attended(c) /\ HoldLimited(c)
    /\ Shown(c)

-------------------------------------------------------------------------------
(* The assertions within a call.                                           *)

(* The measurement that is to come switches the supply on before the next  *)
(* calibration, unless power save has just started to measure.             *)
SupplyAhead(s) ==
    Running(s) /\ ~s.avcc
        => s.oled_due < OLED_UPDATE - 1 \/ (s.since = 0 /\ s.pre_power_off_left = 0)

Carried(s) == MessageInPeriod(s) /\ Renewing(s) /\ SupplyAhead(s) /\ Shown(s)

(* Until the operations of the call are known: what was carried over from  *)
(* the last call still holds if the status was not changed.                *)
Begun(s) == /\ s \in State
            /\ ~s.extrf
            /\ s.pre_power_off_left < PRE_POWER_OFF
            /\ MessagePowered(s)
            /\ ~s.changed => Carried(s)

(* From then on.                                                           *)
Underway(s) == /\ s \in State
               /\ ~s.extrf
               /\ Powered(s) /\ MessageInPeriod(s) /\ Renewing(s) /\ SupplyAhead(s)
               /\ Operated(s) => s.since = 0 /\ s.oled_due = 0
               /\ ~Operated(s) => Shown(s)

(* Once all decisions are taken.                                           *)
Decided(s) == Underway(s) /\ Attended(s) /\ HoldLimited(s) /\ Shown(s)

-------------------------------------------------------------------------------
(* Each assignment of a block leaves a state of the right type.            *)

LEMMA TypedStates ==
    ASSUME NEW s \in State
    PROVE  /\ \A v \in Status : [s EXCEPT !.status = v] \in State
           /\ \A v \in Status : [s EXCEPT !.last = v] \in State
           /\ \A v \in 0 .. SINCE_CAP : [s EXCEPT !.since = v] \in State
           /\ \A v \in 0 .. OLED_UPDATE - 1 : [s EXCEPT !.oled_due = v] \in State
           /\ \A v \in 0 .. POWERSAVE_PERIOD - 1 : [s EXCEPT !.calc_due = v] \in State
           /\ \A v \in 0 .. PRE_POWER_OFF : [s EXCEPT !.pre_power_off_left = v] \in State
           /\ \A v \in 0 .. RECORDS : [s EXCEPT !.records = v] \in State
           /\ \A v \in BOOLEAN :
                  /\ [s EXCEPT !.is_hold = v] \in State
                  /\ [s EXCEPT !.need_recalculate = v] \in State
                  /\ [s EXCEPT !.extrf = v] \in State
                  /\ [s EXCEPT !.read = v] \in State
                  /\ [s EXCEPT !.laser = v] \in State
                  /\ [s EXCEPT !.fan = v] \in State
                  /\ [s EXCEPT !.avcc = v] \in State
                  /\ [s EXCEPT !.dark_ground = v] \in State
                  /\ [s EXCEPT !.vcc12 = v] \in State
                  /\ [s EXCEPT !.oled = v] \in State
                  /\ [s EXCEPT !.asleep = v] \in State
                  /\ [s EXCEPT !.changed = v] \in State
                  /\ [s EXCEPT !.sub = v] \in State
<1>1. ASSUME NEW v \in Status PROVE [s EXCEPT !.status = v] \in State
  BY DEF State
<1>2. ASSUME NEW v \in Status PROVE [s EXCEPT !.last = v] \in State
  BY DEF State
<1>3. ASSUME NEW v \in 0 .. SINCE_CAP PROVE [s EXCEPT !.since = v] \in State
  BY DEF State
<1>4. ASSUME NEW v \in 0 .. OLED_UPDATE - 1 PROVE [s EXCEPT !.oled_due = v] \in State
  BY DEF State
<1>5. ASSUME NEW v \in 0 .. POWERSAVE_PERIOD - 1 PROVE [s EXCEPT !.calc_due = v] \in State
  BY DEF State
<1>6. ASSUME NEW v \in 0 .. PRE_POWER_OFF PROVE [s EXCEPT !.pre_power_off_left = v] \in State
  BY DEF State
<1>7. ASSUME NEW v \in 0 .. RECORDS PROVE [s EXCEPT !.records = v] \in State
  BY DEF State
<1>8. ASSUME NEW v \in BOOLEAN
      PROVE  /\ [s EXCEPT !.is_hold = v] \in State
             /\ [s EXCEPT !.need_recalculate = v] \in State
             /\ [s EXCEPT !.extrf = v] \in State
             /\ [s EXCEPT !.read = v] \in State
             /\ [s EXCEPT !.laser = v] \in State
             /\ [s EXCEPT !.fan = v] \in State
             /\ [s EXCEPT !.avcc = v] \in State
             /\ [s EXCEPT !.dark_ground = v] \in State
             /\ [s EXCEPT !.vcc12 = v] \in State
             /\ [s EXCEPT !.oled = v] \in State
             /\ [s EXCEPT !.asleep = v] \in State
             /\ [s EXCEPT !.changed = v] \in State
             /\ [s EXCEPT !.sub = v] \in State
  <2>1. [s EXCEPT !.is_hold = v] \in State
    BY DEF State
  <2>2. [s EXCEPT !.need_recalculate = v] \in State
    BY DEF State
  <2>3. [s EXCEPT !.extrf = v] \in State
    BY DEF State
  <2>4. [s EXCEPT !.read = v] \in State
    BY DEF State
  <2>5. [s EXCEPT !.laser = v] \in State
    BY DEF State
  <2>6. [s EXCEPT !.fan = v] \in State
    BY DEF State
  <2>7. [s EXCEPT !.avcc = v] \in State
    BY DEF State
  <2>8. [s EXCEPT !.dark_ground = v] \in State
    BY DEF State
  <2>9. [s EXCEPT !.vcc12 = v] \in State
    BY DEF State
  <2>10. [s EXCEPT !.oled = v] \in State
    BY DEF State
  <2>11. [s EXCEPT !.asleep = v] \in State
    BY DEF State
  <2>12. [s EXCEPT !.changed = v] \in State
    BY DEF State
  <2>13. [s EXCEPT !.sub = v] \in State
    BY DEF State
  <2> QED BY <2>1, <2>2, <2>3, <2>4, <2>5, <2>6, <2>7, <2>8, <2>9, <2>10, <2>11, <2>12, <2>13
<1> QED BY <1>1, <1>2, <1>3, <1>4, <1>5, <1>6, <1>7, <1>8

(* Until the operation is known, a changed status leaves nothing to carry. *)
LEMMA ScanPowerBegun ==
    ASSUME NEW s, Begun(s), NEW in, NEW t, t = ScanPower(s, in)
    PROVE  Begun(t)
<1>1. s \in State /\ "POWERDOFF" \in Status /\ s.last \in Status /\ s.status \in Status
  BY DEF Begun, State, Status
<1>2. t \in State
  BY <1>1, TypedStates DEF ScanPower
<1>3. CASE t = s
  BY <1>3
<1>4. CASE "power" \in in.keys /\ s.status = "POWERDOFF"
  <2>1. t = [s EXCEPT !.status = s.last, !.changed = TRUE]
    BY <1>4 DEF ScanPower
  <2> QED BY <1>1, <1>2, <2>1 DEF State, Begun, MessagePowered
<1>5. CASE "power" \in in.keys /\ s.status # "POWERDOFF"
  <2>1. t = [s EXCEPT !.last = s.status, !.status = "POWERDOFF", !.changed = TRUE]
    BY <1>5 DEF ScanPower
  <2> QED BY <1>1, <1>2, <2>1 DEF State, Begun, MessagePowered
<1> QED BY <1>3, <1>4, <1>5 DEF ScanPower

LEMMA ScanModeBegun ==
    ASSUME NEW s, Begun(s), NEW in, NEW t, t = ScanMode(s, in)
    PROVE  Begun(t)
<1>1. s \in State /\ After(s.status) \in Status
  BY DEF Begun, After, Status
<1>2. t \in State
  BY <1>1, TypedStates DEF ScanMode
<1>3. CASE t = s
  BY <1>3
<1>4. CASE t = [s EXCEPT !.status = After(@), !.changed = TRUE]
  BY <1>1, <1>2, <1>4 DEF State, Begun, MessagePowered
<1> QED BY <1>3, <1>4 DEF ScanMode

LEMMA ScanSelectBegun ==
    ASSUME NEW s, Begun(s), NEW in, NEW t, t = ScanSelect(s, in)
    PROVE  Begun(t)
<1>1. s \in State
  BY DEF Begun
<1>2. t \in State
  BY <1>1, TypedStates DEF ScanSelect
<1>3. CASE t = s
  BY <1>3
<1>4. CASE t = [s EXCEPT !.sub = TRUE]
  BY <1>1, <1>2, <1>4 DEF State, Begun, MessagePowered, Carried,
     MessageInPeriod, Renewing, SupplyAhead, Shown, Running
<1> QED BY <1>3, <1>4 DEF ScanSelect

LEMMA CheckUartBegun ==
    ASSUME NEW s, Begun(s), NEW in, NEW t, t = CheckUart(s, in)
    PROVE  Begun(t)
<1>1. s \in State
  BY DEF Begun
<1>2. CASE t = s
  BY <1>2
<1>3. ASSUME NEW v \in Status, t = [s EXCEPT !.status = v, !.changed = TRUE]
      PROVE  Begun(t)
  <2>1. t \in State
    BY <1>1, <1>3, TypedStates
  <2> QED BY <1>1, <1>3, <2>1 DEF State, Begun, MessagePowered
<1>4. s.status \in Status /\ {"REALTIME", "POWERSAVE"} \subseteq Status
  BY <1>1 DEF State, Status
<1>5. CASE in.command = "P"
  BY <1>3, <1>4, <1>5 DEF CheckUart
<1>6. CASE in.command = "W"
  BY <1>3, <1>4, <1>6 DEF CheckUart
<1>7. CASE in.command = "M"
  BY <1>3, <1>4, <1>7 DEF CheckUart
<1>8. CASE in.command = "other"
  <2>1. t = [s EXCEPT !.changed = TRUE]
    BY <1>8 DEF CheckUart
  <2>2. t \in State
    BY <1>1, <2>1, TypedStates
  <2> QED BY <1>1, <2>1, <2>2 DEF State, Begun, MessagePowered
<1> QED BY <1>2, <1>5, <1>6, <1>7, <1>8 DEF CheckUart

(* PowerUp supplies whatever is on, and the message was supplied before.   *)
LEMMA PowerUpPowers ==
    ASSUME NEW s, Begun(s), NEW in, NEW t, t = PowerUp(s, in)
    PROVE  Begun(t) /\ Powered(t)
<1>1. s \in State
  BY DEF Begun
<1>2. CASE t = s /\ s.status = "POWERDOFF"
  BY <1>2 DEF Begun, Powered
<1>3. CASE t = [s EXCEPT !.vcc12 = TRUE, !.oled = TRUE]
  <2>1. t \in State
    BY <1>1, <1>3, TypedStates
  <2> QED BY <1>1, <1>3, <2>1 DEF State, Begun, Powered, MessagePowered, Carried,
          MessageInPeriod, Renewing, SupplyAhead, Shown, Running
<1> QED BY <1>2, <1>3 DEF PowerUp

(* An operation sets the times back, so what was carried is not needed.    *)
LEMMA OperationUnderway ==
    ASSUME NEW s, Begun(s), Powered(s), NEW t, t = Operation(s)
    PROVE  Underway(t)
<1>1. s \in State /\ 0 \in 0 .. SINCE_CAP /\ 0 \in 0 .. OLED_UPDATE - 1
                  /\ 1 \in 0 .. POWERSAVE_PERIOD - 1
  BY PeriodAssumption, LimitAssumption DEF Begun, SINCE_CAP
<1>2. t \in State
  BY <1>1, TypedStates DEF Operation
<1>3. s.pre_power_off_left \in Nat /\ PRE_POWER_OFF \in Nat
  BY <1>1, PeriodAssumption DEF State
<1>4. CASE t = s /\ ~Operated(s)
  BY <1>4 DEF Begun, Underway, Carried, Operated
<1>5. ASSUME NEW u, u = [s EXCEPT !.is_hold = FALSE] \/ u = s, u \in State,
             Operated(s), t = [u EXCEPT !.since = 0, !.oled_due = 0, !.calc_due = 1]
      PROVE  Underway(t)
  <2>1. /\ ~u.extrf /\ Powered(u) /\ u.pre_power_off_left < PRE_POWER_OFF
        /\ u.pre_power_off_left \in Nat
    BY <1>1, <1>3, <1>5 DEF State, Begun, Powered, MessagePowered
  <2>2. /\ t.since = 0 /\ t.oled_due = 0 /\ t.calc_due = 1
        /\ <<t.extrf, t.status, t.vcc12, t.oled>> = <<u.extrf, u.status, u.vcc12, u.oled>>
        /\ t.pre_power_off_left = u.pre_power_off_left
    BY <1>5 DEF State
  <2>3. OLED_UPDATE \in Nat /\ OLED_UPDATE > 2
    BY PeriodAssumption
  <2>4. Powered(t) /\ MessageInPeriod(t)
    BY <1>3, <2>1, <2>2 DEF Powered, MessagePowered, MessageInPeriod
  <2>5. Renewing(t) /\ SupplyAhead(t)
    BY <2>2, <2>3 DEF Renewing, SupplyAhead
  <2>6. Operated(t)
    BY <1>1, <1>5 DEF State, Operated
  <2> QED BY <1>2, <2>1, <2>2, <2>4, <2>5, <2>6 DEF Underway
<1>6. [s EXCEPT !.is_hold = FALSE] \in State
  BY <1>1, TypedStates
<1> QED BY <1>1, <1>4, <1>5, <1>6 DEF Operation, Operated

(* The numbers the assertions compare.                                     *)
LEMMA StateNumbers ==
    ASSUME NEW s \in State
    PROVE  /\ s.since \in Nat /\ s.oled_due \in 0 .. OLED_UPDATE - 1
           /\ s.calc_due \in 0 .. POWERSAVE_PERIOD - 1
           /\ s.pre_power_off_left \in 0 .. PRE_POWER_OFF /\ s.records \in 0 .. RECORDS
           /\ 0 \in 0 .. SINCE_CAP /\ 0 \in 0 .. OLED_UPDATE - 1
           /\ 0 \in 0 .. PRE_POWER_OFF /\ PRE_POWER_OFF \in 0 .. PRE_POWER_OFF
BY PeriodAssumption, LimitAssumption DEF State, SINCE_CAP

(* The start of power save is one without a message, which would end it.   *)
LEMMA AutoPowerOffAttended ==
    ASSUME NEW s, Underway(s), NEW in, NEW t, t = AutoPowerOff(s, in)
    PROVE  Underway(t) /\ Attended(t)
<1> USE DEF Underway, Powered, MessagePowered, MessageInPeriod, Renewing, SupplyAhead,
            Operated, Shown, Running, Attended
<1>1. s \in State /\ "POWERDOFF" \in Status
  BY DEF Status
<1>2. t \in State
  BY <1>1, StateNumbers, TypedStates DEF AutoPowerOff
<1>3. CASE s.status = "POWERSAVE" /\ s.calc_due = 0
  <2>1. t = [s EXCEPT !.since = 0, !.is_hold = FALSE]
    BY <1>3 DEF AutoPowerOff
  <2> QED BY <1>1, <1>2, <1>3, <2>1, StateNumbers, PeriodAssumption DEF State
<1>4. CASE /\ s.status \notin {"POWERSAVE", "POWERDOFF"} /\ s.since > AUTO_POWER_OFF
           /\ Charging(in)
  <2>1. t = [s EXCEPT !.since = 0]
    BY <1>4 DEF AutoPowerOff
  <2> QED BY <1>1, <1>2, <1>4, <2>1, StateNumbers, PeriodAssumption, LimitAssumption
          DEF State
<1>5. CASE /\ s.status \notin {"POWERSAVE", "POWERDOFF"} /\ s.since > AUTO_POWER_OFF
           /\ ~Charging(in)
  <2>1. t = [s EXCEPT !.status = "POWERDOFF", !.oled_due = 0]
    BY <1>5 DEF AutoPowerOff
  <2> QED BY <1>1, <1>2, <1>5, <2>1, StateNumbers, PeriodAssumption DEF State, Measuring
<1>6. CASE /\ t = s
           /\ s.status \in {"POWERSAVE", "POWERDOFF"} \/ ~(s.since > AUTO_POWER_OFF)
  BY <1>1, <1>6, StateNumbers, LimitAssumption
<1> QED BY <1>3, <1>4, <1>5, <1>6 DEF AutoPowerOff

(* A low battery turns the device off: its message needs the supply only.  *)
LEMMA LowBatteryUnderway ==
    ASSUME NEW s, Underway(s), Attended(s), NEW in, NEW t, t = LowBattery(s, in)
    PROVE  Underway(t) /\ Attended(t)
<1> USE DEF Underway, Powered, MessagePowered, MessageInPeriod, Renewing, SupplyAhead,
            Operated, Shown, Running, Attended
<1>1. s \in State /\ "POWERDOFF" \in Status
  BY DEF Status
<1>2. t \in State
  BY <1>1, StateNumbers, TypedStates DEF LowBattery
<1>3. CASE t = s
  BY <1>3
<1>4. CASE t = [s EXCEPT !.pre_power_off_left = 0]
  BY <1>1, <1>2, <1>4, StateNumbers, PeriodAssumption DEF State
<1>5. CASE s.status # "POWERDOFF"
           /\ t = [s EXCEPT !.pre_power_off_left = PRE_POWER_OFF, !.oled_due = 0,
                            !.status = "POWERDOFF"]
  BY <1>1, <1>2, <1>5, StateNumbers, PeriodAssumption DEF State, Measuring
<1>6. CASE t = [s EXCEPT !.status = "POWERDOFF"]
  BY <1>1, <1>2, <1>6, StateNumbers, PeriodAssumption DEF State, Measuring
<1> QED BY <1>3, <1>4, <1>5, <1>6 DEF LowBattery

(* A hold ends by an operation, after which the refresh is next.           *)
LEMMA ToggleHoldUnderway ==
    ASSUME NEW s, Underway(s), Attended(s), NEW t, t = ToggleHold(s)
    PROVE  Underway(t) /\ Attended(t)
<1> USE DEF Underway, Powered, MessagePowered, MessageInPeriod, Renewing, SupplyAhead,
            Operated, Shown, Running, Attended
<1>1. s \in State
  OBVIOUS
<1>2. CASE t = s
  BY <1>2
<1>3. CASE s.sub /\ t = [s EXCEPT !.is_hold = ~@]
  <2>1. t \in State
    BY <1>1, <1>3, TypedStates
  <2> QED BY <1>1, <1>3, <2>1, StateNumbers, PeriodAssumption DEF State
<1> QED BY <1>2, <1>3 DEF ToggleHold

(* Past the limit of its status nothing is left not held.                  *)
LEMMA AutoHoldLimits ==
    ASSUME NEW s, Underway(s), Attended(s), NEW in, NEW t, t = AutoHold(s, in)
    PROVE  Underway(t) /\ Attended(t) /\ HoldLimited(t)
<1> USE DEF Underway, Powered, MessagePowered, MessageInPeriod, Renewing, SupplyAhead,
            Operated, Shown, Running, Attended, HoldLimited
<1>1. s \in State
  OBVIOUS
<1>2. t \in State
  BY <1>1, StateNumbers, TypedStates DEF AutoHold
<1>3. CASE t = s /\ HoldLimited(s)
  BY <1>3
<1>4. CASE t = [s EXCEPT !.since = 0]
  BY <1>1, <1>2, <1>4, StateNumbers, PeriodAssumption, LimitAssumption DEF State
<1>5. CASE t = [s EXCEPT !.is_hold = TRUE]
  BY <1>1, <1>2, <1>5, StateNumbers, PeriodAssumption DEF State
<1>6. ~HoldLimited(s) => \/ s.status = "REALTIME"  /\ s.since > AUTO_HOLD_REALTIME
                         \/ s.status = "POWERSAVE" /\ s.since > AUTO_HOLD_POWERSAVE
  BY <1>1, StateNumbers, LimitAssumption
<1> HIDE DEF HoldLimited
<1> QED BY <1>3, <1>4, <1>5, <1>6 DEF AutoHold

(* Without an operation the record was shown before; with one it is now.   *)
LEMMA ShowHistoryDecided ==
    ASSUME NEW s, Underway(s), Attended(s), HoldLimited(s), NEW t, t = ShowHistory(s)
    PROVE  Decided(t)
<1> USE DEF Underway, Powered, MessagePowered, MessageInPeriod, Renewing, SupplyAhead,
            Operated, Shown, Running, Attended, HoldLimited, Decided
<1>1. s \in State /\ "REALTIME" \in Status /\ s.read \in BOOLEAN
  BY DEF Status, State
<1>2. t \in State
  BY <1>1, TypedStates DEF ShowHistory
<1>3. CASE s.status = "HISTORY" /\ Operated(s) /\ s.records = 0
  <2>1. t = [s EXCEPT !.status = "REALTIME", !.is_hold = FALSE]
    BY <1>3 DEF ShowHistory
  <2> QED BY <1>1, <1>2, <1>3, <2>1, StateNumbers, PeriodAssumption, LimitAssumption
          DEF State
<1>4. CASE s.status = "HISTORY" /\ Operated(s) /\ s.records # 0
  <2>1. t = [s EXCEPT !.read = TRUE]
    BY <1>4 DEF ShowHistory
  <2> QED BY <1>1, <1>2, <1>4, <2>1, StateNumbers, PeriodAssumption DEF State
<1>5. CASE ~(s.status = "HISTORY" /\ Operated(s))
  <2>1. t = [s EXCEPT !.read = @ /\ s.status = "HISTORY"]
    BY <1>5 DEF ShowHistory
  <2> QED BY <1>1, <1>2, <1>5, <2>1, StateNumbers, PeriodAssumption DEF State
<1> QED BY <1>3, <1>4, <1>5

(* A record more is no record less.                                        *)
LEMMA SaveDecided ==
    ASSUME NEW s, Decided(s), NEW last_hold, NEW t, t = Save(s, last_hold)
    PROVE  Decided(t)
<1>1. s \in State
  BY DEF Decided, Underway
<1>2. s.status \in Measuring
          => \E n \in 0 .. RECORDS : t = [s EXCEPT !.need_recalculate = FALSE, !.records = n]
                                     /\ n >= s.records
  <2> DEFINE n == IF s.is_hold /\ ~last_hold /\ s.sub /\ s.records < RECORDS
                  THEN s.records + 1 ELSE s.records
  <2>1. n \in 0 .. RECORDS /\ n >= s.records
    BY <1>1, StateNumbers, PeriodAssumption
  <2>2. s.status \in Measuring => t = [s EXCEPT !.need_recalculate = FALSE, !.records = n]
    BY DEF Save
  <2> QED BY <2>1, <2>2
<1>3. t \in State
  BY <1>1, <1>2, TypedStates DEF Save
<1> USE DEF Underway, Powered, MessagePowered, MessageInPeriod, Renewing, SupplyAhead,
            Operated, Shown, Running, Attended, HoldLimited, Decided
<1>4. CASE t = s /\ s.status \notin Measuring
  BY <1>4
<1>5. CASE s.status \in Measuring
  <2>1. PICK n \in 0 .. RECORDS : /\ t = [s EXCEPT !.need_recalculate = FALSE, !.records = n]
                                  /\ n >= s.records
    BY <1>2, <1>5
  <2> QED BY <1>1, <1>3, <1>5, <2>1, StateNumbers, PeriodAssumption DEF State, Measuring
<1> QED BY <1>4, <1>5 DEF Save

(* The end of the message moves the refresh: the ground is old by less     *)
(* than a period then.                                                     *)
LEMMA CountDownShorter ==
    ASSUME NEW s, Decided(s), NEW t, t = CountDown(s)
    PROVE  Decided(t) /\ MessageShorter(t)
<1>1. s \in State
  BY DEF Decided, Underway
<1>2. s.pre_power_off_left # 0 => s.pre_power_off_left - 1 \in 0 .. PRE_POWER_OFF
  BY <1>1, StateNumbers, PeriodAssumption
<1>3. t \in State
  BY <1>1, <1>2, StateNumbers, TypedStates DEF CountDown
<1> USE DEF Underway, Powered, MessagePowered, MessageInPeriod, Renewing, SupplyAhead,
            Operated, Shown, Running, Attended, HoldLimited, Decided,
            MessageShorter
<1>4. CASE s.pre_power_off_left = 0
  BY <1>4, PeriodAssumption DEF CountDown
<1>5. CASE s.pre_power_off_left = 1
  <2>1. t = [s EXCEPT !.pre_power_off_left = 0, !.oled_due = 0]
    BY <1>5 DEF CountDown
  <2> QED BY <1>1, <1>3, <1>5, <2>1, StateNumbers, PeriodAssumption DEF State, Measuring
<1>6. CASE s.pre_power_off_left \notin {0, 1}
  <2>1. PICK left : left = s.pre_power_off_left - 1
    OBVIOUS
  <2>2. t = [s EXCEPT !.pre_power_off_left = left, !.oled_due = s.oled_due]
    BY <1>6, <2>1 DEF CountDown
  <2> QED BY <1>1, <1>3, <1>6, <2>1, <2>2, StateNumbers, PeriodAssumption
          DEF State, Measuring
<1> QED BY <1>4, <1>5, <1>6

(* The calibration finds no supply only right after the start of power     *)
(* save.                                                                   *)
LEMMA MeasureCalibrated ==
    ASSUME NEW s, Decided(s), MessageShorter(s), NEW t, t = Measure(s)
    PROVE  Decided(t) /\ MessageShorter(t) /\ Calibrated(t)
<1> USE DEF Underway, Powered, MessagePowered, MessageInPeriod, Renewing, SupplyAhead,
            Operated, Shown, Running, Attended, HoldLimited, Decided,
            MessageShorter, Calibrated
<1>1. s \in State /\ s.avcc \in BOOLEAN
  BY DEF State
<1>2. t \in State
  BY <1>1, TypedStates DEF Measure
<1>3. CASE t = s /\ (s.oled_due # OLED_UPDATE - 1 \/ s.status = "POWERDOFF")
  BY <1>1, <1>3, StateNumbers, PeriodAssumption DEF Measuring
<1>4. CASE /\ s.oled_due = OLED_UPDATE - 1
           /\ t = [s EXCEPT !.laser = FALSE, !.dark_ground = ~s.avcc]
  BY <1>1, <1>2, <1>4, StateNumbers, PeriodAssumption DEF State
<1>5. CASE /\ s.oled_due # OLED_UPDATE - 1
           /\ t = [s EXCEPT !.avcc = TRUE, !.fan = TRUE, !.laser = TRUE]
  BY <1>1, <1>2, <1>5, StateNumbers, PeriodAssumption DEF State
<1> QED BY <1>1, <1>3, <1>4, <1>5, StateNumbers, PeriodAssumption DEF Measure

(* Stop leaves no supply and no laser to what is not measured.             *)
LEMMA StopSupplied ==
    ASSUME NEW s, NEW t, t = Stop(s),
           Decided(s), MessageShorter(s), Calibrated(s)
    PROVE  /\ Decided(t) /\ MessageShorter(t) /\ Calibrated(t)
           /\ Supplied(t) /\ Blown(t)
<1> USE DEF Underway, Powered, MessagePowered, MessageInPeriod, Renewing, SupplyAhead,
            Operated, Shown, Running, Attended, HoldLimited, Decided,
            MessageShorter, Calibrated, Supplied, Blown
<1>1. s \in State
  OBVIOUS
<1>2. t \in State
  BY <1>1, TypedStates DEF Stop
<1>3. CASE Running(s) /\ t = [s EXCEPT !.fan = TRUE, !.avcc = TRUE]
  BY <1>1, <1>2, <1>3 DEF State
<1>4. CASE ~Running(s) /\ t = [s EXCEPT !.fan = FALSE, !.laser = FALSE, !.avcc = FALSE]
  BY <1>1, <1>2, <1>4 DEF State
<1> QED BY <1>3, <1>4 DEF Stop

(* What is turned off loses its supply only after the message.             *)
LEMMA PowerDownEnds ==
    ASSUME NEW s, NEW in \in Input, c' = PowerDown(s, in),
           Decided(s), MessageShorter(s), Calibrated(s),
           Supplied(s), Blown(s)
    PROVE  CircleInv'
<1>1. s \in State /\ in.released \in BOOLEAN
  BY DEF Decided, Underway, Input
<1>2. CASE c' = s /\ s.status # "POWERDOFF"
  BY <1>2 DEF CircleInv, Decided, Underway, Fresh
<1>3. ASSUME NEW t \in State, s.status = "POWERDOFF", t.status = "POWERDOFF", c' = t,
             <<t.extrf, t.is_hold, t.avcc, t.laser, t.fan, t.pre_power_off_left>>
                 = <<s.extrf, s.is_hold, s.avcc, s.laser, s.fan, s.pre_power_off_left>>,
             s.pre_power_off_left > 0 => t.vcc12 = s.vcc12 /\ t.oled = s.oled
      PROVE  CircleInv'
  BY <1>3 DEF CircleInv, Decided, Underway, Measuring, Powered,
     MessagePowered, Renewing, Running, Attended, HoldLimited, Shown,
     MessageShorter, Calibrated, Supplied, Blown, Fresh
<1>4. CASE s.status = "POWERDOFF" /\ c' = [s EXCEPT !.need_recalculate = TRUE]
  <2>1. c' \in State
    BY <1>1, <1>4, TypedStates
  <2> QED BY <1>1, <1>3, <1>4, <2>1 DEF State
<1>5. CASE /\ s.status = "POWERDOFF" /\ s.pre_power_off_left = 0
           /\ c' = [s EXCEPT !.need_recalculate = TRUE, !.vcc12 = FALSE,
                             !.oled = FALSE, !.asleep = in.released]
  <2>1. PICK u \in State : u = [s EXCEPT !.need_recalculate = TRUE, !.vcc12 = FALSE]
    BY <1>1, TypedStates
  <2>2. PICK v \in BOOLEAN : v = in.released
    BY <1>1
  <2>3. PICK t \in State : t = [u EXCEPT !.oled = FALSE, !.asleep = v]
    BY <2>1, TypedStates
  <2>4. c' = t
    BY <1>5, <2>1, <2>2, <2>3
  <2>5. /\ t.status = s.status
        /\ <<t.extrf, t.is_hold, t.avcc, t.laser, t.fan, t.pre_power_off_left>>
               = <<s.extrf, s.is_hold, s.avcc, s.laser, s.fan, s.pre_power_off_left>>
    BY <1>1, <2>1, <2>3 DEF State
  <2> QED BY <1>3, <1>5, <2>4, <2>5
<1> QED BY <1>2, <1>4, <1>5 DEF PowerDown

-------------------------------------------------------------------------------
(* A call as a whole.                                                      *)

\* One step of a counter that wraps around.
LEMMA NextInPeriod ==
    ASSUME NEW m \in Nat, m > 0, NEW n \in 0 .. m - 1
    PROVE  (n + 1) % m = IF n = m - 1 THEN 0 ELSE n + 1
OBVIOUS

(* A circle further, the invariant is what the call carries.               *)
LEMMA AdvanceBegun ==
    ASSUME CircleInv, NEW t, t = Advance(ExternalReset(c))
    PROVE  Begun(t)
<1> USE DEF Running, Renewing, Calibrated, Shown, MessageShorter, MessagePowered, Fresh
<1>1. PICK s : s = ExternalReset(c)
  OBVIOUS
<1>2. /\ s \in State /\ ~s.extrf /\ MessageShorter(s) /\ Renewing(s) /\ Calibrated(s)
      /\ MessagePowered(s) /\ Shown(s)
      /\ Running(s) /\ ~s.avcc => s.oled_due = 0
  <2>1. CASE ~c.extrf
    BY <1>1, <2>1 DEF ExternalReset, CircleInv, Powered, Supplied
  <2>2. CASE c.extrf
    <3>1. s = [c EXCEPT !.extrf = FALSE, !.records = 0, !.status = "REALTIME"]
      BY <1>1, <2>2 DEF ExternalReset
    <3>2. c \in State /\ 0 \in 0 .. RECORDS /\ "REALTIME" \in Status
      BY PeriodAssumption DEF CircleInv, Status
    <3>3. s \in State
      BY <3>1, <3>2, TypedStates
    <3> QED BY <2>2, <3>1, <3>2, <3>3, StateNumbers, PeriodAssumption
            DEF CircleInv, Powered, State
  <2> QED BY <2>1, <2>2
<1>3. PICK since \in 0 .. SINCE_CAP :
          since = IF s.since < SINCE_CAP THEN s.since + 1 ELSE s.since
  BY <1>2, LimitAssumption DEF State, SINCE_CAP
<1>4. PICK oled \in 0 .. OLED_UPDATE - 1 :
          /\ oled = (s.oled_due + 1) % OLED_UPDATE
          /\ oled = IF s.oled_due = OLED_UPDATE - 1 THEN 0 ELSE s.oled_due + 1
  BY <1>2, StateNumbers, NextInPeriod, PeriodAssumption
<1>5. PICK calc \in 0 .. POWERSAVE_PERIOD - 1 :
          /\ calc = (s.calc_due + 1) % POWERSAVE_PERIOD
          /\ calc = IF s.calc_due = POWERSAVE_PERIOD - 1 THEN 0 ELSE s.calc_due + 1
  BY <1>2, StateNumbers, NextInPeriod, PeriodAssumption
<1>6. t = [s EXCEPT !.changed = FALSE, !.sub = FALSE, !.since = since,
                    !.oled_due = oled, !.calc_due = calc]
  BY <1>1, <1>3, <1>4, <1>5 DEF Advance
<1>7. t \in State
  <2>1. PICK u \in State : u = [s EXCEPT !.changed = FALSE, !.sub = FALSE]
    BY <1>2, TypedStates
  <2>2. PICK v \in State : v = [u EXCEPT !.since = since, !.oled_due = oled]
    BY <1>3, <1>4, <2>1, TypedStates
  <2>3. t = [v EXCEPT !.calc_due = calc]
    BY <1>6, <2>1, <2>2
  <2> QED BY <2>3, TypedStates
<1>8. /\ ~t.changed /\ t.since = since /\ t.oled_due = oled /\ t.calc_due = calc
      /\ t.status = s.status /\ t.is_hold = s.is_hold /\ t.extrf = s.extrf
      /\ t.pre_power_off_left = s.pre_power_off_left /\ t.dark_ground = s.dark_ground
      /\ t.vcc12 = s.vcc12 /\ t.oled = s.oled /\ t.avcc = s.avcc
      /\ t.records = s.records /\ t.read = s.read
  BY <1>2, <1>6 DEF State
<1>9. MessageInPeriod(t)
  BY <1>2, <1>5, <1>8, StateNumbers, PeriodAssumption DEF MessageInPeriod
<1>10. Renewing(t)
  BY <1>2, <1>3, <1>4, <1>8, StateNumbers, PeriodAssumption
<1>11. SupplyAhead(t)
  BY <1>2, <1>4, <1>8, PeriodAssumption DEF SupplyAhead
<1> QED BY <1>2, <1>7, <1>8, <1>9, <1>10, <1>11 DEF Begun, Carried

LEMMA CircleKeeps ==
    ASSUME CircleInv, NEW in \in Input, Circle(in)
    PROVE  CircleInv'
<1>1. PICK advanced, scanned, commanded, operated, powered, held, shown, saved :
          /\ advanced  = Advance(ExternalReset(c))
          /\ scanned   = ScanSelect(ScanMode(ScanPower(advanced, in), in), in)
          /\ commanded = PowerUp(CheckUart(scanned, in), in)
          /\ operated  = Operation(commanded)
          /\ powered   = LowBattery(AutoPowerOff(operated, in), in)
          /\ held      = AutoHold(ToggleHold(powered), in)
          /\ shown     = ShowHistory(held)
          /\ saved     = CountDown(Save(shown, powered.is_hold))
          /\ c' = PowerDown(Stop(Measure(saved)), in)
  BY DEF Circle
<1>2. Begun(advanced)
  BY <1>1, AdvanceBegun
<1>3. Begun(scanned)
  BY <1>1, <1>2, ScanPowerBegun, ScanModeBegun, ScanSelectBegun
<1>4. Begun(commanded) /\ Powered(commanded)
  BY <1>1, <1>3, CheckUartBegun, PowerUpPowers
<1>5. Underway(operated)
  BY <1>1, <1>4, OperationUnderway
<1>6. Underway(powered) /\ Attended(powered)
  BY <1>1, <1>5, AutoPowerOffAttended, LowBatteryUnderway
<1>7. Underway(held) /\ Attended(held) /\ HoldLimited(held)
  BY <1>1, <1>6, ToggleHoldUnderway, AutoHoldLimits
<1>8. Decided(shown)
  BY <1>1, <1>7, ShowHistoryDecided
<1>9. Decided(saved) /\ MessageShorter(saved)
  BY <1>1, <1>8, SaveDecided, CountDownShorter
<1> QED BY <1>1, <1>9, MeasureCalibrated, StopSupplied, PowerDownEnds

LEMMA InitCircleInv == Init => CircleInv
<1> SUFFICES ASSUME Init PROVE CircleInv
  OBVIOUS
<1>1. c \in State
  BY PeriodAssumption, LimitAssumption DEF Init, State, Status, SINCE_CAP
<1> QED BY <1>1, PeriodAssumption DEF Init, CircleInv, Supplied, Blown, Powered,
        MessagePowered, Fresh, MessageShorter, Renewing, Calibrated, Attended,
        HoldLimited, Shown, Running, Measuring

LEMMA NextCircleInv == CircleInv /\ [Next]_vars => CircleInv'
<1> SUFFICES ASSUME CircleInv, [Next]_vars PROVE CircleInv'
  OBVIOUS
<1> USE DEF CircleInv, Supplied, Blown, Powered, MessagePowered, Fresh, MessageShorter,
            Renewing, Calibrated, Attended, HoldLimited, Shown, Running
<1>1. CASE UNCHANGED vars
  BY <1>1 DEF vars
<1>2. CASE Wake
  <2>1. c' \in State
    BY <1>2, TypedStates DEF Wake
  <2> QED BY <1>2, <2>1 DEF Wake, State
<1> HIDE DEF CircleInv
<1>3. ASSUME NEW in \in Input, Circle(in) PROVE CircleInv'
  BY <1>3, CircleKeeps
<1> QED BY <1>1, <1>2, <1>3 DEF Next

(* CircleInv holds between any two calls, and in them the assertions above. *)
THEOREM CircleInvariant == Spec => []CircleInv
BY InitCircleInv, NextCircleInv, PTL DEF Spec

-------------------------------------------------------------------------------
(* What the code remembers of the last operation is never more recent than *)
(* the last time somebody was there, or the charger: whatever sets since   *)
(* back is Watched.                                                        *)
QuietInv == quiet \in 0 .. SINCE_CAP /\ quiet <= c.since

\* Up to the operation no block touches since.
LEMMA BegunKeepsSince ==
    ASSUME NEW s \in State, NEW in
    PROVE  /\ ScanPower(s, in).since = s.since
           /\ ScanMode(s, in).since = s.since
           /\ ScanSelect(s, in).since = s.since
           /\ CheckUart(s, in).since = s.since
           /\ PowerUp(s, in).since = s.since
<1>1. ScanPower(s, in).since = s.since
  BY DEF State, ScanPower
<1>2. ScanMode(s, in).since = s.since
  BY DEF State, ScanMode
<1>3. ScanSelect(s, in).since = s.since
  BY DEF State, ScanSelect
<1>4. CheckUart(s, in).since = s.since
  BY DEF State, CheckUart
<1>5. PowerUp(s, in).since = s.since
  BY DEF State, PowerUp
<1> QED BY <1>1, <1>2, <1>3, <1>4, <1>5

\* The operation does, and remains known.
LEMMA OperationSetsSince ==
    ASSUME NEW s \in State, NEW t, t = Operation(s)
    PROVE  ~Operated(t) => t.since = s.since
<1>1. CASE ~Operated(s)
  BY <1>1 DEF State, Operation, Operated
<1>2. CASE Operated(s)
  <2>1. t.changed = s.changed /\ t.sub = s.sub
    BY <1>2 DEF State, Operation
  <2> QED BY <1>2, <2>1 DEF Operated
<1> QED BY <1>1, <1>2

\* Off the charger, so does only the start of a period of power save.
LEMMA DecisionsKeepSince ==
    ASSUME NEW s \in State, NEW in, ~Charging(in)
    PROVE  /\ ~(s.status = "POWERSAVE" /\ s.calc_due = 0)
                  => AutoPowerOff(s, in).since = s.since
           /\ LowBattery(s, in).since = s.since
           /\ ToggleHold(s).since = s.since
           /\ AutoHold(s, in).since = s.since
<1>1. ~(s.status = "POWERSAVE" /\ s.calc_due = 0)
          => AutoPowerOff(s, in).since = s.since
  BY DEF State, AutoPowerOff
<1>2. LowBattery(s, in).since = s.since
  BY DEF State, LowBattery
<1>3. ToggleHold(s).since = s.since
  BY DEF State, ToggleHold
<1>4. AutoHold(s, in).since = s.since
  BY DEF State, AutoHold
<1> QED BY <1>1, <1>2, <1>3, <1>4

\* What follows the decisions leaves it alone.
LEMMA OutputsKeepSince ==
    ASSUME NEW s \in State, NEW in, NEW last_hold
    PROVE  /\ ShowHistory(s).since = s.since
           /\ Save(s, last_hold).since = s.since
           /\ CountDown(s).since = s.since
           /\ Measure(s).since = s.since
           /\ Stop(s).since = s.since
           /\ PowerDown(s, in).since = s.since
<1>1. ShowHistory(s).since = s.since
  BY DEF State, ShowHistory
<1>2. Save(s, last_hold).since = s.since
  BY DEF State, Save
<1>3. CountDown(s).since = s.since
  BY DEF State, CountDown
<1>4. Measure(s).since = s.since
  BY DEF State, Measure
<1>5. Stop(s).since = s.since
  BY DEF State, Stop
<1>6. PowerDown(s, in).since = s.since
  BY DEF State, PowerDown
<1> QED BY <1>1, <1>2, <1>3, <1>4, <1>5, <1>6

LEMMA CircleKeepsQuiet ==
    ASSUME CircleInv, QuietInv, NEW in \in Input, Circle(in)
    PROVE  QuietInv'
<1>1. PICK advanced, scanned, commanded, operated, powered, held, shown, saved :
          /\ advanced  = Advance(ExternalReset(c))
          /\ scanned   = ScanSelect(ScanMode(ScanPower(advanced, in), in), in)
          /\ commanded = PowerUp(CheckUart(scanned, in), in)
          /\ operated  = Operation(commanded)
          /\ powered   = LowBattery(AutoPowerOff(operated, in), in)
          /\ held      = AutoHold(ToggleHold(powered), in)
          /\ shown     = ShowHistory(held)
          /\ saved     = CountDown(Save(shown, powered.is_hold))
          /\ c' = PowerDown(Stop(Measure(saved)), in)
          /\ quiet' = IF Watched(operated, in) THEN 0
                      ELSE IF quiet < SINCE_CAP THEN quiet + 1 ELSE quiet
  BY DEF Circle
<1>2. SINCE_CAP \in Nat /\ c \in State /\ c.since \in 0 .. SINCE_CAP
  BY LimitAssumption DEF SINCE_CAP, CircleInv, State
<1>3. c' \in State /\ c'.since \in 0 .. SINCE_CAP
  BY CircleKeeps DEF CircleInv, State
<1>4. quiet' \in 0 .. SINCE_CAP
  BY <1>1, <1>2 DEF QuietInv
<1>5. CASE Watched(operated, in)
  BY <1>1, <1>3, <1>4, <1>5 DEF QuietInv
<1>6. CASE ~Watched(operated, in)
  <2>1. /\ ~Charging(in) /\ ~Operated(operated)
        /\ ~(operated.status = "POWERSAVE" /\ operated.calc_due = 0)
    BY <1>6 DEF Watched
  <2>2. advanced.since = IF c.since < SINCE_CAP THEN c.since + 1 ELSE c.since
    BY <1>1, <1>2 DEF State, Advance, ExternalReset
  <2>3. advanced \in State /\ Begun(advanced)
    BY <1>1, AdvanceBegun DEF Begun
  <2>4. /\ commanded.since = advanced.since
        /\ Begun(commanded) /\ Powered(commanded) /\ commanded \in State
    <3>1. PICK u, v : u = ScanPower(advanced, in) /\ v = ScanMode(u, in)
      OBVIOUS
    <3>2. Begun(u) /\ u \in State
      BY <2>3, <3>1, ScanPowerBegun DEF Begun
    <3>3. Begun(v) /\ v \in State
      BY <3>1, <3>2, ScanModeBegun DEF Begun
    <3>4. scanned = ScanSelect(v, in) /\ Begun(scanned) /\ scanned \in State
      BY <1>1, <3>1, <3>3, ScanSelectBegun DEF Begun
    <3>5. PICK w : w = CheckUart(scanned, in)
      OBVIOUS
    <3>6. Begun(w) /\ w \in State
      BY <3>4, <3>5, CheckUartBegun DEF Begun
    <3>7. commanded = PowerUp(w, in) /\ Begun(commanded) /\ Powered(commanded)
      BY <1>1, <3>5, <3>6, PowerUpPowers
    <3>8. u.since = advanced.since /\ v.since = u.since /\ scanned.since = v.since
      BY <2>3, <3>1, <3>2, <3>3, <3>4, BegunKeepsSince
    <3>9. w.since = scanned.since /\ commanded.since = w.since
      BY <3>4, <3>5, <3>6, <3>7, BegunKeepsSince
    <3> QED BY <3>7, <3>8, <3>9 DEF Begun
  <2>5. operated.since = commanded.since /\ Underway(operated) /\ operated \in State
    BY <1>1, <2>1, <2>4, OperationSetsSince, OperationUnderway DEF Underway
  <2>6. held.since = operated.since /\ held \in State
        /\ Underway(held) /\ Attended(held) /\ HoldLimited(held)
    <3>1. PICK u, v : u = AutoPowerOff(operated, in) /\ v = ToggleHold(powered)
      OBVIOUS
    <3>2. Underway(u) /\ Attended(u) /\ u \in State
      BY <2>5, <3>1, AutoPowerOffAttended DEF Underway
    <3>3. powered = LowBattery(u, in) /\ Underway(powered) /\ Attended(powered)
          /\ powered \in State
      BY <1>1, <3>1, <3>2, LowBatteryUnderway DEF Underway
    <3>4. Underway(v) /\ Attended(v) /\ v \in State
      BY <3>1, <3>3, ToggleHoldUnderway DEF Underway
    <3>5. held = AutoHold(v, in) /\ Underway(held) /\ Attended(held) /\ HoldLimited(held)
      BY <1>1, <3>1, <3>4, AutoHoldLimits
    <3>6. u.since = operated.since
      BY <2>1, <2>5, <3>1, DecisionsKeepSince
    <3>7. powered.since = u.since
      BY <2>1, <3>2, <3>3, DecisionsKeepSince
    <3>8. v.since = powered.since
      BY <2>1, <3>1, <3>3, DecisionsKeepSince
    <3>9. held.since = v.since
      BY <2>1, <3>4, <3>5, DecisionsKeepSince
    <3> QED BY <3>5, <3>6, <3>7, <3>8, <3>9 DEF Underway
  <2>7. c'.since = held.since
    <3>1. PICK u, v, w : u = Save(shown, powered.is_hold) /\ v = Measure(saved)
                         /\ w = Stop(v)
      OBVIOUS
    <3>2. Decided(shown) /\ shown \in State
      BY <1>1, <2>6, ShowHistoryDecided DEF Decided, Underway
    <3>3. Decided(u) /\ u \in State
      BY <3>1, <3>2, SaveDecided DEF Decided, Underway
    <3>4. saved = CountDown(u) /\ Decided(saved) /\ MessageShorter(saved) /\ saved \in State
      BY <1>1, <3>1, <3>3, CountDownShorter DEF Decided, Underway
    <3>5. Decided(v) /\ MessageShorter(v) /\ Calibrated(v) /\ v \in State
      BY <3>1, <3>4, MeasureCalibrated DEF Decided, Underway
    <3>6. w \in State /\ c' = PowerDown(w, in)
      BY <1>1, <3>1, <3>5, StopSupplied DEF Decided, Underway
    <3>7. shown.since = held.since /\ u.since = shown.since /\ saved.since = u.since
      BY <1>1, <2>6, <3>1, <3>2, <3>3, <3>4, OutputsKeepSince
    <3>8. v.since = saved.since /\ w.since = v.since /\ c'.since = w.since
      BY <3>1, <3>4, <3>5, <3>6, OutputsKeepSince
    <3> QED BY <3>7, <3>8
  <2>8. c'.since = IF c.since < SINCE_CAP THEN c.since + 1 ELSE c.since
    BY <2>2, <2>4, <2>5, <2>6, <2>7
  <2> QED BY <1>1, <1>2, <1>4, <1>6, <2>8 DEF QuietInv
<1> QED BY <1>5, <1>6

(* Nobody can be away for longer than since says.                          *)
THEOREM QuietInvariant == Spec => []QuietInv
<1>1. Init => QuietInv
  BY LimitAssumption DEF Init, QuietInv, SINCE_CAP
<1>2. CircleInv /\ QuietInv /\ [Next]_vars => QuietInv'
  <2> SUFFICES ASSUME CircleInv, QuietInv, [Next]_vars PROVE QuietInv'
    OBVIOUS
  <2>1. CASE UNCHANGED vars
    BY <2>1 DEF vars, QuietInv
  <2>2. CASE Wake
    BY <2>2 DEF Wake, QuietInv, CircleInv, State
  <2>3. ASSUME NEW in \in Input, Circle(in) PROVE QuietInv'
    BY <2>3, CircleKeepsQuiet
  <2> QED BY <2>1, <2>2, <2>3 DEF Next
<1> QED BY <1>1, <1>2, CircleInvariant, PTL DEF Spec

-------------------------------------------------------------------------------
(* The properties of Circle, for all its constants.                        *)

(* The laser burns only in a running fan, with its supplies, in a          *)
(* measuring status that is not held; and off the charger nothing but an   *)
(* operation or a new period of power save lets it burn past its limit, or *)
(* the device run past the time to power off.                              *)
THEOREM LaserIsLimited == Spec => []LaserLimited
<1>1. CircleInv /\ QuietInv => LaserLimited
  <2> SUFFICES ASSUME CircleInv, QuietInv PROVE LaserLimited
    OBVIOUS
  <2>1. c.since \in Nat /\ quiet \in Nat /\ quiet <= c.since
    BY StateNumbers, LimitAssumption DEF CircleInv, QuietInv, SINCE_CAP
  <2>2. /\ c.laser => c.fan /\ c.avcc /\ c.vcc12 /\ ~c.is_hold /\ c.status \in Measuring
        /\ ~c.is_hold => /\ c.status = "REALTIME"  => c.since <= AUTO_HOLD_REALTIME
                         /\ c.status = "POWERSAVE" => c.since <= AUTO_HOLD_POWERSAVE
        /\ c.status \in {"REALTIME", "HISTORY"} => c.since <= AUTO_POWER_OFF
    BY DEF CircleInv, Supplied, Blown, Powered, HoldLimited, Attended, Running, Measuring
  <2> QED BY <2>1, <2>2, LimitAssumption DEF LaserLimited, Measuring
<1> QED BY <1>1, CircleInvariant, QuietInvariant, PTL

(* Whoever is in SYSTEM_HISTORY sees a measurement read since then.        *)
THEOREM HistoryShows == Spec => []HistoryShowsRecord
<1>1. CircleInv => HistoryShowsRecord
  BY DEF CircleInv, HistoryShowsRecord, Shown
<1> QED BY <1>1, CircleInvariant, PTL

(* The display keeps its supply until the low battery message has stood    *)
(* its time.                                                               *)
THEOREM MessageIsLit == Spec => []MessageStaysLit
<1>1. CircleInv => MessageStaysLit
  BY DEF CircleInv, MessageStaysLit, Powered, MessagePowered
<1> QED BY <1>1, CircleInvariant, PTL

(* Wherever the end of a message moves the refresh, a ground taken without *)
(* supply is replaced within two periods of it.                            *)
THEOREM GroundIsRenewed == Spec => []GroundRenewed
<1>1. ASSUME CircleInv PROVE GroundRenewed
  <2>1. SUFFICES ASSUME c.laser, c.dark_ground PROVE c.since < 2 * OLED_UPDATE - 2
    BY DEF GroundRenewed
  <2>2. c \in State /\ Running(c) /\ Renewing(c) /\ Calibrated(c)
    BY <1>1, <2>1 DEF CircleInv, Blown
  <2>3. CASE c.oled_due = OLED_UPDATE - 1
    BY <2>1, <2>2, <2>3, PeriodAssumption DEF Calibrated
  <2>4. CASE c.oled_due < OLED_UPDATE - 1
    BY <2>1, <2>2, <2>4, StateNumbers, PeriodAssumption DEF Renewing
  <2> QED BY <2>2, <2>3, <2>4, StateNumbers, PeriodAssumption
<1> QED BY <1>1, CircleInvariant, PTL
===============================================================================
