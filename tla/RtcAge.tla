-------------------------------- MODULE RtcAge ---------------------------------
(***************************************************************************)
(* The age of a measurement in the history (circle_callback of main.c):    *)
(* the time that is stored with it, and the time when it is read, both of  *)
(* the clock of Rtc, which resets take back to when it was last saved.     *)
(***************************************************************************)
EXTENDS Rtc, Age

CONSTANT AGE_BOUND      \* seconds after which the model stops counting

ASSUME BoundAssumption == AGE_BOUND \in Nat

\* The calendar, of 136 years, is longer than what the display calls a month.
ASSUME MonthAssumption == Length(Months) <= LOW * HIGH

VARIABLES
    entry,      \* history_t.time of a measurement
    \* To state the property with:
    age,        \* its age by the calendar: negative when a reset has taken
                \* the clock to before the measurement
    excused     \* such a reset cut the write of the time, or came when an
                \* alarm had been passed over

ageVars == <<vars, entry, age, excused>>

InitAge == Init /\ entry = stored /\ age = 0 /\ excused = FALSE

\* Mutant for AgeHonest: the time is read without rtc_get_time.
StampRaw == GetTimeRaw
Stamp == GetTime

\* circle_callback: history_write of a new measurement.
Measured ==
    /\ pc = "main"
    /\ entry' = Stamp
    /\ age' = 0
    /\ excused' = FALSE
    /\ UNCHANGED vars

Older(seconds) == age' = IF age + seconds > AGE_BOUND THEN AGE_BOUND
                         ELSE age + seconds

TickAge == Tick /\ Older(1) /\ UNCHANGED <<entry, excused>>
InterruptAge ==
    /\ Overflow \/ Compare \/ Callback \/ SetAlarm
    /\ UNCHANGED <<entry, age, excused>>

\* The measurement is in the EEPROM, the time since the last alarm is lost.
ResetAge ==
    /\ age < AGE_BOUND
    /\ \/ Reset /\ excused' = (excused \/ passed)
       \/ ResetInWrite /\ excused' = TRUE
    /\ Older(-Wrap(now - stored'))
    /\ UNCHANGED entry

NextAge == Measured \/ TickAge \/ InterruptAge \/ ResetAge

SpecAge == InitAge /\ [][NextAge]_ageVars

-------------------------------------------------------------------------------
\* What the display shows, of oled_status.time.
Displayed == AgeOf(Wrap(GetTime - entry))

(* The age displayed is the age, to the last but one unit, as long as it   *)
(* is below what the display calls a month.  It is absurd, a negative      *)
(* number taken as an unsigned one, only after a reset that followed the   *)
(* measurement within the ten seconds and one that the saved time can be   *)
(* behind, and until the clock has caught up with it; but for a reset that *)
(* cut the write of the time.                                              *)
AgeHonest ==
    /\ age \in 0 .. AGE_BOUND - 1 /\ age < Length(Months)
           => Meant(Displayed) \in age - Length(Displayed.unit) + 1 .. age
    /\ ~excused => age >= -(PERIOD + 1)
===============================================================================
