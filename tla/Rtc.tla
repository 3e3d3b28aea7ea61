--------------------------------- MODULE Rtc ----------------------------------
(***************************************************************************)
(* The calendar time: a counter of 16 bits in hardware, its high half kept *)
(* by the overflow interrupt of rtc.c, an alarm whose interrupt saves the  *)
(* time in the EEPROM every ten seconds (rtc_callback of main.c), and the  *)
(* saved time taken up again after a reset (main).                         *)
(*                                                                         *)
(* The interrupts are served within the second of their request: a service *)
(* takes at most the four byte writes of the EEPROM, and nothing disables  *)
(* them for longer.  The two have one priority, and RTC_OVF comes first.   *)
(* CNT is read as it is (the driver's comments name chips on which it is   *)
(* not, shortly after a sleep).                                            *)
(***************************************************************************)
EXTENDS Integers

CONSTANTS
    LOW,        \* 2^16, the values of the counter
    HIGH,       \* 2^16, the values of counter_high
    PERIOD,     \* the 10 of rtc_set_alarm_relative
    Cuts        \* 2^8, 2^16 and 2^24, what the bytes of a dword that are
                \* written after the first one count in

ASSUME WidthAssumption ==
    /\ {LOW, HIGH, PERIOD} \subseteq Nat
    /\ LOW > 1 /\ HIGH > 1 /\ PERIOD > 0
    /\ PERIOD + 1 < LOW

ASSUME CutAssumption ==
    \A w \in Cuts : /\ w \in Nat /\ PERIOD + 1 <= w
                    /\ LOW * HIGH > w /\ (LOW * HIGH) % w = 0

VARIABLES
    CNT, ovfif, compif,     \* the counter and its interrupt flags
    compare_enabled,        \* RTC.INTCTRL
    counter_high,           \* rtc_data
    alarm,                  \* alarm_high and alarm_low, COMP
    stored,                 \* HISTORY_EEPROM_RTC
    pc,                     \* in RTC_COMP_vect
    \* The time since the last reset, to state the properties with:
    now,
    passed                  \* the alarm of the last second was passed over

vars == <<CNT, ovfif, compif, compare_enabled, counter_high, alarm, stored,
          pc, now, passed>>

Wrap(t) == (t % (LOW * HIGH))
Joined(high, low) == high * LOW + low

-------------------------------------------------------------------------------
\* Mutant for ReadsTrueTime: an overflow not yet served is not counted.
GetTimeRaw == Joined(counter_high, CNT)
\* rtc_get_time.
GetTime ==
    Joined(IF CNT = 0 /\ ovfif THEN (counter_high + 1) % HIGH ELSE counter_high,
           CNT)

\* main: rtc_set_time(history_resume_rtc()), rtc_set_alarm_relative(10).
Booted(t) ==
    /\ CNT = t % LOW /\ counter_high = t \div LOW
    /\ ovfif = FALSE /\ compif = FALSE
    /\ alarm = Wrap(t + PERIOD)
    /\ compare_enabled = TRUE
    /\ pc = "main"
    /\ now = t
    /\ passed = FALSE

\* The EEPROM of a new device reads as ones.
Init ==
    /\ stored \in {LOW * HIGH - 1, 0, LOW - 1}
    /\ Booted(stored)

Requested == ovfif \/ (compif /\ compare_enabled)

(* One second.  The compare flag is set by the count after the match.      *)
Tick ==
    /\ ~Requested /\ pc = "main"
    /\ now' = Wrap(now + 1)
    /\ CNT' = (CNT + 1) % LOW
    /\ ovfif' = (ovfif \/ CNT' = 0)
    /\ compif' = (compif \/ CNT = alarm % LOW)
    /\ UNCHANGED <<compare_enabled, counter_high, alarm, stored, pc, passed>>

\* RTC_OVF_vect.
Overflow ==
    /\ pc = "main" /\ ovfif
    /\ ovfif' = FALSE
    /\ counter_high' = (counter_high + 1) % HIGH
    /\ UNCHANGED <<CNT, compif, compare_enabled, alarm, stored, pc, now,
                   passed>>

\* Mutant for ResumeClose: an alarm of this round is passed over.
DueLate == counter_high > alarm \div LOW
Due == counter_high >= alarm \div LOW

(* RTC_COMP_vect: an alarm is 32 bits wide, its match only 16; a match in  *)
(* an earlier round of the counter is passed over.                         *)
Compare ==
    /\ pc = "main" /\ ~ovfif /\ compif /\ compare_enabled
    /\ compif' = FALSE
    /\ IF Due
       THEN pc' = "callback" /\ compare_enabled' = FALSE
       ELSE UNCHANGED <<pc, compare_enabled>>
    /\ passed' = (passed \/ (~Due /\ alarm = LOW * HIGH - 1))
    /\ UNCHANGED <<CNT, ovfif, counter_high, alarm, stored, now>>

\* Mutant for CutWriteClose: the time of the next alarm is saved.
CountAhead == Wrap(alarm + PERIOD)
(* rtc_callback saves the count, or the second after the alarm if that is  *)
(* later.                                                                  *)
Count ==
    LET count == Joined(counter_high, CNT)
    IN  IF alarm >= count THEN Wrap(alarm + 1) ELSE count

Callback ==
    /\ pc = "callback"
    /\ stored' = Count
    /\ pc' = "alarm"
    /\ UNCHANGED <<CNT, ovfif, compif, compare_enabled, counter_high, alarm,
                   now, passed>>

NextAlarm(t) == Wrap(t + PERIOD)

\* rtc_set_alarm_relative, the end of RTC_COMP_vect.
SetAlarm ==
    /\ pc = "alarm"
    /\ alarm' = NextAlarm(GetTime)
    /\ compif' = FALSE
    /\ compare_enabled' = TRUE
    /\ pc' = "main"
    /\ UNCHANGED <<CNT, ovfif, counter_high, stored, now, passed>>

-------------------------------------------------------------------------------
(* A reset, in particular one that cuts eeprom_write_dword, which writes   *)
(* four bytes, the lowest one first: those below the cut are then new and  *)
(* those above it old.                                                     *)
Boot(t) ==
    /\ stored' = t
    /\ CNT' = t % LOW /\ counter_high' = t \div LOW
    /\ ovfif' = FALSE /\ compif' = FALSE
    /\ alarm' = NextAlarm(t)
    /\ compare_enabled' = TRUE
    /\ pc' = "main"
    /\ now' = t
    /\ passed' = FALSE

Reset == Boot(stored)
ResetInWrite ==
    /\ pc = "callback"
    /\ \E w \in Cuts : Boot((stored \div w) * w + (Count % w))

Next == Tick \/ Overflow \/ Compare \/ Callback \/ SetAlarm
        \/ Reset \/ ResetInWrite

Spec == Init /\ [][Next]_vars

-------------------------------------------------------------------------------
\* How far a time is behind now, around the end of the calendar too.
Behind(t) == Wrap(now - t)

(* rtc_get_time is right at any moment: with an overflow requested and not *)
(* served, within the interrupt of the alarm, as the calendar wraps.       *)
ReadsTrueTime == GetTime = now

(* The time a reset would resume is never more than a period and one       *)
(* second old (the compare flag is set one second after the match), but    *)
(* for one alarm: that of the last second of the calendar is passed over,  *)
(* since the overflow has been served and counter_high is 0 again when it  *)
(* fires.  Only a device that resumed a half written time of a new EEPROM  *)
(* ever comes there.                                                       *)
ResumeClose == ~passed => Behind(stored) <= PERIOD + 1

(* A reset within the write of the time never takes the calendar forward,  *)
(* and takes it back only where a carry went into the bytes not yet        *)
(* written: then by just what the first of them counts, four minutes, 18   *)
(* hours or 194 days.                                                      *)
CutWriteClose ==
    [][ResetInWrite /\ ~passed =>
          \/ now' = now
          \/ \E w \in Cuts : /\ stored \div w # Count \div w
                             /\ Wrap(now - now') = w]_vars
===============================================================================
