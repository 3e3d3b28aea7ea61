------------------------------- MODULE RtcProofs -------------------------------
(*****************************************************************************)
(* Proofs about Rtc for every width of the two halves of the time and       *)
(* every period of the alarm that fits in a round of the counter, and about *)
(* RtcAge for every list of units that are at most a hundred of the one     *)
(* below.                                                                   *)
(*****************************************************************************)
EXTENDS RtcAge, DisplayProofs

-------------------------------------------------------------------------------
(* The calendar: times of two halves, that wrap around.                    *)

(* One step of a counter that wraps around.                                *)
LEMMA NextInPeriod ==
    ASSUME NEW m \in Nat, m > 0, NEW n \in 0 .. m - 1
    PROVE  (n + 1) % m = IF n = m - 1 THEN 0 ELSE n + 1
OBVIOUS

M == LOW * HIGH
Time == 0 .. M - 1

LEMMA Widths == /\ LOW \in Nat /\ HIGH \in Nat /\ PERIOD \in Nat /\ M \in Nat
                /\ LOW > 1 /\ HIGH > 1 /\ PERIOD > 0 /\ PERIOD + 1 < LOW
                /\ M >= 2 * LOW
<1>1. PICK k \in Nat : HIGH = k + 2
  BY WidthAssumption
<1>2. M = LOW * k + 2 * LOW /\ LOW * k >= 0
  BY <1>1, WidthAssumption DEF M
<1> QED BY <1>2, WidthAssumption

(* The high half of a time, in counts.                                     *)
LEMMA HighHalf ==
    ASSUME NEW high \in 0 .. HIGH - 1
    PROVE  /\ high * LOW \in Nat /\ LOW * high = high * LOW
           /\ high * LOW <= M - LOW
           /\ high < HIGH - 1 => (high + 1) * LOW = high * LOW + LOW
           /\ high = HIGH - 1 => high * LOW = M - LOW
<1>1. PICK k \in Nat : HIGH = high + 1 + k
  BY Widths
<1>2. M = high * LOW + LOW + LOW * k /\ LOW * k \in Nat /\ high * LOW \in Nat
  BY <1>1, Widths DEF M
<1>3. high = HIGH - 1 => k = 0
  BY <1>1, Widths
<1> QED BY <1>2, <1>3, Widths

(* Wrap for what is less than a calendar outside of it.                    *)
LEMMA WrapIs ==
    ASSUME NEW a \in Int, -M <= a, a < 2 * M
    PROVE  /\ a < 0 => Wrap(a) = a + M
           /\ a \in Time => Wrap(a) = a
           /\ a >= M => Wrap(a) = a - M
           /\ Wrap(a) \in Time
<1>1. M \in Nat /\ M > 0 /\ Wrap(a) = a % M
  BY Widths DEF Wrap, M
<1>2. a < 0 => a + M \in 0 .. M - 1 /\ a = M * (-1) + (a + M)
  BY <1>1
<1>3. a \in Time => a = M * 0 + a
  BY <1>1 DEF Time
<1>4. a >= M => a - M \in 0 .. M - 1 /\ a = M * 1 + (a - M)
  BY <1>1
<1>5. -1 \in Int /\ 0 \in Int /\ 1 \in Int
  OBVIOUS
<1>6. a < 0 => a % M = a + M
  BY <1>1, <1>2, <1>5, ModIs
<1>7. a \in Time => a % M = a
  BY <1>1, <1>3, <1>5, ModIs DEF Time
<1>8. a >= M => a % M = a - M
  BY <1>1, <1>4, <1>5, ModIs
<1> QED BY <1>1, <1>6, <1>7, <1>8 DEF Time

(* Splitting a time into its halves and joining them again.                *)
LEMMA SplitTime ==
    ASSUME NEW t \in Time
    PROVE  /\ t % LOW \in 0 .. LOW - 1 /\ t \div LOW \in 0 .. HIGH - 1
           /\ Joined(t \div LOW, t % LOW) = t
<1> DEFINE q == t \div LOW
           r == t % LOW
<1>1. r \in 0 .. LOW - 1 /\ q \in Int /\ t = LOW * q + r
  BY Widths, DivMod DEF Time
<1> HIDE DEF q, r
<1>2. q >= 0
  <2>1. SUFFICES ASSUME q < 0 PROVE FALSE
    BY <1>1
  <2>2. PICK k \in Nat : q = -1 - k
    BY <1>1, <2>1
  <2>3. LOW * q = -LOW - LOW * k /\ LOW * k >= 0
    BY <2>2, Widths
  <2> QED BY <1>1, <2>3, Widths DEF Time
<1>3. q < HIGH
  <2>1. SUFFICES ASSUME q >= HIGH PROVE FALSE
    BY <1>1, Widths
  <2>2. PICK k \in Nat : q = HIGH + k
    BY <1>1, <2>1, Widths
  <2>3. LOW * q = M + LOW * k /\ LOW * k >= 0
    BY <2>2, Widths DEF M
  <2> QED BY <1>1, <2>3, Widths DEF Time
<1>4. LOW * q = q * LOW
  BY <1>1, Widths
<1> QED BY <1>1, <1>2, <1>3, <1>4, Widths DEF Joined, q, r

LEMMA JoinedTime ==
    ASSUME NEW high \in 0 .. HIGH - 1, NEW low \in 0 .. LOW - 1
    PROVE  /\ Joined(high, low) \in Time
           /\ Joined(high, low) \div LOW = high
           /\ Joined(high, low) % LOW = low
<1> DEFINE t == Joined(high, low)
<1>1. t \in Time /\ t = LOW * high + low
  BY HighHalf, Widths DEF Joined, Time
<1>2. /\ t % LOW \in 0 .. LOW - 1 /\ t \div LOW \in Int
      /\ t = LOW * (t \div LOW) + (t % LOW)
  BY <1>1, Widths, DivMod DEF Time
<1> HIDE DEF t
<1>3. t \div LOW = high /\ t % LOW = low
  BY <1>1, <1>2, Widths, RemainderUnique
<1> QED BY <1>1, <1>3 DEF t

(* A later time is in the same round of the counter or a later one.        *)
LEMMA RoundsOrdered ==
    ASSUME NEW t \in Time, NEW u \in Time, t <= u
    PROVE  t \div LOW <= u \div LOW
<1> DEFINE p == t \div LOW
           q == u \div LOW
<1>1. /\ p \in 0 .. HIGH - 1 /\ q \in 0 .. HIGH - 1
      /\ t % LOW \in 0 .. LOW - 1 /\ u % LOW \in 0 .. LOW - 1
      /\ t = p * LOW + (t % LOW) /\ u = q * LOW + (u % LOW)
  BY SplitTime DEF Joined
<1> HIDE DEF p, q
<1>2. SUFFICES ASSUME q < p PROVE FALSE
  BY <1>1, Widths DEF p, q
<1>3. PICK k \in Nat : p = q + 1 + k
  BY <1>1, <1>2, Widths
<1>4. p * LOW = q * LOW + LOW + LOW * k /\ LOW * k >= 0 /\ q * LOW \in Int
  BY <1>1, <1>3, Widths
<1> QED BY <1>1, <1>4, Widths DEF Time

(* Within a round of the counter from some time on, the low half of a time *)
(* is its own.                                                             *)
LEMMA MatchIsOne ==
    ASSUME NEW t \in Time, NEW d \in 0 .. LOW - 1, NEW e \in 0 .. LOW - 1,
           Wrap(t + d) % LOW = Wrap(t + e) % LOW
    PROVE  d = e
<1>1. ASSUME NEW x \in 0 .. LOW - 1, NEW k \in Int, x = LOW * k PROVE x = 0
  <2>1. LOW * 0 + x = LOW * k + 0 /\ 0 \in Int /\ 0 \in 0 .. LOW - 1
    BY <1>1, Widths
  <2> QED BY <2>1, <1>1, Widths, RemainderUnique
<1>2. PICK a \in Time, b \in Time, i \in {0, 1}, j \in {0, 1} :
          /\ a = Wrap(t + d) /\ a = t + d - i * M
          /\ b = Wrap(t + e) /\ b = t + e - j * M
  <2>1. /\ t + d \in Int /\ -M <= t + d /\ t + d < 2 * M /\ t + d >= 0
        /\ t + e \in Int /\ -M <= t + e /\ t + e < 2 * M /\ t + e >= 0
    BY Widths DEF Time
  <2>2. /\ Wrap(t + d) \in Time /\ Wrap(t + d) \in {t + d, t + d - M}
        /\ Wrap(t + e) \in Time /\ Wrap(t + e) \in {t + e, t + e - M}
    BY <2>1, WrapIs, Widths DEF Time
  <2>3. 0 * M = 0 /\ 1 * M = M
    BY Widths
  <2> QED BY <2>2, <2>3, Widths DEF Time
<1>3. PICK q \in Int, p \in Int, r \in 0 .. LOW - 1 :
          a = LOW * q + r /\ b = LOW * p + r
  <2>1. /\ a % LOW \in 0 .. LOW - 1 /\ a \div LOW \in Int
        /\ a = LOW * (a \div LOW) + (a % LOW)
        /\ b \div LOW \in Int
        /\ b = LOW * (b \div LOW) + (b % LOW)
    BY Widths, DivMod DEF Time
  <2>2. a % LOW = b % LOW
    BY <1>2
  <2> QED BY <2>1, <2>2
<1>4. (i - j) * M = LOW * (HIGH * (i - j)) /\ (i - j) * M = i * M - j * M
  BY <1>2, Widths DEF M
<1>5. LOW * (q - p) = LOW * q - LOW * p
  BY <1>3, Widths
<1>6. d - e = LOW * (q - p) + LOW * (HIGH * (i - j))
  BY <1>2, <1>3, <1>4, <1>5, Widths DEF Time
<1>7. PICK k \in Int : d - e = LOW * k
  <2>1. PICK n \in Int : n = HIGH * (i - j)
    BY <1>2, Widths
  <2>2. LOW * (q - p) + LOW * n = LOW * (q - p + n)
    BY <1>3, Widths
  <2> QED BY <1>3, <1>6, <2>1, <2>2
<1>8. CASE d >= e
  BY <1>1, <1>7, <1>8, Widths
<1>9. CASE d < e
  <2>1. e - d = LOW * (-k) /\ -k \in Int /\ e - d \in 0 .. LOW - 1
    BY <1>7, <1>9, Widths
  <2> QED BY <1>1, <2>1, Widths
<1> QED BY <1>8, <1>9, Widths

-------------------------------------------------------------------------------
(* The invariant.                                                          *)

TypeOK ==
    /\ CNT \in 0 .. LOW - 1 /\ counter_high \in 0 .. HIGH - 1
    /\ ovfif \in BOOLEAN /\ compif \in BOOLEAN
    /\ compare_enabled \in BOOLEAN /\ passed \in BOOLEAN
    /\ alarm \in Time /\ stored \in Time /\ now \in Time
    /\ pc \in {"main", "callback", "alarm"}

(* The count is the time, but for an overflow not yet served; there is     *)
(* none in the interrupt of the alarm, and never past the second it        *)
(* happened in.                                                            *)
CountsTrue ==
    /\ ovfif => CNT = 0 /\ pc = "main"
    /\ now = Joined(IF ovfif THEN (counter_high + 1) % HIGH ELSE counter_high, CNT)

(* In the main program the alarm is a period after the stored time, and    *)
(* its match is the first since: no time of another round comes between.   *)
Waiting ==
    /\ alarm = Wrap(stored + PERIOD)
    /\ \E elapsed \in 0 .. PERIOD + 1 :
           /\ now = Wrap(stored + elapsed)
           /\ compif <=> elapsed = PERIOD + 1

(* In the callback it is the second after the alarm, which is not the last *)
(* of the calendar.                                                        *)
Fired == alarm = now - 1 /\ now = Wrap(stored + (PERIOD + 1))

AlarmKept ==
    /\ pc = "main" => compare_enabled
    /\ ~passed => /\ pc = "main"     => Waiting
                  /\ pc = "callback" => Fired
                  /\ pc = "alarm"    => stored = now

RtcInv == TypeOK /\ CountsTrue /\ AlarmKept

LEMMA TimeRead == CountsTrue => GetTime = now
BY DEF CountsTrue, GetTime

(* Any reset resumes a time, sets the counter to it and the alarm after it.*)
LEMMA BootInv ==
    ASSUME NEW t \in Time, Boot(t)
    PROVE  RtcInv'
<1>1. /\ t % LOW \in 0 .. LOW - 1 /\ t \div LOW \in 0 .. HIGH - 1
      /\ Joined(t \div LOW, t % LOW) = t
  BY SplitTime
<1>2. /\ Wrap(t + PERIOD) \in Time
      /\ Wrap(t + 0) = t
  BY WrapIs, Widths DEF Time
<1>3. TypeOK' /\ CountsTrue'
  BY <1>1, <1>2 DEF Boot, NextAlarm, TypeOK, CountsTrue
<1>4. Waiting'
  <2>1. 0 \in 0 .. PERIOD + 1 /\ 0 # PERIOD + 1
    BY Widths
  <2> QED BY <1>2, <2>1 DEF Boot, NextAlarm, Waiting
<1>5. AlarmKept'
  BY <1>4 DEF Boot, AlarmKept
<1> QED BY <1>3, <1>5 DEF RtcInv

LEMMA InitRtcInv == Init => RtcInv
<1> SUFFICES ASSUME Init PROVE RtcInv
  OBVIOUS
<1>1. stored \in Time /\ LOW * HIGH = M
  BY Widths DEF Init, Time, M
<1>2. /\ stored % LOW \in 0 .. LOW - 1 /\ stored \div LOW \in 0 .. HIGH - 1
      /\ Joined(stored \div LOW, stored % LOW) = stored
  BY <1>1, SplitTime
<1>3. Wrap(stored + PERIOD) \in Time /\ Wrap(stored + 0) = stored
  BY <1>1, WrapIs, Widths DEF Time
<1>4. TypeOK /\ CountsTrue
  BY <1>1, <1>2, <1>3 DEF Init, Booted, TypeOK, CountsTrue
<1>5. 0 \in 0 .. PERIOD + 1 /\ 0 # PERIOD + 1
  BY Widths
<1>6. Waiting
  BY <1>3, <1>5 DEF Init, Booted, Waiting
<1>7. AlarmKept
  BY <1>6 DEF Init, Booted, AlarmKept
<1> QED BY <1>4, <1>7 DEF RtcInv

LEMMA TickInv ==
    ASSUME RtcInv, Tick
    PROVE  RtcInv'
<1>1. /\ ~ovfif /\ pc = "main" /\ compare_enabled /\ ~compif
      /\ now = Joined(counter_high, CNT)
      /\ CNT \in 0 .. LOW - 1 /\ counter_high \in 0 .. HIGH - 1 /\ now \in Time
      /\ stored \in Time
  BY DEF RtcInv, TypeOK, CountsTrue, AlarmKept, Tick, Requested
<1>2. CNT' = (IF CNT = LOW - 1 THEN 0 ELSE CNT + 1) /\ CNT' \in 0 .. LOW - 1
  <2>1. (CNT + 1) % LOW = IF CNT = LOW - 1 THEN 0 ELSE CNT + 1
    BY <1>1, Widths, NextInPeriod
  <2> QED BY <1>1, <2>1, Widths DEF Tick
<1>3. now' = Wrap(now + 1) /\ now' \in Time
  BY <1>1, WrapIs, Widths DEF Tick, Time
<1>4. TypeOK'
  BY <1>2, <1>3 DEF Tick, RtcInv, TypeOK
<1>5. CountsTrue'
  <2>1. now = counter_high * LOW + CNT /\ 0 * LOW = 0
    BY <1>1, Widths DEF Joined
  <2>2. CASE CNT # LOW - 1
    <3>1. now + 1 \in Time /\ now' = now + 1
      BY <1>1, <1>3, <2>1, <2>2, HighHalf, WrapIs, Widths DEF Time
    <3>2. CNT' = CNT + 1 /\ CNT' # 0
      BY <1>1, <1>2, <2>2, Widths
    <3>3. ~ovfif' /\ counter_high' = counter_high
      BY <1>1, <3>2 DEF Tick
    <3> QED BY <1>1, <2>1, <3>1, <3>2, <3>3, HighHalf DEF CountsTrue, Joined
  <2>3. CASE CNT = LOW - 1
    <3>1. (counter_high + 1) % HIGH = IF counter_high = HIGH - 1 THEN 0
                                      ELSE counter_high + 1
      BY <1>1, Widths, NextInPeriod
    <3>2. CNT' = 0 /\ ovfif' /\ counter_high' = counter_high /\ pc' = "main"
      BY <1>1, <1>2, <2>3 DEF Tick
    <3>3. CASE counter_high = HIGH - 1
      <4>1. now + 1 = M
        BY <1>1, <2>1, <2>3, <3>3, HighHalf, Widths
      <4>2. now' = 0
        BY <1>3, <4>1, WrapIs, Widths
      <4>3. now' = Joined((counter_high' + 1) % HIGH, CNT')
        BY <2>1, <3>1, <3>2, <3>3, <4>2 DEF Joined
      <4> QED BY <3>2, <4>3 DEF CountsTrue
    <3>4. CASE counter_high < HIGH - 1
      <4>1. now + 1 = (counter_high + 1) * LOW /\ now + 1 \in Time
        BY <1>1, <2>1, <2>3, <3>4, HighHalf, Widths DEF Time
      <4>2. now' = (counter_high + 1) * LOW + 0
        BY <1>3, <4>1, WrapIs, Widths DEF Time
      <4>3. now' = Joined((counter_high' + 1) % HIGH, CNT')
        BY <1>1, <3>1, <3>2, <3>4, <4>2, Widths DEF Joined
      <4> QED BY <3>2, <4>3 DEF CountsTrue
    <3> QED BY <1>1, <3>3, <3>4, Widths
  <2> QED BY <2>2, <2>3
<1>6. ASSUME ~passed PROVE Waiting'
  <2>1. PICK elapsed \in 0 .. PERIOD + 1 :
            /\ now = Wrap(stored + elapsed)
            /\ compif <=> elapsed = PERIOD + 1
    BY <1>1, <1>6 DEF RtcInv, AlarmKept, Waiting
  <2>2. elapsed + 1 \in 0 .. PERIOD + 1
    BY <1>1, <2>1, Widths
  <2>3. now' = Wrap(stored + (elapsed + 1))
    BY <1>1, <1>3, <2>1, <2>2, WrapIs, Widths DEF Time
  <2>4. alarm = Wrap(stored + PERIOD)
    BY <1>1, <1>6 DEF RtcInv, AlarmKept, Waiting
  <2>5. CNT = now % LOW
    BY <1>1, JoinedTime
  <2>6. CNT = alarm % LOW <=> elapsed = PERIOD
    <3>1. PERIOD \in 0 .. LOW - 1 /\ elapsed \in 0 .. LOW - 1
      BY Widths
    <3> QED BY <1>1, <2>1, <2>4, <2>5, <3>1, MatchIsOne
  <2>7. compif' <=> elapsed + 1 = PERIOD + 1
    <3>1. elapsed = PERIOD <=> elapsed + 1 = PERIOD + 1
      BY Widths
    <3>2. compif' <=> CNT = alarm % LOW
      BY <1>1 DEF Tick
    <3> QED BY <2>6, <3>1, <3>2
  <2> QED BY <2>2, <2>3, <2>4, <2>7 DEF Tick, Waiting
<1> QED BY <1>1, <1>4, <1>5, <1>6 DEF RtcInv, AlarmKept, Tick

LEMMA OverflowInv ==
    ASSUME RtcInv, Overflow
    PROVE  RtcInv'
<1>1. counter_high' \in 0 .. HIGH - 1
  BY Widths, DivMod DEF Overflow, RtcInv, TypeOK
<1>2. TypeOK' /\ CountsTrue'
  BY <1>1 DEF Overflow, RtcInv, TypeOK, CountsTrue
<1>3. AlarmKept'
  BY DEF Overflow, RtcInv, AlarmKept, Waiting
<1> QED BY <1>2, <1>3 DEF RtcInv

LEMMA CompareInv ==
    ASSUME RtcInv, Compare
    PROVE  RtcInv'
<1>1. /\ pc = "main" /\ ~ovfif /\ compif /\ TypeOK /\ CountsTrue /\ AlarmKept
      /\ now = Joined(counter_high, CNT) /\ counter_high = now \div LOW
  BY JoinedTime DEF Compare, RtcInv, TypeOK, CountsTrue
<1>2. TypeOK' /\ CountsTrue'
  BY <1>1 DEF Compare, TypeOK, CountsTrue
<1>3. ASSUME ~passed PROVE /\ now = Wrap(stored + (PERIOD + 1))
                           /\ alarm # M - 1 => alarm = now - 1
                           /\ alarm = M - 1 => ~Due
  <2>1. now = Wrap(stored + (PERIOD + 1)) /\ alarm = Wrap(stored + PERIOD)
    BY <1>1, <1>3 DEF AlarmKept, Waiting
  <2>2. now = IF alarm = M - 1 THEN 0 ELSE alarm + 1
    BY <1>1, <2>1, WrapIs, Widths DEF TypeOK, Time
  <2>3. ASSUME alarm = M - 1 PROVE ~Due
    <3>1. M - 1 = Joined(HIGH - 1, LOW - 1) /\ HIGH - 1 \in 0 .. HIGH - 1
          /\ LOW - 1 \in 0 .. LOW - 1
      BY HighHalf, Widths DEF Joined
    <3>2. alarm \div LOW = HIGH - 1
      BY <2>3, <3>1, JoinedTime
    <3>3. 0 = Joined(0, 0) /\ 0 \in 0 .. HIGH - 1 /\ 0 \in 0 .. LOW - 1
      BY Widths DEF Joined
    <3>4. now \div LOW = 0
      BY <2>2, <2>3, <3>3, JoinedTime
    <3> QED BY <1>1, <3>2, <3>4, Widths DEF Due
  <2> QED BY <1>1, <2>1, <2>2, <2>3, Widths DEF TypeOK, Time
<1>4. ASSUME Due PROVE AlarmKept'
  BY <1>1, <1>3, <1>4 DEF Compare, AlarmKept, Fired
<1>5. ASSUME ~Due PROVE AlarmKept'
  <2>1. ASSUME ~passed PROVE passed'
    <3>1. SUFFICES ASSUME alarm # M - 1 PROVE FALSE
      BY <1>5 DEF Compare, M
    <3>2. alarm = now - 1 /\ alarm \in Time /\ now \in Time
      BY <1>1, <1>3, <2>1, <3>1 DEF TypeOK
    <3>3. now \div LOW >= alarm \div LOW
      BY <3>2, RoundsOrdered, Widths DEF Time
    <3> QED BY <1>1, <1>5, <3>3 DEF Due
  <2> QED BY <1>1, <1>5, <2>1 DEF Compare, AlarmKept, TypeOK
<1> QED BY <1>2, <1>4, <1>5 DEF RtcInv

\* What the callback saves is the time, unless the alarm was lost.
LEMMA CountIsNow ==
    ASSUME TypeOK, CountsTrue, pc = "callback", Fired
    PROVE  Count = now
<1>1. now = Joined(counter_high, CNT)
  BY DEF CountsTrue
<1>2. ~(alarm >= now)
  BY DEF TypeOK, Fired, Time
<1> QED BY <1>1, <1>2 DEF Count

LEMMA CountTime == ASSUME TypeOK PROVE Count \in Time
<1>1. Joined(counter_high, CNT) \in Time
  BY JoinedTime DEF TypeOK
<1>2. Wrap(alarm + 1) \in Time
  BY WrapIs, Widths DEF TypeOK, Time
<1> QED BY <1>1, <1>2 DEF Count

LEMMA CallbackInv ==
    ASSUME RtcInv, Callback
    PROVE  RtcInv'
<1>1. TypeOK' /\ CountsTrue'
  BY CountTime DEF Callback, RtcInv, TypeOK, CountsTrue
<1>2. ~passed => Count = now
  BY CountIsNow DEF Callback, RtcInv, AlarmKept
<1> QED BY <1>1, <1>2 DEF RtcInv, AlarmKept, Callback

LEMMA SetAlarmInv ==
    ASSUME RtcInv, SetAlarm
    PROVE  RtcInv'
<1>1. GetTime = now /\ now \in Time
  BY TimeRead DEF RtcInv, TypeOK
<1>2. alarm' = Wrap(now + PERIOD) /\ alarm' \in Time
  BY <1>1, WrapIs, Widths DEF SetAlarm, NextAlarm, Time
<1>3. TypeOK' /\ CountsTrue'
  BY <1>2 DEF SetAlarm, RtcInv, TypeOK, CountsTrue
<1>4. ASSUME ~passed PROVE Waiting'
  <2>1. stored' = now /\ now' = now /\ ~compif'
    BY <1>4 DEF SetAlarm, RtcInv, AlarmKept
  <2>2. Wrap(now + 0) = now /\ 0 \in 0 .. PERIOD + 1 /\ 0 # PERIOD + 1
    BY <1>1, WrapIs, Widths DEF Time
  <2> QED BY <1>2, <2>1, <2>2 DEF Waiting
<1> QED BY <1>3, <1>4 DEF RtcInv, AlarmKept, SetAlarm

\* Each of the cuts is at a part of the calendar.
LEMMA CutIsPart ==
    ASSUME NEW w \in Cuts
    PROVE  w \in Nat /\ w > 0 /\ PERIOD + 1 <= w /\ w < M
           /\ \E m \in Nat : m > 1 /\ M = w * m
<1>1. /\ w \in Nat /\ PERIOD + 1 <= w /\ M > w /\ M % w = 0
  BY CutAssumption DEF M
<1>2. w > 0 /\ M \in Nat
  BY <1>1, Widths
<1>3. M = w * (M \div w) + (M % w) /\ M \div w \in Nat
  BY <1>1, <1>2, DivMod, QuotientNatural
<1> PICK m \in Nat : m = M \div w
  BY <1>3
<1>4. M = w * m
  BY <1>1, <1>3
<1>5. m > 1
  <2>1. CASE m = 0
    <3>1. w * m = 0
      BY <1>1, <2>1
    <3> QED BY <1>1, <1>4, <3>1
  <2>2. CASE m = 1
    <3>1. w * m = w
      BY <1>1, <2>2
    <3> QED BY <1>1, <1>4, <3>1
  <2> QED BY <2>1, <2>2
<1> QED BY <1>1, <1>2, <1>4, <1>5

(* The parts of a time at a cut: the bytes above it and those below.       *)
LEMMA PartsOfTime ==
    ASSUME NEW w \in Nat, w > 0, NEW m \in Nat, M = w * m, NEW t \in Time
    PROVE  /\ t % w \in 0 .. w - 1 /\ t \div w \in 0 .. m - 1
           /\ t = (t \div w) * w + (t % w)
           /\ (t \div w) * w \in 0 .. M - w
<1>1. PICK q \in Nat, r \in 0 .. w - 1 :
          q = t \div w /\ r = t % w /\ t = w * q + r
  BY Divide, Widths DEF Time
<1>2. w * q = q * w /\ q * w \in Nat
  BY <1>1
<1>3. q < m
  <2>1. SUFFICES ASSUME q >= m PROVE FALSE
    BY <1>1
  <2>2. PICK k \in Nat : q = m + k
    BY <2>1
  <2>3. w * q = M + w * k /\ w * k >= 0
    BY <2>2
  <2> QED BY <1>1, <2>3, Widths DEF Time
<1>4. q * w <= M - w
  <2>1. PICK k \in Nat : m = q + 1 + k
    BY <1>3
  <2>2. M = q * w + w + w * k /\ w * k >= 0
    BY <2>1
  <2> QED BY <1>2, <2>2, Widths
<1> QED BY <1>1, <1>2, <1>3, <1>4

\* The time a cut write leaves is one too, of old and new bytes.
LEMMA CutTime ==
    ASSUME TypeOK, NEW w \in Cuts
    PROVE  (stored \div w) * w + (Count % w) \in Time
<1>1. PICK m \in Nat : M = w * m
  BY CutIsPart
<1>2. w \in Nat /\ w > 0
  BY CutIsPart
<1>3. Count \in Time /\ stored \in Time
  BY CountTime DEF TypeOK
<1>4. (stored \div w) * w \in 0 .. M - w /\ Count % w \in 0 .. w - 1
  BY <1>1, <1>2, <1>3, PartsOfTime
<1> QED BY <1>2, <1>4, Widths DEF Time

LEMMA NextRtcInv == RtcInv /\ [Next]_vars => RtcInv'
<1> SUFFICES ASSUME RtcInv, [Next]_vars PROVE RtcInv'
  OBVIOUS
<1>1. CASE Reset
  BY <1>1, BootInv DEF Reset, RtcInv, TypeOK
<1>2. CASE ResetInWrite
  BY <1>2, BootInv, CutTime DEF ResetInWrite, RtcInv
<1>3. CASE UNCHANGED vars
  BY <1>3 DEF vars, RtcInv, TypeOK, CountsTrue, AlarmKept, Waiting, Fired
<1> QED BY <1>1, <1>2, <1>3, TickInv, OverflowInv, CompareInv, CallbackInv, SetAlarmInv
        DEF Next

(* RtcInv always holds: the count is the time, and the next alarm is the   *)
(* first match after the stored time.                                      *)
THEOREM RtcInvariant == Spec => []RtcInv
BY InitRtcInv, NextRtcInv, PTL DEF Spec

-------------------------------------------------------------------------------
(* The properties of Rtc, for all widths and periods.                      *)

(* rtc_get_time is right at any moment, overflow pending or not.           *)
THEOREM TimeIsTrue == Spec => []ReadsTrueTime
<1>1. RtcInv => ReadsTrueTime
  BY TimeRead DEF RtcInv, ReadsTrueTime
<1> QED BY <1>1, RtcInvariant, PTL

\* How far behind a time is that was the time so many seconds ago.
LEMMA BehindIs ==
    ASSUME NEW t \in Time, NEW d \in 0 .. PERIOD + 1, now = Wrap(t + d)
    PROVE  Behind(t) = d
<1>1. now = IF t + d < M THEN t + d ELSE t + d - M
  BY WrapIs, Widths DEF Time
<1>2. /\ now - t \in Int /\ -M <= now - t /\ now - t < 2 * M
      /\ now - t = d \/ now - t = d - M
  BY <1>1, Widths DEF Time
<1> QED BY <1>2, WrapIs, Widths DEF Behind, Time

Lag == Behind(stored)
StoredRecent == ~passed => Lag \in 0 .. PERIOD + 1

LEMMA StoredIsRecent == RtcInv => StoredRecent
<1> SUFFICES ASSUME RtcInv, ~passed PROVE Behind(stored) \in 0 .. PERIOD + 1
  BY DEF StoredRecent, Lag
<1>1. stored \in Time /\ now \in Time /\ pc \in {"main", "callback", "alarm"}
  BY DEF RtcInv, TypeOK
<1>2. CASE pc = "main"
  BY <1>1, <1>2, BehindIs DEF RtcInv, AlarmKept, Waiting
<1>3. CASE pc = "callback"
  <2>1. PERIOD + 1 \in 0 .. PERIOD + 1
    BY Widths
  <2> QED BY <1>1, <1>3, <2>1, BehindIs DEF RtcInv, AlarmKept, Fired
<1>4. CASE pc = "alarm"
  <2>1. now = Wrap(stored + 0) /\ 0 \in 0 .. PERIOD + 1
    BY <1>1, <1>4, WrapIs, Widths DEF RtcInv, AlarmKept, Time
  <2>2. Behind(stored) = 0
    BY <1>1, <2>1, BehindIs
  <2> QED BY <2>1, <2>2
<1> QED BY <1>1, <1>2, <1>3, <1>4

(* A reset resumes a time no older than a period and one second, unless    *)
(* the alarm of the last second of the calendar was lost.                  *)
THEOREM ResumesClose == Spec => []ResumeClose
<1>1. StoredRecent => ResumeClose
  BY Widths DEF StoredRecent, Lag, ResumeClose
<1> QED BY <1>1, StoredIsRecent, RtcInvariant, PTL

\* The distance of two multiples, and those next to zero.
LEMMA MultiplesApart ==
    ASSUME NEW w \in Nat, NEW p \in Nat, NEW q \in Nat
    PROVE  \E k \in Int : k = p - q /\ p * w - q * w = w * k
OBVIOUS

LEMMA MultipleNear ==
    ASSUME NEW w \in Nat, w > 0, NEW k \in Int, -w < w * k, w * k < 2 * w
    PROVE  k \in {0, 1}
<1>1. CASE k < 0
  <2>1. PICK j \in Nat : k = -1 - j
    BY <1>1
  <2>2. w * k = -w - w * j /\ w * j >= 0
    BY <2>1
  <2> QED BY <2>2
<1>2. CASE k > 1
  <2>1. PICK j \in Nat : k = 2 + j
    BY <1>2
  <2>2. w * k = 2 * w + w * j /\ w * j >= 0
    BY <2>1
  <2> QED BY <2>2
<1> QED BY <1>1, <1>2

LEMMA MultipleBelow ==
    ASSUME NEW w \in Nat, w > 0, NEW k \in Nat, w * k < w
    PROVE  w * k = 0
<1>1. w * k >= 0 /\ -w < w * k /\ w * k < 2 * w
  OBVIOUS
<1>2. k \in {0, 1}
  BY <1>1, MultipleNear
<1>3. w * 0 = 0 /\ w * 1 = w
  OBVIOUS
<1> QED BY <1>2, <1>3

\* The upper parts of two times: they are close, or the calendar wrapped.
LEMMA UpperPartsClose ==
    ASSUME NEW w \in Nat, w > 0, w < M,
           NEW t \in Time, NEW u \in Time, NEW d \in 0 .. w, u = Wrap(t + d),
           NEW a \in 0 .. M - w, NEW r \in 0 .. w - 1, u = a + r,
           NEW b \in 0 .. M - w, NEW s \in 0 .. w - 1, t = b + s
    PROVE  (-w < a - b /\ a - b < 2 * w) \/ (a < w /\ M - w - b < w)
<1>1. u = IF t + d < M THEN t + d ELSE t + d - M
  <2>1. t + d \in Int /\ 0 <= t + d /\ t + d < 2 * M
    BY Widths DEF Time
  <2> QED BY <2>1, WrapIs, Widths
<1> QED BY <1>1, Widths DEF Time

LEMMA WrapCut ==
    ASSUME NEW w \in Nat, w < M, NEW x \in {w, w - M}
    PROVE  Wrap(x) = w
<1>1. x \in Int /\ -M <= x /\ x < 2 * M
  BY Widths
<1> QED BY <1>1, WrapIs, Widths

\* The old and new bytes of two times not further apart than a cut.
LEMMA PartsClose ==
    ASSUME NEW w \in Nat, w > 0, w < M, NEW m \in Nat, M = w * m,
           NEW t \in Time, NEW u \in Time, NEW d \in 0 .. w, u = Wrap(t + d),
           t \div w # u \div w
    PROVE  Wrap(u - ((t \div w) * w + (u % w))) = w
<1>1. PICK q \in 0 .. m - 1, s \in 0 .. w - 1, b \in 0 .. M - w :
          q = t \div w /\ b = (t \div w) * w /\ b = q * w /\ t = b + s
  BY PartsOfTime
<1>2. PICK p \in 0 .. m - 1, r \in 0 .. w - 1, a \in 0 .. M - w :
          p = u \div w /\ r = u % w /\ a = p * w /\ u = a + r
  BY PartsOfTime
<1>3. (-w < a - b /\ a - b < 2 * w) \/ (a < w /\ M - w - b < w)
  BY <1>1, <1>2, UpperPartsClose
<1>4. p \in Nat /\ q \in Nat /\ p # q
  BY <1>1, <1>2
<1>5. PICK k \in Int : k = p - q /\ a - b = w * k
  <2>1. PICK k \in Int : k = p - q /\ p * w - q * w = w * k
    BY <1>4, MultiplesApart
  <2> QED BY <1>1, <1>2, <2>1
<1>6. ASSUME -w < a - b, a - b < 2 * w PROVE a - b = w
  <2>1. k \in {0, 1}
    BY <1>5, <1>6, MultipleNear
  <2>2. k = 1
    BY <1>4, <1>5, <2>1
  <2>3. w * 1 = w
    OBVIOUS
  <2> QED BY <1>5, <2>2, <2>3
<1>7. ASSUME a < w, M - w - b < w PROVE a - b = w - M
  <2>1. a = 0
    <3>1. p * w = w * p
      BY <1>4
    <3> QED BY <1>2, <1>4, <1>7, <3>1, MultipleBelow
  <2>2. b = M - w
    <3>1. m - 1 - q \in Nat
      BY <1>1
    <3>2. w * (m - 1 - q) = w * m - w - q * w
      BY <1>4
    <3>3. w * (m - 1 - q) = M - w - b
      BY <1>1, <3>2
    <3>4. w * (m - 1 - q) = 0
      BY <1>7, <3>1, <3>3, MultipleBelow
    <3>5. M \in Nat
      BY Widths
    <3> QED BY <3>3, <3>4, <3>5
  <2>3. M \in Nat
    BY Widths
  <2> QED BY <2>1, <2>2, <2>3
<1>8. a - b \in {w, w - M}
  <2>1. a - b = w \/ a - b = w - M
    BY <1>3, <1>6, <1>7
  <2> QED BY <2>1
<1>9. Wrap(a - b) = w
  BY <1>8, WrapCut
<1>10. u - (b + r) = a - b
  BY <1>2, Widths
<1> QED BY <1>1, <1>2, <1>9, <1>10

(* A reset that cuts the write of the time leaves the calendar where it    *)
(* is, or takes it back by what the first byte not written counts, and     *)
(* that only if this byte was to change.                                   *)
THEOREM CutIsClose == Spec => CutWriteClose
<1> DEFINE Back(w) == /\ stored \div w # Count \div w
                      /\ Wrap(now - now') = w
           Close == now' = now \/ \E w \in Cuts : Back(w)
<1>1. ASSUME RtcInv, ResetInWrite, ~passed
      PROVE  Close
  <2>1. TypeOK /\ CountsTrue /\ pc = "callback" /\ Fired
    BY <1>1 DEF RtcInv, AlarmKept, ResetInWrite
  <2>2. PICK w \in Cuts : now' = (stored \div w) * w + (Count % w)
    BY <1>1 DEF ResetInWrite, Boot
  <2>3. Count = now
    BY <2>1, CountIsNow
  <2>4. stored \in Time /\ now \in Time
    BY <2>1 DEF TypeOK
  <2>5. /\ w \in Nat /\ w > 0 /\ w < M /\ PERIOD + 1 \in 0 .. w
        /\ \E m \in Nat : M = w * m
    BY CutIsPart, Widths
  <2>6. now = Wrap(stored + (PERIOD + 1))
    BY <2>1, Widths DEF Fired, TypeOK, Time
  <2>7. CASE stored \div w = now \div w
    <3>1. now = (now \div w) * w + (now % w)
      BY <2>4, <2>5, PartsOfTime
    <3> QED BY <2>2, <2>3, <2>7, <3>1
  <2>8. CASE stored \div w # now \div w
    <3>1. Wrap(now - ((stored \div w) * w + (now % w))) = w
      BY <2>4, <2>5, <2>6, <2>8, PartsClose
    <3> QED BY <2>2, <2>3, <2>8, <3>1
  <2> QED BY <2>7, <2>8
<1>2. RtcInv /\ [Next]_vars => [ResetInWrite /\ ~passed => Close]_vars
  BY <1>1
<1> QED BY <1>2, RtcInvariant, PTL DEF Spec, CutWriteClose

-------------------------------------------------------------------------------
(* The age of a measurement in units, for every list of them.              *)

(* Division by one unit after the other.                                   *)
Nests(t, l, d, m) ==
    l > 0 /\ d > 0 /\ m = d * l => t \div l = d * (t \div m) + ((t \div l) % d)

LEMMA NestedDiv ==
    ASSUME NEW t \in Nat, NEW l \in Nat, NEW d \in Nat, NEW m \in Nat
    PROVE  Nests(t, l, d, m)
<1> SUFFICES ASSUME l > 0, d > 0, m = d * l
             PROVE  t \div l = d * (t \div m) + ((t \div l) % d)
  BY DEF Nests
<1>1. PICK q \in Nat, r \in 0 .. l - 1 :
          q = t \div l /\ r = t % l /\ t = l * q + r
  BY Divide
<1>2. PICK p \in Nat, s \in 0 .. d - 1 :
          p = q \div d /\ s = q % d /\ q = d * p + s
  BY Divide
<1>3. m > 0
  BY ProductPositive
<1>4. PICK z \in 0 .. m - 1 : z = l * s + r
  <2>1. s \in Nat /\ d - 1 - s \in Nat
    OBVIOUS
  <2>2. PICK k \in Nat : d = s + 1 + k
    <3>1. d = s + 1 + (d - 1 - s)
      BY <2>1
    <3> QED BY <2>1, <3>1
  <2>3. (s + 1 + k) * l = l * s + l + k * l /\ k * l \in Nat /\ l * s \in Nat
    BY <2>1
  <2>4. m = l * s + l + k * l
    BY <2>2, <2>3
  <2>5. l * s + r \in 0 .. m - 1
    BY <2>3, <2>4
  <2> QED BY <2>5
<1>5. t = m * p + z
  <2>1. l * (d * p + s) = (d * l) * p + l * s
    BY <1>2
  <2> QED BY <1>1, <1>2, <1>4, <2>1
<1>6. t \div m = p
  <2>1. /\ t % m \in 0 .. m - 1 /\ t \div m \in Int
        /\ t = m * (t \div m) + (t % m)
    BY <1>3, DivMod
  <2> QED BY <1>3, <1>4, <1>5, <2>1, RemainderUnique
<1> QED BY <1>1, <1>2, <1>6

(* An age below what the display calls a month is shown to the last but    *)
(* one unit, cut and not rounded.                                          *)
LEMMA ShownAge ==
    ASSUME NEW t \in Nat, t < Length(Months)
    PROVE  Meant(AgeOf(t)) \in t - Length(AgeOf(t).unit) + 1 .. t
<1> DEFINE i == Named(t)
           l == Length(i)
           d == div_for_time[i]
           most == t \div Length(i + 1)
           sub == (t \div l) % d
<1>1. i \in 0 .. 2 /\ most < div_for_time[i + 1]
  <2>1. Fits(t, 2)
    <3>1. PICK e \in Nat, n \in Nat : /\ e = div_for_time[3] /\ n = Length(3)
                                      /\ e > 0 /\ n > 0 /\ Length(4) = e * n
      BY LengthIs
    <3>2. PICK q \in Nat, r \in 0 .. n - 1 :
              q = t \div n /\ r = t % n /\ t = n * q + r
      BY <3>1, Divide
    <3>3. ASSUME q >= e PROVE FALSE
      <4>1. PICK k \in Nat : q = e + k
        <5>1. q - e \in Nat /\ q = e + (q - e)
          BY <3>1, <3>3
        <5> QED BY <5>1
      <4>2. n * (e + k) = e * n + k * n /\ k * n \in Nat
        BY <3>1, <4>1
      <4>3. n * q = n * (e + k)
        BY <4>1
      <4>4. PICK y \in Nat, x \in Nat : y = k * n /\ x = e * n /\ x = Length(4)
        BY <3>1, <4>2, LengthIs
      <4>5. t = x + y + r
        BY <3>2, <4>2, <4>3, <4>4
      <4>6. t < x
        BY <4>4 DEF Months
      <4> QED BY <4>4, <4>5, <4>6
    <3>4. q < e /\ q = t \div n /\ n = Length(3) /\ e = div_for_time[3]
      <4>1. q < e
        BY <3>3
      <4>2. q = t \div n
        BY <3>2, Zenon
      <4>3. n = Length(3) /\ e = div_for_time[3]
        BY <3>1, Zenon
      <4> QED BY <4>1, <4>2, <4>3
    <3>5. t \div Length(3) < div_for_time[3] /\ 2 + 1 = 3
      BY <3>4
    <3> QED BY <3>5 DEF Fits
  <2> DEFINE fit == {j \in Divided : Fits(t, j)}
  <2>2. 2 \in fit /\ fit \subseteq 0 .. 2
    BY <2>1 DEF Divided, Seconds, Months
  <2>3. Min(fit) \in fit
    <3> HIDE DEF fit
    <3>1. \E x \in fit : \A y \in fit : x <= y
      <4>1. CASE 0 \in fit
        BY <2>2, <4>1
      <4>2. CASE 0 \notin fit /\ 1 \in fit
        BY <2>2, <4>2
      <4>3. CASE 0 \notin fit /\ 1 \notin fit
        BY <2>2, <4>3
      <4> QED BY <4>1, <4>2, <4>3
    <3> QED BY <3>1 DEF Min
  <2>4. i = Min(fit)
    BY <2>2 DEF Named
  <2> HIDE DEF fit
  <2>5. i \in fit
    BY <2>3, <2>4
  <2> QED BY <2>2, <2>5 DEF fit, Fits
<1>2. /\ l \in Nat /\ l > 0 /\ d \in 1 .. 100 /\ Length(i + 1) = d * l
      /\ div_for_time[i + 1] \in 1 .. 100
  BY <1>1, LengthIs
<1>3. /\ most \in Nat /\ t \div l \in Nat /\ sub \in Nat
      /\ t \div l = d * most + sub
      /\ l * (t \div l) \in t - l + 1 .. t
  <2> HIDE DEF l, d, most, sub
  <2>1. d \in Nat /\ d > 0
    BY <1>2
  <2>2. PICK m \in Nat : m = Length(i + 1) /\ m > 0 /\ m = d * l
    BY <1>2, <2>1, ProductPositive
  <2>3. most = t \div m /\ sub = (t \div l) % d
    BY <2>2 DEF most, sub
  <2>4. PICK q \in Nat, r \in 0 .. l - 1 :
            q = t \div l /\ r = t % l /\ t = l * q + r
    BY <1>2, Divide
  <2>5. sub \in Nat /\ most \in Nat
    BY <2>1, <2>2, <2>3, <2>4, DivMod, QuotientNatural
  <2>6. t \div l = d * (t \div m) + ((t \div l) % d)
    <3>1. Nests(t, l, d, m)
      BY <1>2, <2>1, NestedDiv
    <3> QED BY <1>2, <2>1, <2>2, <3>1 DEF Nests
  <2> QED BY <1>2, <2>3, <2>4, <2>5, <2>6
<1>4. AgeOf(t) = [time |-> most, subtime |-> sub, unit |-> i]
  <2>1. i \in Divided /\ ~(most > 99)
    BY <1>1, <1>2, <1>3 DEF Divided, Seconds, Months
  <2> QED BY <2>1 DEF AgeOf
<1>5. Meant(AgeOf(t)) = most * Length(i + 1) + sub * l
  BY <1>4 DEF Meant
<1> HIDE DEF i, l, d, most, sub
<1>6. most * (d * l) + sub * l = l * (d * most + sub)
  BY <1>2, <1>3
<1>7. Meant(AgeOf(t)) = l * (t \div l)
  BY <1>2, <1>3, <1>5, <1>6
<1>8. AgeOf(t).unit = i
  BY <1>4
<1> QED BY <1>3, <1>7, <1>8 DEF l

-------------------------------------------------------------------------------
(* The age of a measurement, across resets of the clock it was stamped by. *)

(* Round: the two times are apart by the age, in the calendar's own        *)
(* arithmetic.  Recent: what a reset may take from the age is never more   *)
(* than has been saved, and next to nothing more than that has gone by.    *)
AgeTypes == entry \in Time /\ age \in Int /\ age <= AGE_BOUND
Round == age < AGE_BOUND => \E k \in Int : now - entry = M * k + age
Recent == /\ ~excused => 0 <= age + PERIOD + 1
          /\ ~excused /\ ~passed => Lag <= age + PERIOD + 1

AgeInv == RtcInv /\ AgeTypes /\ Round /\ Recent

(* Wrap takes away a number of calendars.                                  *)
LEMMA WrapTakes ==
    ASSUME NEW a \in Int
    PROVE  Wrap(a) \in Time /\ \E k \in Int : a = M * k + Wrap(a)
<1>1. M \in Nat /\ M > 0 /\ Wrap(a) = a % M
  BY Widths DEF Wrap, M
<1>2. a % M \in 0 .. M - 1 /\ a \div M \in Int /\ a = M * (a \div M) + (a % M)
  BY <1>1, DivMod
<1> QED BY <1>1, <1>2 DEF Time

LEMMA InitAgeInv == InitAge => AgeInv
<1> SUFFICES ASSUME InitAge PROVE AgeInv
  OBVIOUS
<1>1. RtcInv /\ now = stored /\ stored \in Time
  BY InitRtcInv DEF InitAge, Init, Booted, RtcInv, TypeOK
<1>2. AgeTypes
  BY <1>1, BoundAssumption DEF InitAge, AgeTypes
<1>3. now - entry = M * 0 + age
  BY <1>1, Widths DEF InitAge, Time
<1>4. Lag = 0
  BY <1>1, WrapIs, Widths DEF Lag, Behind, Time
<1>5. Round /\ Recent
  BY <1>3, <1>4, Widths DEF InitAge, Round, Recent
<1> QED BY <1>1, <1>2, <1>5 DEF AgeInv

LEMMA MeasuredInv ==
    ASSUME AgeInv, Measured
    PROVE  AgeInv'
<1>1. RtcInv'
  BY NextRtcInv DEF Measured, AgeInv
<1>2. entry' = now /\ now' = now /\ now \in Time /\ age' = 0
  BY TimeRead DEF Measured, Stamp, AgeInv, RtcInv, TypeOK, vars
<1>3. AgeTypes'
  BY <1>2, BoundAssumption DEF Measured, AgeTypes
<1>4. now' - entry' = M * 0 + age'
  BY <1>2, Widths DEF Time
<1>5. StoredRecent'
  BY <1>1, StoredIsRecent, PTL
<1>6. Round'
  BY <1>4 DEF Round
<1>7. Recent'
  <2>1. 0 <= age' + PERIOD + 1
    BY <1>2, Widths
  <2>2. ~passed' => Lag' <= age' + PERIOD + 1
    BY <1>2, <1>5, Widths DEF StoredRecent
  <2> QED BY <2>1, <2>2 DEF Recent
<1> QED BY <1>1, <1>3, <1>6, <1>7 DEF AgeInv

LEMMA TickAgeInv ==
    ASSUME AgeInv, TickAge
    PROVE  AgeInv'
<1>1. /\ RtcInv' /\ now \in Time /\ stored \in Time
      /\ now' = Wrap(now + 1) /\ stored' = stored /\ passed' = passed
      /\ entry' = entry /\ (excused' <=> excused) /\ entry \in Time
  BY NextRtcInv DEF TickAge, Tick, Next, AgeInv, AgeTypes, RtcInv, TypeOK
<1>2. /\ age \in Int /\ age <= AGE_BOUND
      /\ age' = IF age + 1 > AGE_BOUND THEN AGE_BOUND ELSE age + 1
  BY DEF AgeInv, AgeTypes, TickAge, Older
<1>3. age' \in Int /\ age' >= age /\ age' <= AGE_BOUND
  BY <1>2, BoundAssumption
<1>4. Round'
  <2>1. SUFFICES ASSUME age' < AGE_BOUND
                 PROVE  \E k \in Int : now' - entry' = M * k + age'
    BY DEF Round
  <2>2. age < AGE_BOUND /\ age' = age + 1
    BY <1>2, <2>1, BoundAssumption
  <2>3. PICK k \in Int : now - entry = M * k + age
    BY <2>2 DEF AgeInv, Round
  <2>4. PICK j \in Int : now + 1 = M * j + now'
    BY <1>1, WrapTakes DEF Time
  <2>5. M * (k - j) = M * k - M * j /\ k - j \in Int
    BY <2>3, <2>4, Widths
  <2>6. now' - entry' = M * (k - j) + age' 
    <3>1. now' \in Time
      BY <1>1, WrapTakes DEF Time
    <3> QED BY <1>1, <1>2, <2>2, <2>3, <2>4, <2>5, <3>1, Widths DEF Time
  <2> QED BY <2>5, <2>6
<1>5. Recent'
  <2>1. ~excused' => 0 <= age' + PERIOD + 1
    BY <1>1, <1>2, <1>3, Widths DEF AgeInv, Recent
  <2>2. ASSUME ~excused', ~passed' PROVE Lag' <= age' + PERIOD + 1
    <3>1. Lag' \in 0 .. PERIOD + 1 /\ Lag \in 0 .. PERIOD + 1
      <4>1. StoredRecent /\ StoredRecent'
        BY <1>1, StoredIsRecent, PTL DEF AgeInv
      <4> QED BY <1>1, <2>2, <4>1 DEF StoredRecent
    <3>2. Lag' <= Lag + 1
      <4>1. Lag = Wrap(now - stored) /\ Lag' = Wrap(now' - stored)
        BY <1>1 DEF Lag, Behind
      <4>2. now' = IF now + 1 < M THEN now + 1 ELSE 0
        BY <1>1, WrapIs, Widths DEF Time
      <4>3. /\ now - stored \in Int /\ -M <= now - stored /\ now - stored < M
            /\ now' - stored \in Int /\ -M <= now' - stored /\ now' - stored < M
        BY <1>1, <4>2, Widths DEF Time
      <4>4. /\ Lag = IF now - stored < 0 THEN now - stored + M ELSE now - stored
            /\ Lag' = IF now' - stored < 0 THEN now' - stored + M ELSE now' - stored
        BY <4>1, <4>3, WrapIs, Widths DEF Time
      <4> QED BY <1>1, <4>2, <4>4, Widths DEF Time
    <3>3. Lag <= age + PERIOD + 1
      BY <1>1, <2>2 DEF AgeInv, Recent
    <3>4. PICK later \in Nat, sooner \in Nat :
              later = Lag' /\ sooner = Lag /\ later <= sooner + 1 /\ later <= PERIOD + 1
      BY <3>1, <3>2, Widths
    <3>5. later <= age' + PERIOD + 1
      BY <1>2, <3>3, <3>4, Widths, BoundAssumption
    <3> QED BY <3>4, <3>5
  <2> QED BY <2>1, <2>2 DEF Recent
<1> QED BY <1>1, <1>3, <1>4, <1>5 DEF AgeInv, AgeTypes

LEMMA InterruptAgeInv ==
    ASSUME AgeInv, InterruptAge
    PROVE  AgeInv'
<1>1. RtcInv'
  BY NextRtcInv DEF InterruptAge, Next, AgeInv
<1>2. /\ now' = now /\ (passed => passed') /\ now \in Time
      /\ entry' = entry /\ age' = age /\ (excused' <=> excused)
  BY DEF InterruptAge, Overflow, Compare, Callback, SetAlarm, AgeInv, RtcInv, TypeOK
<1>3. AgeTypes' /\ Round'
  BY <1>2 DEF AgeInv, AgeTypes, Round
<1>4. ~passed' => Lag' \in {Lag, 0}
  <2>1. CASE Overflow \/ Compare \/ SetAlarm
    <3>1. stored' = stored
      BY <2>1 DEF Overflow, Compare, SetAlarm
    <3> QED BY <1>2, <3>1 DEF Lag, Behind
  <2>2. CASE Callback
    <3>1. ~passed' => stored' = now
      BY <2>2, CountIsNow DEF Callback, AgeInv, RtcInv, AlarmKept
    <3>2. Wrap(now - now) = 0
      BY <1>2, WrapIs, Widths DEF Time
    <3> QED BY <1>2, <3>1, <3>2 DEF Lag, Behind
  <2> QED BY <2>1, <2>2 DEF InterruptAge
<1>5. Recent'
  <2>1. age \in Int
    BY DEF AgeInv, AgeTypes
  <2> QED BY <1>2, <1>4, <2>1, Widths DEF AgeInv, Recent
<1> QED BY <1>1, <1>3, <1>5 DEF AgeInv

LEMMA ResetAgeInv ==
    ASSUME AgeInv, ResetAge
    PROVE  AgeInv'
<1> DEFINE back == Wrap(now - stored')
<1>1. /\ now \in Time /\ entry \in Time /\ entry' = entry
      /\ age \in Int /\ age < AGE_BOUND
      /\ age' = IF age + (-back) > AGE_BOUND THEN AGE_BOUND ELSE age + (-back)
  BY DEF ResetAge, Older, AgeInv, AgeTypes, RtcInv, TypeOK
<1>2. RtcInv' /\ now' = stored' /\ stored' \in Time
  <2>1. Next
    BY DEF ResetAge, Next
  <2>2. RtcInv'
    BY <2>1, NextRtcInv DEF AgeInv
  <2>3. now' = stored'
    BY DEF ResetAge, Reset, ResetInWrite, Boot
  <2> QED BY <2>2, <2>3 DEF RtcInv, TypeOK
<1>3. PICK j \in Int : now - stored' = M * j + back
  BY <1>1, <1>2, WrapTakes DEF Time
<1>4. back \in Time /\ age' = age - back /\ age' <= AGE_BOUND
  <2>1. back \in Time
    BY <1>1, <1>2, WrapTakes DEF Time
  <2> HIDE DEF back
  <2> QED BY <1>1, <2>1, Widths, BoundAssumption DEF Time
<1>5. Round'
  <2>1. PICK k \in Int : now - entry = M * k + age
    BY <1>1 DEF AgeInv, Round
  <2>2. M * (k - j) = M * k - M * j /\ k - j \in Int
    BY <1>3, <2>1, Widths
  <2> HIDE DEF back
  <2>3. PICK x \in Int, y \in Int : x = M * k /\ y = M * j /\ M * (k - j) = x - y
    BY <1>3, <2>1, <2>2, Widths
  <2>4. PICK z \in Int : z = back /\ now - stored' = y + z /\ age' = age - z
    BY <1>3, <1>4, <2>3 DEF Time
  <2>5. now - entry = x + age
    BY <2>1, <2>3
  <2>6. stored' - entry = x - y + age'
    <3>1. PICK n \in Int, s \in Int, e \in Int, a \in Int, b \in Int :
              n = now /\ s = stored' /\ e = entry /\ a = age /\ b = age'
      BY <1>1, <1>2, <1>4, <2>4 DEF Time
    <3>2. n - s = y + z /\ n - e = x + a /\ b = a - z
      BY <2>4, <2>5, <3>1
    <3>3. s - e = x - y + b
      BY <3>2
    <3> QED BY <3>1, <3>3
  <2>7. now' - entry' = M * (k - j) + age'
    BY <1>1, <1>2, <2>3, <2>6
  <2> QED BY <2>2, <2>7 DEF Round
<1>6. Recent'
  <2>1. Lag' = 0
    <3>1. Wrap(now' - now') = 0 
      BY <1>2, WrapIs, Widths DEF Time
    <3> QED BY <1>2, <3>1 DEF Lag, Behind
  <2>2. ASSUME ~excused' PROVE 0 <= age' + PERIOD + 1
    <3>1. stored' = stored /\ ~excused /\ ~passed
      BY <2>2 DEF ResetAge, Reset, Boot
    <3>2. back = Lag
      BY <3>1 DEF Lag, Behind
    <3>3. Lag <= age + PERIOD + 1
      BY <3>1 DEF AgeInv, Recent
    <3> HIDE DEF back
    <3>4. PICK z \in Nat : z = back /\ z <= age + PERIOD + 1 /\ age' = age - z
      BY <1>4, <3>2, <3>3, Widths DEF Time
    <3> QED BY <1>1, <3>4, Widths
  <2>3. age' \in Int
    BY <1>1, <1>4 DEF Time
  <2> QED BY <2>1, <2>2, <2>3 DEF Recent
<1>7. AgeTypes'
  BY <1>1, <1>4 DEF AgeTypes, Time
<1> QED BY <1>2, <1>5, <1>6, <1>7 DEF AgeInv

LEMMA NextAgeInv == AgeInv /\ [NextAge]_ageVars => AgeInv'
<1>1. ASSUME AgeInv, UNCHANGED ageVars PROVE AgeInv'
  <2>1. RtcInv'
    BY <1>1, NextRtcInv DEF AgeInv, ageVars
  <2>2. Lag' = Lag
    BY <1>1 DEF ageVars, vars, Lag, Behind
  <2> QED BY <1>1, <2>1, <2>2 DEF ageVars, vars, AgeInv, AgeTypes, Round, Recent
<1> QED BY <1>1, MeasuredInv, TickAgeInv, InterruptAgeInv, ResetAgeInv DEF NextAge

(* The age of a measurement is shown to the last but one unit, up to what  *)
(* the display calls a month, and it is negative by no more than a period  *)
(* and a second, unless a reset cut the write of the time or the alarm of  *)
(* the last second of the calendar was lost.                               *)
THEOREM AgeIsHonest == SpecAge => []AgeHonest
<1>1. ASSUME AgeInv, age \in 0 .. AGE_BOUND - 1, age < Length(Months)
      PROVE  Meant(Displayed) \in age - Length(Displayed.unit) + 1 .. age
  <2>1. PICK k \in Int : now - entry = M * k + age
    BY <1>1, BoundAssumption DEF AgeInv, Round
  <2>2. age \in 0 .. M - 1
    <3>1. Length(Months) \in Nat
      BY LengthIs DEF Months
    <3> QED BY <1>1, <3>1, MonthAssumption, Widths DEF M
  <2>3. GetTime = now /\ now \in Time /\ entry \in Time
    BY <1>1, TimeRead DEF AgeInv, AgeTypes, RtcInv, TypeOK
  <2>4. Wrap(now - entry) = age
    <3>1. (now - entry) % M = age
      BY <2>1, <2>2, <2>3, Widths, ModIs DEF Time
    <3> QED BY <3>1 DEF Wrap, M
  <2>5. Displayed = AgeOf(age) /\ age \in Nat
    BY <2>2, <2>3, <2>4 DEF Displayed
  <2> QED BY <1>1, <2>5, ShownAge
<1>2. AgeInv => AgeHonest
  <2>1. AgeInv /\ ~excused => age >= -(PERIOD + 1)
    BY Widths DEF AgeInv, AgeTypes, Recent
  <2> QED BY <1>1, <2>1 DEF AgeHonest
<1> QED BY <1>2, InitAgeInv, NextAgeInv, PTL DEF SpecAge
===============================================================================
