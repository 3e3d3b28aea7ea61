----------------------------- MODULE SleepProofs ------------------------------
(***************************************************************************)
(* Proofs about Sleep and the converter, for every number of conversions   *)
(* of a loop: the statements around the sleep, whatever interrupts fall    *)
(* between them; and that each reading is that of the input asked for.     *)
(***************************************************************************)
EXTENDS Sleep, TLAPS

StartUp == {"rtc", "pmic", "ad", "uart", "ports"}
PC == StartUp \cup {"loop", "scan_key", "charging", "level", "measuring", "key",
                    "clear", "high", "sleep_enable", "sleep_enter", "woken"}

Types ==
    /\ pc \in PC
    /\ {irq, sen, asleep, key_down, plugged, is_charging, pointer_set,
        late_press, late_plug} \subseteq BOOLEAN

(* The registers follow the statement that main has come to: all is set up *)
(* when the loop begins, and the high level is enabled only around the     *)
(* sleep, when the keys have been scanned at least once.                   *)
Registers ==
    /\ pc \notin StartUp \ {"ports"} => irq
    /\ pc \notin StartUp => {"key", "charger"} \subseteq sources
    /\ "HIGH" \in levels <=> pc \in {"sleep_enable", "sleep_enter", "woken"}
    /\ pc \notin StartUp \cup {"loop", "scan_key"} => pointer_set
    /\ asleep => pc = "woken"

(* The key was up when it was looked at, so until sleep_enable a pressed   *)
(* key came late; after it, the flag of the press is still there, or its   *)
(* handler has taken the permission to sleep away.                         *)
KeySeen ==
    /\ pc \in {"clear", "high", "sleep_enable"} /\ key_down => late_press
    /\ (pc = "sleep_enter" /\ sen) \/ asleep =>
           (key_down => late_press \/ "key" \in flags)

(* So with the charger, which was sampled earlier.                         *)
ChargerSeen ==
    /\ pc = "level" /\ ~is_charging /\ plugged => late_plug
    /\ pc \in {"key", "clear", "high", "sleep_enable"} /\ plugged => late_plug
    /\ (pc = "sleep_enter" /\ sen) \/ asleep =>
           (plugged => late_plug \/ "charger" \in flags)

SleepInv == Types /\ Registers /\ KeySeen /\ ChargerSeen

-------------------------------------------------------------------------------
(* A reset leaves main before its first statement, every level disabled.   *)
LEMMA InitSleepInv == Init => SleepInv
BY DEF Init, SleepInv, Types, Registers, KeySeen, ChargerSeen, PC, StartUp

(* Every statement of main, and every interrupt between two of them, keeps *)
(* the invariant.                                                          *)
LEMMA NextSleepInv == SleepInv /\ [Next]_vars => SleepInv'
<1> SUFFICES ASSUME SleepInv, [Next]_vars PROVE SleepInv'
  OBVIOUS
<1> USE DEF SleepInv, Types, Registers, KeySeen, ChargerSeen, PC, StartUp, pins, main
<1>1. CASE RtcInit
  BY <1>1 DEF RtcInit, At
<1>2. CASE EnableLevel
  BY <1>2 DEF EnableLevel, At
<1>3. CASE InitAd
  BY <1>3 DEF InitAd, At
<1>4. CASE UARTD0_init
  BY <1>4 DEF UARTD0_init, At
<1>5. CASE Ports
  BY <1>5 DEF Ports, At
<1>6. CASE NewCircle
  BY <1>6 DEF NewCircle, At
<1>7. CASE ScanKey
  BY <1>7 DEF ScanKey, At
<1>8. CASE Sample
  BY <1>8 DEF Sample, At
<1>9. CASE Measure
  BY <1>9 DEF Measure, At
<1>10. CASE EndCircle
  BY <1>10 DEF EndCircle, At
<1>11. CASE Off
  BY <1>11 DEF Off, At
<1>12. CASE CheckKey
  BY <1>12 DEF CheckKey, At
<1>13. CASE ClearFlag
  BY <1>13 DEF ClearFlag, At
<1>14. CASE EnableHigh
  BY <1>14 DEF EnableHigh, At
<1>15. CASE SleepEnable
  BY <1>15 DEF SleepEnable, At
<1>16. CASE SleepEnter
  BY <1>16 DEF SleepEnter, At
<1>17. CASE DisableHigh
  BY <1>17 DEF DisableHigh, At
<1>18. CASE Convert
  BY <1>18 DEF Convert
<1>19. ASSUME NEW source \in Sources, Interrupt(source) PROVE SleepInv'
  BY <1>19 DEF Interrupt, Sources
<1>20. CASE Press
  BY <1>20 DEF Press, Raise
<1>21. CASE Release
  BY <1>21 DEF Release
<1>22. CASE Plug
  BY <1>22 DEF Plug, Raise
<1>23. CASE Receive
  BY <1>23 DEF Receive, Raise
<1>24. CASE Alarm
  BY <1>24 DEF Alarm, Raise
<1>25. CASE Converted
  BY <1>25 DEF Converted
<1>26. CASE UNCHANGED vars
  BY <1>26 DEF vars
<1> QED BY <1>1, <1>2, <1>3, <1>4, <1>5, <1>6, <1>7, <1>8, <1>9, <1>10,
        <1>11, <1>12, <1>13, <1>14, <1>15, <1>16, <1>17, <1>18, <1>19, <1>20,
        <1>21, <1>22, <1>23, <1>24, <1>25, <1>26 DEF Next, Main

(* The handler of the power key never finds its pointer unset: its level   *)
(* is enabled for the first time after the keys were scanned.              *)
THEOREM PointerIsSet == FairSpec => []PointerSet
<1>1. SleepInv => PointerSet
  BY DEF SleepInv, Registers, StartUp, PointerSet, Served, Level
<1> QED BY <1>1, InitSleepInv, NextSleepInv, PTL DEF FairSpec

(* Whatever falls between the statements that lead to the sleep, the       *)
(* device sleeps on a press of the key, or on a charger, only if it came   *)
(* in the few statements before sleep_enable, or after the sampling.       *)
THEOREM NothingSleptThrough == FairSpec => []SleepsThrough
<1>1. SleepInv => SleepsThrough
  <2> SUFFICES ASSUME SleepInv, asleep, Served = {}
               PROVE  /\ key_down => late_press
                      /\ plugged => late_plug
    BY DEF SleepsThrough
  <2>1. /\ pc = "woken" /\ irq /\ "HIGH" \in levels
        /\ {"key", "charger"} \subseteq sources
    BY DEF SleepInv, Registers, StartUp
  <2>2. "key" \notin flags /\ "charger" \notin flags
    BY <2>1 DEF Served, Level
  <2> QED BY <2>2 DEF SleepInv, KeySeen, ChargerSeen
<1> QED BY <1>1, InitSleepInv, NextSleepInv, PTL DEF FairSpec

-------------------------------------------------------------------------------
(* The converter.  Which call may come after which in the programs.        *)
Calls == Channels \cup {"drop", "enable", "ensure", "start", "wait", "disable"}

Follows ==
    {<<"drop", "dust">>, <<"dust", "enable">>, <<"light", "enable">>,
     <<"battery", "ensure">>, <<"enable", "start">>, <<"enable", "ensure">>,
     <<"ensure", "start">>, <<"start", "wait">>, <<"wait", "start">>,
     <<"wait", "ensure">>, <<"wait", "disable">>, <<"disable", "light">>}

Chained(calls) ==
    /\ calls \in Seq(Calls)
    /\ \A i \in 1 .. Len(calls) - 1 : <<calls[i], calls[i + 1]>> \in Follows

(* A part of a program, from one call to another.                          *)
Part(calls, first, last) ==
    Chained(calls) /\ calls # <<>> /\ calls[1] = first /\ calls[Len(calls)] = last

(* A program, or what is left of it, ends by switching the converter off.  *)
Runs(calls) == Chained(calls) /\ (calls # <<>> => calls[Len(calls)] = "disable")

ConverterOff == adca_enable_count = 0 /\ ~clocked /\ ~enabled /\ ~flag /\ converting = Idle
ConverterOn == adca_enable_count = 1 /\ clocked /\ enabled
Nothing == ~flag /\ converting = Idle       \* converted or being converted
Selected == setting = <<asked, Reference(asked)>>
Pending == \/ ~flag /\ converting = setting
           \/ flag /\ converting = Idle /\ res = setting

(* The call that comes next tells the state of the converter.              *)
Ready ==
    /\ todo = <<>> => ConverterOff
    /\ todo # <<>> =>
        /\ Head(todo) \in Channels \cup {"drop", "enable"} => ConverterOff
        /\ Head(todo) \in {"ensure"} => ConverterOff \/ (ConverterOn /\ Nothing)
        /\ Head(todo) \in {"start", "disable"} => ConverterOn /\ Nothing
        /\ Head(todo) = "wait" => ConverterOn /\ Pending
        /\ Head(todo) \in {"enable", "ensure", "start", "wait"} => Selected

AdcTypes == {clocked, enabled, flag} \subseteq BOOLEAN

AdcInv ==
    /\ AdcTypes
    /\ Runs(todo)
    /\ pc \notin {"level", "measuring"} => todo = <<>>
    /\ Ready

-------------------------------------------------------------------------------
(* Programs are put together of parts.                                     *)
LEMMA PartConcat ==
    ASSUME NEW s, NEW t, NEW a, NEW b, NEW c, NEW d,
           Part(s, a, b), Part(t, c, d), <<b, c>> \in Follows
    PROVE  Part(s \o t, a, d)
<1> DEFINE u == s \o t
<1>1. /\ s \in Seq(Calls) /\ t \in Seq(Calls) /\ u \in Seq(Calls)
      /\ Len(u) = Len(s) + Len(t)
      /\ Len(s) \in Nat \ {0} /\ Len(t) \in Nat \ {0}
      /\ \A i \in 1 .. Len(s) + Len(t) : u[i] = IF i <= Len(s) THEN s[i] ELSE t[i - Len(s)]
  BY DEF Part, Chained
<1> HIDE DEF u
<1>2. ASSUME NEW i \in 1 .. Len(u) - 1 PROVE <<u[i], u[i + 1]>> \in Follows
  <2>1. CASE i < Len(s)
    <3>1. i \in 1 .. Len(s) - 1 /\ i <= Len(s) /\ i + 1 <= Len(s)
          /\ i \in 1 .. Len(s) + Len(t) /\ i + 1 \in 1 .. Len(s) + Len(t)
      BY <1>1, <2>1
    <3>2. u[i] = s[i] /\ u[i + 1] = s[i + 1]
      BY <1>1, <3>1
    <3> QED BY <3>1, <3>2 DEF Part, Chained
  <2>2. CASE i = Len(s)
    <3>1. i \in 1 .. Len(s) + Len(t) /\ i + 1 \in 1 .. Len(s) + Len(t)
      BY <1>1
    <3>2. ~(i + 1 <= Len(s)) /\ (i + 1) - Len(s) = 1
      BY <1>1, <2>2
    <3>3. u[i] = s[Len(s)] /\ u[i + 1] = t[1]
      BY <1>1, <2>2, <3>1, <3>2
    <3> QED BY <3>3 DEF Part
  <2>3. CASE i > Len(s)
    <3>1. /\ i \in 1 .. Len(s) + Len(t) /\ i + 1 \in 1 .. Len(s) + Len(t)
          /\ ~(i <= Len(s)) /\ ~(i + 1 <= Len(s))
          /\ i - Len(s) \in 1 .. Len(t) - 1
          /\ (i + 1) - Len(s) = (i - Len(s)) + 1
      BY <1>1, <2>3
    <3>2. u[i] = t[i - Len(s)] /\ u[i + 1] = t[(i - Len(s)) + 1]
      BY <1>1, <3>1
    <3> QED BY <3>1, <3>2 DEF Part, Chained
  <2> QED BY <1>1, <2>1, <2>2, <2>3
<1>3. Chained(u) /\ u # <<>> /\ u[1] = s[1] /\ u[Len(u)] = t[Len(t)]
  BY <1>1, <1>2 DEF Chained
<1> QED BY <1>3 DEF Part, u

(* A loop begins with its first call and ends with its last.               *)
LEMMA RepeatPair ==
    ASSUME NEW n \in Nat, n > 0, NEW a \in Calls, NEW b \in Calls,
           <<a, b>> \in Follows, <<b, a>> \in Follows,
           NEW calls, calls = <<a, b>>
    PROVE  Part(Repeat(n, calls), a, b)
<1> DEFINE r == Repeat(n, calls)
<1>1. \A j \in Nat : /\ j % 2 \in 0 .. 1
                     /\ j % 2 = 0 => (j + 1) % 2 = 1
                     /\ j % 2 = 1 => (j + 1) % 2 = 0
  OBVIOUS
<1>2. r = [i \in 1 .. 2 * n |-> <<a, b>>[((i - 1) % 2) + 1]]
  BY DEF Repeat
<1>3. ASSUME NEW i \in 1 .. 2 * n
      PROVE  <<a, b>>[((i - 1) % 2) + 1] = IF (i - 1) % 2 = 0 THEN a ELSE b
  <2>1. i - 1 \in Nat
    OBVIOUS
  <2>3. PICK m \in 0 .. 1 : m = (i - 1) % 2
    BY <1>1, <2>1
  <2>2. <<a, b>>[m + 1] = IF m = 0 THEN a ELSE b
    OBVIOUS
  <2> QED BY <2>2, <2>3, Zenon
<1>4. r = [i \in 1 .. 2 * n |-> IF (i - 1) % 2 = 0 THEN a ELSE b]
  BY <1>2, <1>3
<1> HIDE DEF r
<1>5. r \in Seq(Calls) /\ Len(r) = 2 * n
  <2>1. 2 * n \in Nat
    OBVIOUS
  <2> QED BY <1>4, <2>1
<1>6. (2 * n - 1) % 2 = 1
  <2>1. \A k \in Nat : (2 * k + 1) % 2 = 1
    OBVIOUS
  <2>2. n - 1 \in Nat /\ 2 * n - 1 = 2 * (n - 1) + 1
    OBVIOUS
  <2> QED BY <2>1, <2>2
<1>7. r # <<>> /\ r[1] = a /\ r[Len(r)] = b
  <2>1. 1 \in 1 .. 2 * n /\ 2 * n \in 1 .. 2 * n /\ (1 - 1) % 2 = 0 /\ Len(r) # 0
    BY <1>5
  <2>2. r[1] = a
    BY <1>4, <2>1
  <2>3. r[2 * n] = b
    BY <1>4, <1>6, <2>1
  <2> QED BY <1>5, <2>1, <2>2, <2>3
<1>8. ASSUME NEW i \in 1 .. Len(r) - 1 PROVE <<r[i], r[i + 1]>> \in Follows
  <2>1. i \in 1 .. 2 * n /\ i + 1 \in 1 .. 2 * n /\ i - 1 \in Nat /\ (i + 1) - 1 = (i - 1) + 1
    BY <1>5
  <2>2. /\ r[i] = IF (i - 1) % 2 = 0 THEN a ELSE b
        /\ r[i + 1] = IF ((i - 1) + 1) % 2 = 0 THEN a ELSE b
    BY <1>4, <2>1
  <2>3. \/ (i - 1) % 2 = 0 /\ ((i - 1) + 1) % 2 = 1
        \/ (i - 1) % 2 = 1 /\ ((i - 1) + 1) % 2 = 0
    BY <1>1, <2>1
  <2> QED BY <2>2, <2>3
<1> QED BY <1>5, <1>7, <1>8 DEF r, Part, Chained

LEMMA RepeatRead ==
    ASSUME NEW n \in Nat, n > 0
    PROVE  Part(Repeat(n, Read), "ensure", "wait")
<1> DEFINE r == Repeat(n, Read)
           Nth(j) == IF j % 3 = 0 THEN "ensure" ELSE IF j % 3 = 1 THEN "start" ELSE "wait"
<1>1. \A j \in Nat : /\ j % 3 \in 0 .. 2
                     /\ j % 3 = 0 => (j + 1) % 3 = 1
                     /\ j % 3 = 1 => (j + 1) % 3 = 2
                     /\ j % 3 = 2 => (j + 1) % 3 = 0
  OBVIOUS
<1>2. r = [i \in 1 .. 3 * n |-> Read[((i - 1) % 3) + 1]]
  BY DEF Repeat, Read
<1>3. ASSUME NEW i \in 1 .. 3 * n
      PROVE  Read[((i - 1) % 3) + 1] = Nth(i - 1)
  <2>1. i - 1 \in Nat
    OBVIOUS
  <2>3. PICK m \in 0 .. 2 : m = (i - 1) % 3
    BY <1>1, <2>1
  <2>2. Read[m + 1] = IF m = 0 THEN "ensure" ELSE IF m = 1 THEN "start" ELSE "wait"
    BY DEF Read
  <2> QED BY <2>2, <2>3, Zenon
<1>4. r = [i \in 1 .. 3 * n |-> Nth(i - 1)]
  BY <1>2, <1>3
<1> HIDE DEF r
<1>5. r \in Seq(Calls) /\ Len(r) = 3 * n
  <2>1. 3 * n \in Nat
    OBVIOUS
  <2>2. \A i \in 1 .. 3 * n : Nth(i - 1) \in Calls
    BY DEF Calls
  <2> HIDE DEF Nth
  <2> QED BY <1>4, <2>1, <2>2
<1>6. (3 * n - 1) % 3 = 2
  <2>1. \A k \in Nat : (3 * k + 2) % 3 = 2
    OBVIOUS
  <2>2. n - 1 \in Nat /\ 3 * n - 1 = 3 * (n - 1) + 2
    OBVIOUS
  <2> QED BY <2>1, <2>2
<1>7. r # <<>> /\ r[1] = "ensure" /\ r[Len(r)] = "wait"
  <2>1. 1 \in 1 .. 3 * n /\ 3 * n \in 1 .. 3 * n /\ (1 - 1) % 3 = 0
    OBVIOUS
  <2> QED BY <1>4, <1>5, <1>6, <2>1
<1>8. ASSUME NEW i \in 1 .. Len(r) - 1 PROVE <<r[i], r[i + 1]>> \in Follows
  <2>1. i \in 1 .. 3 * n /\ i + 1 \in 1 .. 3 * n /\ i - 1 \in Nat /\ (i + 1) - 1 = (i - 1) + 1
    BY <1>5
  <2>2. r[i] = Nth(i - 1) /\ r[i + 1] = Nth((i - 1) + 1)
    BY <1>4, <2>1, Zenon
  <2>3. \/ (i - 1) % 3 = 0 /\ ((i - 1) + 1) % 3 = 1
        \/ (i - 1) % 3 = 1 /\ ((i - 1) + 1) % 3 = 2
        \/ (i - 1) % 3 = 2 /\ ((i - 1) + 1) % 3 = 0
    BY <1>1, <2>1
  <2> QED BY <2>2, <2>3 DEF Follows
<1> QED BY <1>5, <1>7, <1>8 DEF r, Part, Chained

LEMMA PartRuns ==
    ASSUME NEW calls, NEW first, Part(calls, first, "disable")
    PROVE  Runs(calls) /\ calls # <<>> /\ Head(calls) = first
BY DEF Part, Runs, Chained

(* The three programs.                                                     *)
LEMMA GetLevelRuns == Runs(GetLevel) /\ GetLevel # <<>> /\ Head(GetLevel) = "battery"
<1> DEFINE head == <<"battery">>
           end  == <<"disable">>
<1>1. /\ Part(head, "battery", "battery")
      /\ Part(Read, "ensure", "wait")
      /\ Part(end, "disable", "disable")
  BY DEF Part, Chained, Calls, Channels, Follows, Read
<1>2. <<"battery", "ensure">> \in Follows /\ <<"wait", "disable">> \in Follows
  BY DEF Follows
<1> HIDE DEF head, end
<1>3. Part(head \o Read, "battery", "wait")
  BY <1>1, <1>2, PartConcat
<1>4. Part((head \o Read) \o end, "battery", "disable")
  BY <1>1, <1>2, <1>3, PartConcat
<1>5. GetLevel = (head \o Read) \o end
  BY DEF GetLevel, head, end
<1> QED BY <1>4, <1>5, PartRuns

LEMMA CalibrateRuns == Runs(Calibrate) /\ Calibrate # <<>> /\ Head(Calibrate) = "dust"
<1> DEFINE head == <<"dust", "enable">>
           loop == Repeat(SAMPLES, Read)
           end  == <<"disable">>
<1>1. Part(head, "dust", "enable") /\ Part(end, "disable", "disable")
  BY DEF Part, Chained, Calls, Channels, Follows
<1>2. Part(loop, "ensure", "wait")
  BY RepeatRead, SamplesAssumption
<1>3. <<"enable", "ensure">> \in Follows /\ <<"wait", "disable">> \in Follows
  BY DEF Follows
<1> HIDE DEF head, loop, end
<1>4. Part(head \o loop, "dust", "wait")
  BY <1>1, <1>2, <1>3, PartConcat
<1>5. Part((head \o loop) \o end, "dust", "disable")
  BY <1>1, <1>3, <1>4, PartConcat
<1>6. Calibrate = (head \o loop) \o end
  BY DEF Calibrate, head, loop, end
<1> QED BY <1>5, <1>6, PartRuns

LEMMA CaldustRuns == Runs(Caldust) /\ Caldust # <<>> /\ Head(Caldust) = "drop"
<1> DEFINE head  == <<"drop", "dust", "enable", "start">>
           dust  == Repeat(SAMPLES, <<"wait", "start">>)
           turn  == <<"wait", "disable", "light", "enable">>
           light == Repeat(SAMPLES, <<"start", "wait">>)
           end   == <<"disable">>
<1>1. /\ Part(head, "drop", "start")
      /\ Part(turn, "wait", "enable")
      /\ Part(end, "disable", "disable")
  BY DEF Part, Chained, Calls, Channels, Follows
<1>2. /\ <<"start", "wait">> \in Follows /\ <<"wait", "start">> \in Follows
      /\ <<"enable", "start">> \in Follows /\ <<"wait", "disable">> \in Follows
      /\ "start" \in Calls /\ "wait" \in Calls
  BY DEF Follows, Calls
<1>3. Part(dust, "wait", "start") /\ Part(light, "start", "wait")
  BY <1>2, RepeatPair, SamplesAssumption
<1> HIDE DEF head, dust, turn, light, end
<1>4. Part(head \o dust, "drop", "start")
  BY <1>1, <1>2, <1>3, PartConcat
<1>5. Part((head \o dust) \o turn, "drop", "enable")
  BY <1>1, <1>2, <1>4, PartConcat
<1>6. Part(((head \o dust) \o turn) \o light, "drop", "wait")
  BY <1>2, <1>3, <1>5, PartConcat
<1>7. Part((((head \o dust) \o turn) \o light) \o end, "drop", "disable")
  BY <1>1, <1>2, <1>6, PartConcat
<1>8. Caldust = (((head \o dust) \o turn) \o light) \o end
  BY DEF Caldust, head, dust, turn, light, end
<1> QED BY <1>7, <1>8, PartRuns

-------------------------------------------------------------------------------
(* What is left after a call begins with one that may follow it.           *)
LEMMA AfterCall ==
    ASSUME Runs(todo), NEW call \in Calls, Is(call)
    PROVE  /\ Runs(todo')
           /\ todo' # <<>> => <<call, Head(todo')>> \in Follows
           /\ todo' = <<>> => call = "disable"
           /\ todo # <<>> /\ Head(todo) = call
<1>1. /\ todo \in Seq(Calls) /\ todo # <<>> /\ todo[1] = call /\ todo' = Tail(todo)
      /\ Head(todo) = call
  BY DEF Is, Runs, Chained
<1>2. /\ todo' \in Seq(Calls) /\ Len(todo) \in Nat \ {0} /\ Len(todo') = Len(todo) - 1
      /\ \A i \in 1 .. Len(todo) - 1 : todo'[i] = todo[i + 1]
  BY <1>1
<1>3. \A i \in 1 .. Len(todo') - 1 : <<todo'[i], todo'[i + 1]>> \in Follows
  <2> SUFFICES ASSUME NEW i \in 1 .. Len(todo') - 1
               PROVE  <<todo'[i], todo'[i + 1]>> \in Follows
    OBVIOUS
  <2>1. /\ i \in 1 .. Len(todo) - 1 /\ i + 1 \in 1 .. Len(todo) - 1
    BY <1>2
  <2>2. todo'[i] = todo[i + 1] /\ todo'[i + 1] = todo[(i + 1) + 1]
    BY <1>2, <2>1
  <2> QED BY <2>1, <2>2 DEF Runs, Chained
<1>4. todo' # <<>> => /\ todo'[Len(todo')] = "disable"
                      /\ <<call, Head(todo')>> \in Follows
  <2> SUFFICES ASSUME todo' # <<>>
               PROVE  /\ todo'[Len(todo')] = "disable"
                      /\ <<call, Head(todo')>> \in Follows
    OBVIOUS
  <2>1. 1 \in 1 .. Len(todo) - 1 /\ Len(todo) - 1 \in 1 .. Len(todo) - 1
    BY <1>2
  <2>2. todo'[1] = todo[2] /\ todo'[Len(todo')] = todo[Len(todo)]
    BY <1>2, <2>1
  <2>3. todo[Len(todo)] = "disable" /\ <<call, todo[2]>> \in Follows
    <3>1. <<todo[1], todo[1 + 1]>> \in Follows
      BY <2>1 DEF Runs, Chained
    <3> QED BY <1>1, <3>1 DEF Runs
  <2>4. Head(todo') = todo'[1]
    BY <1>2
  <2>5. <<call, todo'[1]>> \in Follows /\ todo'[Len(todo')] = "disable"
    BY <2>2, <2>3
  <2> QED BY <2>4, <2>5
<1>5. todo' = <<>> => call = "disable"
  <2>1. todo' = <<>> => Len(todo) = 1
    BY <1>2
  <2>2. todo[Len(todo)] = "disable"
    BY <1>1 DEF Runs
  <2> QED BY <1>1, <2>1, <2>2
<1> QED BY <1>1, <1>2, <1>3, <1>4, <1>5 DEF Runs, Chained

(* A call made when the converter is ready for it leaves it ready for the  *)
(* next one.                                                               *)
LEMMA CallReady ==
    ASSUME AdcTypes, Runs(todo), Ready, Call
    PROVE  AdcTypes' /\ Runs(todo') /\ Ready'
<1> USE DEF AdcTypes, Ready, ConverterOff, ConverterOn, Nothing, Selected, Pending,
            Follows, Channels, Leave
<1>1. ASSUME NEW channel \in Channels, Swap(channel) PROVE AdcTypes' /\ Runs(todo') /\ Ready'
  <2>1. Is(channel) /\ channel \in Calls
    BY <1>1 DEF Swap, Calls
  <2>2. /\ Runs(todo')
        /\ todo' # <<>> => <<channel, Head(todo')>> \in Follows
        /\ todo' # <<>>
        /\ todo # <<>> /\ Head(todo) = channel
    BY <2>1, AfterCall
  <2> QED BY <1>1, <2>2 DEF Swap
<1>2. CASE Is("enable") /\ Enable
  <2>1. /\ Runs(todo')
        /\ todo' # <<>> /\ Head(todo') \in {"start", "ensure"}
        /\ todo # <<>> /\ Head(todo) = "enable"
    BY <1>2, AfterCall DEF Calls
  <2>2. EnableAdc /\ UNCHANGED <<setting, flag, res, asked>>
    BY <1>2, <2>1 DEF Enable, Is
  <2>3. adca_enable_count' = 1
    BY <2>1, <2>2 DEF EnableAdc
  <2> QED BY <2>1, <2>2, <2>3 DEF EnableAdc
<1>3. CASE Is("ensure") /\ Enable
  <2>1. /\ Runs(todo')
        /\ todo' # <<>> /\ Head(todo') = "start"
        /\ todo # <<>> /\ Head(todo) = "ensure"
    BY <1>3, AfterCall DEF Calls
  <2>2. /\ IF adca_enable_count = 0 THEN EnableAdc ELSE Leave
        /\ UNCHANGED <<setting, flag, res, asked>>
    BY <1>3, <2>1 DEF Enable, Is
  <2>3. CASE adca_enable_count = 0
    <3>1. adca_enable_count' = 1
      BY <2>2, <2>3 DEF EnableAdc
    <3> QED BY <2>1, <2>2, <2>3, <3>1 DEF EnableAdc
  <2>4. CASE adca_enable_count # 0
    BY <2>1, <2>2, <2>4
  <2> QED BY <2>3, <2>4
<1>4. CASE Is("disable") /\ Disable
  <2>1. /\ Runs(todo')
        /\ todo' # <<>> => Head(todo') = "light"
        /\ todo # <<>> /\ Head(todo) = "disable"
    BY <1>4, AfterCall DEF Calls
  <2>2. DisableAdc /\ UNCHANGED <<setting, flag, res, asked>>
    BY <1>4, <2>1 DEF Disable, Is
  <2>3. adca_enable_count' = 0
    BY <2>1, <2>2 DEF DisableAdc
  <2> QED BY <2>1, <2>2, <2>3 DEF DisableAdc
<1>5. CASE Is("drop") /\ Disable
  <2>1. /\ Runs(todo')
        /\ todo' # <<>> /\ Head(todo') = "dust"
        /\ todo # <<>> /\ Head(todo) = "drop"
    BY <1>5, AfterCall DEF Calls
  <2> QED BY <1>5, <2>1 DEF Disable, DisableAdc, Is
<1>6. CASE Start
  <2>1. /\ Runs(todo')
        /\ todo' # <<>> /\ Head(todo') = "wait"
        /\ todo # <<>> /\ Head(todo) = "start"
    BY <1>6, AfterCall DEF Calls, Start
  <2> QED BY <1>6, <2>1 DEF Start
<1>7. CASE Wait
  <2>1. /\ Runs(todo')
        /\ todo' # <<>> /\ Head(todo') \in {"start", "ensure", "disable"}
        /\ todo # <<>> /\ Head(todo) = "wait"
    BY <1>7, AfterCall DEF Calls, Wait
  <2>2. /\ ConverterOn' /\ Nothing' /\ Selected' = Selected
    BY <1>7, <2>1 DEF Wait
  <2> QED BY <1>7, <2>1, <2>2 DEF Wait
<1> QED BY <1>1, <1>2, <1>3, <1>4, <1>5, <1>6, <1>7 DEF Call, Enable, Disable

(* At the end of a conversion its result is that of the input selected,    *)
(* since the program waits for it before it selects another one.           *)
LEMMA CompleteReady ==
    ASSUME AdcTypes, Runs(todo), Ready, Complete
    PROVE  AdcTypes' /\ Runs(todo') /\ Ready'
<1> USE DEF AdcTypes, Ready, ConverterOff, ConverterOn, Nothing, Selected, Pending
<1>1. todo # <<>> /\ Head(todo) \in Calls
  BY DEF Complete, Runs, Chained
<1>2. Head(todo) = "wait" /\ todo' = todo /\ setting' = setting /\ asked' = asked
  BY <1>1 DEF Complete, Calls, Channels
<1>3. ConverterOn' /\ Pending' /\ Selected'
  BY <1>1, <1>2 DEF Complete
<1>4. AdcTypes'
  BY DEF Complete
<1> QED BY <1>1, <1>2, <1>3, <1>4 DEF Channels

(* No program is running before the first circle.                          *)
LEMMA InitAdcInv == Init => AdcInv
<1> SUFFICES ASSUME Init PROVE AdcInv
  OBVIOUS
<1>1. Runs(<<>>)
  BY DEF Runs, Chained
<1> QED BY <1>1 DEF Init, InitAdc, AdcInv, AdcTypes, Ready, ConverterOff

(* A program is started only when the one before it is done.               *)
LEMMA NextAdcInv == AdcInv /\ SleepInv /\ [Next]_vars => AdcInv'
<1> SUFFICES ASSUME AdcInv, SleepInv, [Next]_vars PROVE AdcInv'
  OBVIOUS
<1> DEFINE Quiet == /\ UNCHANGED adc_vars
                    /\ pc' \notin {"level", "measuring"} => todo = <<>>
<1>1. ASSUME Quiet PROVE AdcInv'
  BY <1>1 DEF AdcInv, AdcTypes, Ready, ConverterOff, ConverterOn, Nothing, Selected,
              Pending, adc_vars
<1>2. CASE InitAd
  BY <1>2 DEF InitAd, AdInit, At, AdcInv, AdcTypes, Ready, ConverterOff, ConverterOn,
              Nothing, Selected, Pending
<1>3. CASE Sample
  <2>1. todo = <<>> /\ ConverterOff
    BY <1>3 DEF Sample, At, AdcInv, Ready
  <2>2. /\ todo' = GetLevel /\ pc' = "level" /\ UNCHANGED <<clocked, enabled, flag>>
        /\ ConverterOff'
    BY <1>3, <2>1 DEF Sample, At, ConverterOff
  <2> QED BY <2>2, GetLevelRuns DEF AdcInv, AdcTypes, Ready, Channels
<1>4. CASE Measure
  <2>1. todo = <<>> /\ ConverterOff
    BY <1>4 DEF Measure, AdcInv, Ready
  <2>2. /\ todo' \in {<<>>, Calibrate, Caldust} /\ pc' = "measuring"
        /\ UNCHANGED <<clocked, enabled, flag>>
        /\ ConverterOff'
    BY <1>4, <2>1 DEF Measure, At, ConverterOff
  <2>3. CASE todo' = <<>>
    BY <2>1, <2>2, <2>3 DEF AdcInv, AdcTypes, Ready
  <2>4. CASE todo' = Calibrate
    BY <2>2, <2>4, CalibrateRuns DEF AdcInv, AdcTypes, Ready, Channels
  <2>5. CASE todo' = Caldust
    BY <2>2, <2>5, CaldustRuns DEF AdcInv, AdcTypes, Ready, Channels
  <2> QED BY <2>2, <2>3, <2>4, <2>5
<1>5. CASE Convert
  <2>1. pc \in {"level", "measuring"} /\ pc' = pc
    BY <1>5 DEF Convert, main
  <2> QED BY <1>5, <2>1, CallReady DEF Convert, AdcInv
<1>6. CASE Converted
  <2>1. pc' = pc /\ todo' = todo
    BY <1>6 DEF Converted, main, Complete
  <2> QED BY <1>6, <2>1, CompleteReady DEF Converted, AdcInv
<1>7. CASE \/ RtcInit \/ EnableLevel \/ UARTD0_init \/ Ports
           \/ NewCircle \/ ScanKey \/ EndCircle \/ Off
           \/ CheckKey \/ ClearFlag \/ EnableHigh \/ SleepEnable \/ SleepEnter \/ DisableHigh
  <2>1. Quiet
    BY <1>7 DEF AdcInv, RtcInit, EnableLevel, UARTD0_init, Ports, NewCircle, ScanKey,
                EndCircle, Off, CheckKey, ClearFlag, EnableHigh, SleepEnable, SleepEnter,
                DisableHigh, At, adc_vars
  <2> QED BY <1>1, <2>1
<1>8. CASE \/ (\E source \in Sources : Interrupt(source))
           \/ Press \/ Release \/ Plug \/ Receive \/ Alarm \/ UNCHANGED vars
  <2>1. Quiet
    BY <1>8 DEF AdcInv, Interrupt, Press, Release, Plug, Receive, Alarm, vars, main, pins,
                adc_vars
  <2> QED BY <1>1, <2>1
<1> QED BY <1>2, <1>3, <1>4, <1>5, <1>6, <1>7, <1>8 DEF Next, Main

(* Whoever waits for the converter waits for what it asked for, and a      *)
(* program leaves the converter off and without a result: for every number *)
(* of conversions in the loops, whichever program comes after which.       *)
THEOREM ConversionsOwned == FairSpec => []ReadsItsOwn
<1>1. AdcInv => ReadsItsOwn
  <2> SUFFICES ASSUME AdcInv PROVE ReadsItsOwn
    OBVIOUS
  <2>1. ASSUME todo # <<>>, Head(todo) = "wait"
        PROVE  /\ converting # Idle \/ flag
               /\ flag => res = <<asked, Reference(asked)>>
    <3>1. \/ ~flag /\ converting = setting
          \/ flag /\ res = setting
      BY <2>1 DEF AdcInv, Ready, Pending
    <3>2. setting = <<asked, Reference(asked)>>
      BY <2>1 DEF AdcInv, Ready, Selected
    <3>3. setting # Idle
      BY <3>2 DEF Idle
    <3> QED BY <3>1, <3>2, <3>3
  <2>2. todo = <<>> => ~enabled /\ ~clocked /\ ~flag /\ adca_enable_count = 0
    BY DEF AdcInv, Ready, ConverterOff
  <2> QED BY <2>1, <2>2 DEF ReadsItsOwn
<1> QED BY <1>1, InitSleepInv, NextSleepInv, InitAdcInv, NextAdcInv, PTL DEF FairSpec
===============================================================================
