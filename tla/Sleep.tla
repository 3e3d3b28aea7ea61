-------------------------------- MODULE Sleep ---------------------------------
(***************************************************************************)
(* How the device starts, sleeps and wakes: main from the start of the RTC *)
(* to its loop, and of every circle the statements that sleep depends on,  *)
(* one by one, with the four interrupts between any two of them.           *)
(*                                                                         *)
(* The power key's pin interrupts on the falling edge and the charger's on *)
(* both, at the high level, which is enabled only around the sleep; the    *)
(* serial line at the medium level and the RTC, every ten seconds, at the  *)
(* low level, which is never disabled again.  In power-save mode only the  *)
(* pins and the RTC run on.  An interrupt of an enabled level is served    *)
(* before or after any statement: the processor takes it at once, but an   *)
(* edge may always be just too late for the statement at hand.  A reset is *)
(* a new start: every register concerned is reset with the chip.           *)
(***************************************************************************)
EXTENDS Adc

Sources == {"rtc", "rx", "key", "charger"}

Level(source) == CASE source = "rtc" -> "LO" [] source = "rx" -> "MEDIUM" [] OTHER -> "HIGH"

Rank(level) == CASE level = "LO" -> 1 [] level = "MEDIUM" -> 2 [] OTHER -> 3

VARIABLES
    pc,           \* the statement main comes to next
    sources,      \* the interrupts set up in their peripheral
    flags,        \* their flags
    levels,       \* PMIC.CTRL: the enabled levels
    irq,          \* the global interrupt flag
    sen,          \* SLEEP.CTRL.SEN
    asleep,
    key_down,     \* the pin of the power key is low
    plugged,      \* the pin of the charger
    is_charging,  \* what battery_is_charging last returned
    pointer_set,  \* g_power_key_pointer # NULL
    late_press,   \* the key went down when the sleep was decided already
    late_plug     \* so did the charger come
pins == <<key_down, plugged, late_press, late_plug>>
main == <<pc, sources, flags, levels, irq, sen, asleep, is_charging, pointer_set>>
vars == <<main, pins, adc_vars>>

(* The interrupts the processor would take now.                            *)
Served == IF irq THEN {s \in sources \cap flags : Level(s) \in levels} ELSE {}

At(from, to) == pc = from /\ ~asleep /\ pc' = to

-------------------------------------------------------------------------------
(* Start-up, in the order of main.                                         *)
RtcInit ==
    /\ At("rtc", "pmic")
    /\ sources' = sources \cup {"rtc"}
    /\ UNCHANGED <<flags, levels, irq, sen, asleep, is_charging, pointer_set, pins, adc_vars>>

\* Mutant for PressNoticed: the level of the RTC is not enabled.
EnableLevelNot ==
    /\ At("pmic", "ad")
    /\ UNCHANGED <<levels, sources, flags, irq, sen, asleep, is_charging, pointer_set, pins,
                   adc_vars>>

EnableLevel ==
    /\ At("pmic", "ad")
    /\ levels' = levels \cup {"LO"}
    /\ UNCHANGED <<sources, flags, irq, sen, asleep, is_charging, pointer_set, pins, adc_vars>>

InitAd ==
    /\ At("ad", "uart")
    /\ AdInit
    /\ UNCHANGED <<sources, flags, levels, irq, sen, asleep, is_charging, pointer_set, pins>>

\* Mutant for PointerSet: all levels are enabled at once.
UARTD0_initAll ==
    /\ At("uart", "ports")
    /\ levels' = {"LO", "MEDIUM", "HIGH"}
    /\ irq' = TRUE
    /\ sources' = sources \cup {"rx"}
    /\ UNCHANGED <<flags, sen, asleep, is_charging, pointer_set, pins, adc_vars>>

UARTD0_init ==
    /\ At("uart", "ports")
    /\ levels' = levels \cup {"MEDIUM"}
    /\ irq' = TRUE
    /\ sources' = sources \cup {"rx"}
    /\ UNCHANGED <<flags, sen, asleep, is_charging, pointer_set, pins, adc_vars>>

Ports ==
    /\ At("ports", "loop")
    /\ sources' = sources \cup {"key", "charger"}
    /\ UNCHANGED <<flags, levels, irq, sen, asleep, is_charging, pointer_set, pins, adc_vars>>

-------------------------------------------------------------------------------
(* A circle.                                                               *)
NewCircle ==
    /\ At("loop", "scan_key")
    /\ UNCHANGED <<sources, flags, levels, irq, sen, asleep, is_charging, pointer_set, pins,
                   adc_vars>>

ScanKey ==
    /\ At("scan_key", "charging")
    /\ pointer_set' = TRUE
    /\ UNCHANGED <<sources, flags, levels, irq, sen, asleep, is_charging, pins, adc_vars>>

\* battery_is_charging, and the battery's level right after it.
Sample ==
    /\ At("charging", "level")
    /\ is_charging' = plugged
    /\ late_plug' = FALSE
    /\ todo' = GetLevel
    /\ UNCHANGED <<sources, flags, levels, irq, sen, asleep, pointer_set, key_down, plugged,
                   late_press, adca_enable_count, clocked, enabled, setting, converting, flag,
                   res, asked>>

(* With the device on, a circle refreshes the display, calibrates or       *)
(* measures; with it off, and no message left to show, it comes to sleep   *)
(* unless it is charging.  Which of these is up to module Circle.          *)
Measure ==
    /\ todo = <<>>
    /\ At("level", "measuring")
    /\ todo' \in {<<>>, Calibrate, Caldust}
    /\ UNCHANGED <<sources, flags, levels, irq, sen, asleep, is_charging, pointer_set, pins,
                   adca_enable_count, clocked, enabled, setting, converting, flag, res, asked>>

EndCircle ==
    /\ todo = <<>>
    /\ At("measuring", "loop")
    /\ UNCHANGED <<sources, flags, levels, irq, sen, asleep, is_charging, pointer_set, pins,
                   adc_vars>>

Off ==
    /\ todo = <<>>
    /\ At("level", IF is_charging THEN "loop" ELSE "key")
    /\ UNCHANGED <<sources, flags, levels, irq, sen, asleep, is_charging, pointer_set, pins,
                   adc_vars>>

\* Mutant for SleepsThrough: the key is not looked at.
CheckKeyNot ==
    /\ At("key", "clear")
    /\ late_press' = FALSE
    /\ UNCHANGED <<sources, flags, levels, irq, sen, asleep, is_charging, pointer_set, key_down,
                   plugged, late_plug, adc_vars>>

(* device_is_high(DEVICE_KEY_POWER).                                       *)
CheckKey ==
    /\ At("key", IF key_down THEN "loop" ELSE "clear")
    /\ late_press' = FALSE
    /\ UNCHANGED <<sources, flags, levels, irq, sen, asleep, is_charging, pointer_set, key_down,
                   plugged, late_plug, adc_vars>>

\* PORTE.INTFLAGS &= PIN0_bm: writing the key's flag back clears it.
ClearFlag ==
    /\ At("clear", "high")
    /\ flags' = flags \ {"key"}
    /\ UNCHANGED <<sources, levels, irq, sen, asleep, is_charging, pointer_set, pins, adc_vars>>

EnableHigh ==
    /\ At("high", "sleep_enable")
    /\ levels' = levels \cup {"HIGH"}
    /\ UNCHANGED <<sources, flags, irq, sen, asleep, is_charging, pointer_set, pins, adc_vars>>

SleepEnable ==
    /\ At("sleep_enable", "sleep_enter")
    /\ sen' = TRUE
    /\ UNCHANGED <<sources, flags, levels, irq, asleep, is_charging, pointer_set, pins, adc_vars>>

\* The instruction does nothing when a handler has called sleep_disable.
SleepEnter ==
    /\ At("sleep_enter", "woken")
    /\ asleep' = sen
    /\ UNCHANGED <<sources, flags, levels, irq, sen, is_charging, pointer_set, pins, adc_vars>>

DisableHigh ==
    /\ At("woken", "loop")
    /\ levels' = levels \ {"HIGH"}
    /\ UNCHANGED <<sources, flags, irq, sen, asleep, is_charging, pointer_set, pins, adc_vars>>

Convert ==
    /\ pc \in {"level", "measuring"} /\ ~asleep
    /\ Call
    /\ UNCHANGED <<main, pins>>

Main ==
    \/ RtcInit \/ EnableLevel \/ InitAd \/ UARTD0_init \/ Ports
    \/ NewCircle \/ ScanKey \/ Sample \/ Measure \/ EndCircle \/ Off
    \/ CheckKey \/ ClearFlag \/ EnableHigh \/ SleepEnable \/ SleepEnter \/ DisableHigh
    \/ Convert

-------------------------------------------------------------------------------
(* The handlers: those of the pins take the permission to sleep away; that *)
(* of the RTC (module Rtc) sets the next alarm and that of the serial line *)
(* (module Serial) receives, and both leave it.                            *)
Interrupt(source) ==
    /\ source \in Served
    /\ \A other \in Served : Rank(Level(other)) <= Rank(Level(source))
    /\ flags' = flags \ {source}
    /\ asleep' = FALSE
    /\ sen' = IF source \in {"key", "charger"} THEN FALSE ELSE sen
    /\ UNCHANGED <<pc, sources, levels, irq, is_charging, pointer_set, pins, adc_vars>>

Raise(source) == flags' = flags \cup (sources \cap {source})

Press ==
    /\ ~key_down /\ key_down' = TRUE
    /\ late_press' = (pc \in {"clear", "high", "sleep_enable"})
    /\ Raise("key")
    /\ UNCHANGED <<pc, sources, levels, irq, sen, asleep, is_charging, pointer_set, plugged,
                   late_plug, adc_vars>>

Release ==
    /\ key_down /\ key_down' = FALSE
    /\ late_press' = FALSE
    /\ UNCHANGED <<main, plugged, late_plug, adc_vars>>

\* Once sampled, the charger is not looked at again before the sleep.
Plug ==
    /\ plugged' = ~plugged
    /\ late_plug' = (plugged' /\ pc \in {"level", "key", "clear", "high", "sleep_enable"})
    /\ Raise("charger")
    /\ UNCHANGED <<pc, sources, levels, irq, sen, asleep, is_charging, pointer_set, key_down,
                   late_press, adc_vars>>

Receive ==
    /\ plugged /\ ~asleep
    /\ Raise("rx")
    /\ UNCHANGED <<pc, sources, levels, irq, sen, asleep, is_charging, pointer_set, pins, adc_vars>>

Alarm ==
    /\ Raise("rtc")
    /\ UNCHANGED <<pc, sources, levels, irq, sen, asleep, is_charging, pointer_set, pins, adc_vars>>

Converted == Complete /\ UNCHANGED <<main, pins>>

-------------------------------------------------------------------------------
Init ==
    /\ pc = "rtc" /\ sources = {} /\ flags = {} /\ levels = {} /\ irq = FALSE
    /\ sen = FALSE /\ asleep = FALSE
    /\ key_down \in BOOLEAN /\ plugged \in BOOLEAN
    /\ is_charging = FALSE /\ pointer_set = FALSE
    /\ late_press = FALSE /\ late_plug = FALSE
    /\ InitAdc

Next ==
    \/ Main \/ (\E source \in Sources : Interrupt(source))
    \/ Press \/ Release \/ Plug \/ Receive \/ Alarm \/ Converted

(* An AVR executes at least one instruction of the program between two     *)
(* handlers, and what interrupts it is rare; an interrupt is taken, a      *)
(* conversion ends, and the alarm comes again and again.                   *)
FairSpec ==
    /\ Init /\ [][Next]_vars
    /\ WF_vars(Main)
    /\ \A source \in Sources : WF_vars(Interrupt(source))
    /\ WF_vars(Alarm) /\ WF_vars(Converted)

-------------------------------------------------------------------------------
(* Properties.                                                             *)

(* Asleep, the device misses nothing but an edge that fell into the few    *)
(* statements between the look at the key and sleep_enable, or, of the     *)
(* charger, between its sampling and sleep_enable: whatever comes before   *)
(* keeps it from sleeping, and whatever comes later wakes it.              *)
SleepsThrough ==
    (asleep /\ Served = {}) => /\ key_down => late_press
                               /\ plugged => late_plug

(* The handler of the power key writes through a pointer that only         *)
(* scan_key sets: it is never taken before the first circle.               *)
PointerSet == "key" \in Served => pointer_set

(* And what was missed is not missed for long: a key that is kept down is  *)
(* scanned and a charger that stays is noticed, since the RTC wakes the    *)
(* device whatever state the sleep was entered in.                         *)
PressNoticed ==
    /\ key_down ~> (~key_down \/ pc = "scan_key")
    /\ plugged ~> (~plugged \/ is_charging)
===============================================================================
