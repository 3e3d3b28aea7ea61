------------------------------- MODULE Battery --------------------------------
(***************************************************************************)
(* The battery gauge: battery.c turns the voltage into one of nine levels, *)
(* with hysteresis for the odd ones, and oled_update_battery of oled.c     *)
(* draws the level as one of five symbols, which blinks between two of     *)
(* them at an odd level and runs upwards while charging.                   *)
(*                                                                         *)
(* The gauge is read once a circle and drawn by Display.  What is read is  *)
(* i of battery_get_level_uncharging, how many thresholds of level_map the *)
(* filtered voltage has reached; the filter and the corrections for the    *)
(* fan and the charger are part of that reading.                           *)
(***************************************************************************)
EXTENDS Integers

CONSTANT STEPS      \* thresholds in level_map

\* last_level begins at 3, a level that may blink with the next symbol.
ASSUME StepsAssumption == STEPS \in Nat /\ STEPS % 2 = 0 /\ STEPS > 3

VARIABLES
    last_level,                 \* battery_get_level_uncharging
    charge_lvl, harf_lvl        \* oled_update_battery

batteryVars == <<last_level, charge_lvl, harf_lvl>>

Reading == 0 .. STEPS
Symbols == STEPS \div 2 + 1     \* in the table batterys

InitBattery ==
    /\ last_level = 3
    /\ charge_lvl = 0
    /\ harf_lvl = FALSE

-------------------------------------------------------------------------------
Odd(n) == n % 2 = 1
Away(a, b) == IF a > b THEN a - b ELSE b - a
Max2(a, b) == IF a > b THEN a ELSE b

\* Mutant for LevelFollows: an odd reading never moves the level.
LevelEven(reading, last) == IF Odd(reading) THEN last ELSE reading
Level(reading, last) ==
    IF ~Odd(reading) THEN reading
    ELSE IF Away(reading, last) > 1 THEN 2 * (reading \div 2)
    ELSE last

\* battery_get_level, charging or not.
GetLevel(reading) ==
    /\ last_level' = Level(reading, last_level)
    /\ UNCHANGED <<charge_lvl, harf_lvl>>

-------------------------------------------------------------------------------
(* Not charging: an odd level is drawn as the two symbols next to it in    *)
(* turn.                                                                   *)
DrawLevel(level) ==
    /\ harf_lvl' = IF Odd(level) THEN ~harf_lvl ELSE harf_lvl
    /\ charge_lvl' = 0
SymbolOfLevel(level) == level \div 2 + (IF Odd(level) /\ harf_lvl' THEN 1 ELSE 0)

Restarted == IF charge_lvl >= Symbols THEN 0 ELSE charge_lvl

\* Charging: the symbol runs from the level to the full one, again and again.
Run(level) == Max2(Restarted, level \div 2)
DrawCharging(level) ==
    /\ charge_lvl' = Run(level) + 1
    /\ UNCHANGED harf_lvl

-------------------------------------------------------------------------------
(* For all its hysteresis the level is at most one away from what has just *)
(* been read, and a reading that goes to and fro between two neighbours    *)
(* moves it at most once: of two readings that differ by one, one keeps    *)
(* the level.                                                              *)
LevelFollows ==
    \A a \in Reading :
        LET level == Level(a, last_level)
        IN  /\ Away(a, level) <= 1
            /\ \A b \in Reading :
                   Away(a, b) = 1 =>
                       \/ Level(b, level) = level
                       \/ Level(a, Level(b, level)) = Level(b, level)
===============================================================================
