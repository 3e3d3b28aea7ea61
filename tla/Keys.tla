--------------------------------- MODULE Keys ---------------------------------
(***************************************************************************)
(* The three keys of main.c: scan_key samples their pins once a circle,    *)
(* debounces them and turns clicks and holds into changes of the system    *)
(* status, and PORTE_INT0_vect prepares the power key when it wakes the    *)
(* processor.                                                              *)
(*                                                                         *)
(* A pin is high when its key is up.  level is the debounced level, uplast *)
(* and downlast count samples; a count is reset only when level changes,   *)
(* so it goes on over bounces.                                             *)
(***************************************************************************)
EXTENDS Integers

CONSTANTS
    KEY_CLICK_TIME, KEY_HOLD_TIME, KEY_LONG_HOLD_TIME, KEY_IGNORE_HOLD_TIME,
    LAST_CAP,     \* 0xF0, where the counts stop
    Pressable     \* the keys somebody may press, one of them in a behaviour

ASSUME TimeAssumption ==
    /\ {KEY_CLICK_TIME, KEY_HOLD_TIME, KEY_LONG_HOLD_TIME,
        KEY_IGNORE_HOLD_TIME, LAST_CAP} \subseteq Nat
    /\ 0 < KEY_CLICK_TIME
    /\ KEY_CLICK_TIME < KEY_HOLD_TIME
    /\ KEY_HOLD_TIME < KEY_LONG_HOLD_TIME
    /\ KEY_LONG_HOLD_TIME < KEY_IGNORE_HOLD_TIME
    /\ KEY_IGNORE_HOLD_TIME < LAST_CAP
ASSUME PressableAssumption == Pressable \subseteq {"POWER", "SELECT", "MODE"}

Key == {"POWER", "SELECT", "MODE"}
Status == {"POWERDOFF", "REALTIME", "POWERSAVE", "HISTORY"}
Last == 0 .. LAST_CAP

VARIABLES
    key,                \* key[3]
    current_system_status, last_system_status,
    sub_function,       \* what the last scan told circle_callback
    asleep,
    finger,             \* the key that is pressed; the others stay up
    \* What was seen of the pins, to state the properties with:
    acted,              \* the keys whose last sample changed something
    lowrun,             \* uninterrupted low samples of each key up to the last
    lows, highs,        \* samples of each key since it last changed the status
    held,               \* that change was made by holding the key down
    turned_on           \* the power key made it, turning the device on

seen == <<lowrun, lows, highs, held, turned_on>>
vars == <<key, current_system_status, last_system_status, sub_function, asleep,
          finger, acted, lowrun, lows, highs, held, turned_on>>

Init ==
    /\ key = [k \in Key |-> [level |-> FALSE, uplast |-> 0, downlast |-> 0]]
    /\ current_system_status = "POWERDOFF"
    /\ last_system_status = "REALTIME"
    /\ sub_function = FALSE
    /\ asleep = FALSE
    /\ finger \in Pressable
    /\ acted = {}
    /\ lowrun = [k \in Key |-> 0]
    /\ lows = [k \in Key |-> 0]
    /\ highs = [k \in Key |-> 0]
    /\ held = [k \in Key |-> FALSE]
    /\ turned_on = FALSE

-------------------------------------------------------------------------------
Capped(n) == IF n > LAST_CAP THEN LAST_CAP ELSE n

(* One sample of a key: up or down, each debounced against the count of    *)
(* the other.                                                              *)
SampleUp(r) ==
    LET changes == ~r.level /\ r.downlast >= KEY_CLICK_TIME
    IN  [r EXCEPT !.level = r.level \/ changes,
                  !.uplast = IF changes THEN 1 ELSE Capped(@ + 1)]

\* Mutant for PowerOnDeliberate: downlast goes on over separate presses.
SampleDownOn(r) ==
    [r EXCEPT !.level = r.level /\ r.uplast < KEY_CLICK_TIME,
              !.downlast = Capped(@ + 1)]

SampleDown(r) ==
    LET changes == r.level /\ r.uplast >= KEY_CLICK_TIME
    IN  [r EXCEPT !.level = r.level /\ ~changes,
                  !.downlast = IF changes THEN 1 ELSE Capped(@ + 1)]

Sampled(k, down) == IF k \in down THEN SampleDown(key[k]) ELSE SampleUp(key[k])

(* Held down for exactly limit samples; released after fewer.              *)
HeldFor(r, limit) == r.downlast = limit /\ ~r.level
\* Mutant for OneActPerPress and PressTurnsOnce: a long press is a click too.
ClickedAnyLength(r, limit) ==
    /\ r.downlast > KEY_CLICK_TIME
    /\ r.level
    /\ r.uplast = KEY_CLICK_TIME

Clicked(r, limit) ==
    /\ r.downlast > KEY_CLICK_TIME
    /\ r.downlast < limit
    /\ r.level
    /\ r.uplast = KEY_CLICK_TIME

TurnsOn(power) == HeldFor(power, KEY_LONG_HOLD_TIME)
TurnsOff(power) ==
    \/ HeldFor(power, KEY_LONG_HOLD_TIME)
    \/ Clicked(power, KEY_LONG_HOLD_TIME)
    \/ power.downlast > KEY_IGNORE_HOLD_TIME /\ ~power.level

Changes(r) == HeldFor(r, KEY_HOLD_TIME) \/ Clicked(r, KEY_HOLD_TIME)

After(status) == CASE status = "REALTIME"  -> "POWERSAVE"
                   [] status = "POWERSAVE" -> "HISTORY"
                   [] OTHER                -> "REALTIME"

ScanPower(power) ==
    IF current_system_status = "POWERDOFF"
    THEN IF TurnsOn(power) THEN last_system_status ELSE "POWERDOFF"
    ELSE IF TurnsOff(power) THEN "POWERDOFF" ELSE current_system_status

\* Observation of a scan that sampled the keys of down and let those of
\* acting change the status.
Observe(down, acting, on) ==
    /\ acted' = acting
    /\ lowrun' = [k \in Key |-> IF k \in down THEN Capped(lowrun[k] + 1) ELSE 0]
    /\ lows'  = [k \in Key |-> IF k \in acting THEN 0
                               ELSE IF k \in down THEN Capped(lows[k] + 1) ELSE lows[k]]
    /\ highs' = [k \in Key |-> IF k \in acting THEN 0
                               ELSE IF k \in down THEN highs[k] ELSE Capped(highs[k] + 1)]
    /\ held'  = [k \in Key |-> IF k \in acting THEN k \in down ELSE held[k]]
    /\ turned_on' = IF "POWER" \in acting THEN on ELSE turned_on

(* scan_key with the keys of down down.                                    *)
Scan(down) ==
    /\ ~asleep
    /\ key' = [k \in Key |-> Sampled(k, down)]
    /\ LET powered == ScanPower(key'["POWER"])
           stepped == powered # "POWERDOFF" /\ Changes(key'["MODE"])
           status  == IF stepped THEN After(powered) ELSE powered
           toggled == (powered = "POWERDOFF") # (current_system_status = "POWERDOFF")
       IN  /\ current_system_status' = status
           /\ last_system_status' =
                  IF toggled /\ powered = "POWERDOFF" THEN current_system_status
                  ELSE last_system_status
           /\ sub_function' =
                  /\ status # "POWERDOFF"
                  /\ \/ Changes(key'["SELECT"])
                     \/ /\ key'["SELECT"].downlast >= KEY_HOLD_TIME
                        /\ ~key'["SELECT"].level
                        /\ status = "HISTORY"
           /\ Observe(down,
                      {k \in Key : \/ k = "POWER" /\ toggled
                                   \/ k = "MODE" /\ stepped
                                   \/ k = "SELECT" /\ sub_function'},
                      powered # "POWERDOFF")
    /\ UNCHANGED <<asleep, finger>>

(* The rest of the circle changes the status too: a command, an empty      *)
(* history, a low battery, nobody's touching it for minutes.  Any change   *)
(* stands for those, and for what the keys nobody presses would do.        *)
OtherChange ==
    /\ ~asleep
    /\ \E status \in Status :
        /\ current_system_status # status
        /\ current_system_status' = status
        /\ turned_on' = FALSE
    /\ acted' = {}
    /\ UNCHANGED <<key, last_system_status, sub_function, asleep, finger,
                   lowrun, lows, highs, held>>

(* When off the processor sleeps, if the power key is up by then, whatever *)
(* scan_key sampled before.                                                *)
Sleep ==
    /\ ~asleep
    /\ current_system_status = "POWERDOFF"
    /\ asleep' = TRUE
    /\ acted' = {}
    /\ UNCHANGED <<key, current_system_status, last_system_status,
                   sub_function, finger, seen>>

(* PORTE_INT0_vect: the power key goes down and wakes the processor.       *)
WakeByKey ==
    /\ asleep
    /\ finger = "POWER"
    /\ asleep' = FALSE
    /\ acted' = {}
    /\ key' = [key EXCEPT !["POWER"].downlast = 0,
                          !["POWER"].uplast = KEY_CLICK_TIME]
    /\ UNCHANGED <<current_system_status, last_system_status, sub_function,
                   finger, seen>>

\* The charger or the real-time clock.
WakeByOther ==
    /\ asleep
    /\ asleep' = FALSE
    /\ acted' = {}
    /\ UNCHANGED <<key, current_system_status, last_system_status,
                   sub_function, finger, seen>>

Next ==
    \/ \E down \in SUBSET {finger} : Scan(down)
    \/ OtherChange \/ Sleep \/ WakeByKey \/ WakeByOther

Spec == Init /\ [][Next]_vars

-------------------------------------------------------------------------------
(* Properties.                                                             *)

(* The device turns on by key only when the power key was down, without a  *)
(* break, for all of KEY_LONG_HOLD_TIME but the click time at its start,   *)
(* in which the key may bounce: bounces and short presses never add up.    *)
PowerOnDeliberate ==
    "POWER" \in acted /\ turned_on
        => lowrun["POWER"] > KEY_LONG_HOLD_TIME - KEY_CLICK_TIME

(* The press that turned the device on does not turn it off again, on the  *)
(* way up or by bouncing: off takes a new press, after a real release, or  *)
(* holding on beyond KEY_IGNORE_HOLD_TIME.                                 *)
PressTurnsOnce ==
    [][turned_on /\ "POWER" \in acted' /\ ~turned_on'
           => \/ highs["POWER"] >= KEY_CLICK_TIME
              \/ lows["POWER"] >= KEY_IGNORE_HOLD_TIME - KEY_LONG_HOLD_TIME]_vars

(* One press of MODE changes the status once, and one of SELECT toggles    *)
(* the function once unless in SYSTEM_HISTORY, where holding it repeats:   *)
(* after a hold has acted, the key was up for a click time before it acts  *)
(* again, and every act has more than a click time of down samples of its  *)
(* own.                                                                    *)
OneActPerPress ==
    [][\A k \in {"MODE", "SELECT"} :
          k \in acted' /\ ~(k = "SELECT" /\ current_system_status' = "HISTORY")
              => /\ lows[k] + (IF lowrun'[k] > 0 THEN 1 ELSE 0) > KEY_CLICK_TIME
                 /\ held[k] => highs[k] >= KEY_CLICK_TIME]_vars
===============================================================================
