-------------------------------- MODULE Pulse ---------------------------------
(***************************************************************************)
(* The pulse detector of algorithm.c: caldust samples the scattered light  *)
(* SAMPLENUM times a circle, and every pulse of it (a steep rise, a time   *)
(* above, a fall) whose width is in the window of a size adds to the       *)
(* tmp_value of that size.  Then the light strength itself is measured.    *)
(***************************************************************************)
EXTENDS Integers, Sequences

CONSTANTS
    SAMPLENUM,
    Level,          \* what the converter returns, max(0, ..) applied
    Ground,         \* g_ground, as the last algorithm_calibrate left it
    STEEP,          \* the 30 of a rise
    DROP,           \* the 1000 of a fall
    xmin, xmax,     \* the window of each size
    SCALE,          \* the 2^12 of >> 12
    TMP_MAX,        \* INT32_MAX
    Light,          \* light_strength less g_ground_light_strength
    LIGHT_SHIFT     \* << 11

Size == DOMAIN xmin

ASSUME LevelAssumption ==
    /\ Level \subseteq Nat
    /\ {SAMPLENUM, Ground, STEEP, DROP, SCALE,
        TMP_MAX, LIGHT_SHIFT} \subseteq Nat
    /\ SCALE > 0
ASSUME LightAssumption == Light \subseteq Int
ASSUME WindowAssumption ==
    /\ xmin \in Seq(Nat)
    /\ xmax \in [Size -> Nat]

VARIABLES
    i,                              \* samples of this circle
    statu,                          \* WAVE_LOW or WAVE_HIGH between samples
    currentdata, last1,             \* the last sample and the one before
    kangle, width, hight,           \* of the pulse under way
    tmp_value, toohigh_value,       \* of each size
    \* What was seen of the light, to state the properties with:
    top,                            \* the highest sample of the circle
    steep                           \* it rose by more than STEEP

pulseVars == <<i, statu, currentdata, last1, kangle, width, hight, tmp_value,
          toohigh_value, top, steep>>

\* The locals of caldust, and the static dust_info.
InitPulse ==
    /\ i = 0
    /\ statu = "LOW"
    /\ currentdata = Ground /\ last1 = Ground
    /\ kangle = 0 /\ width = 0 /\ hight = 0
    /\ tmp_value = [s \in Size |-> 0]
    /\ toohigh_value = [s \in Size |-> 0]
    /\ top = Ground /\ steep = FALSE

-------------------------------------------------------------------------------
Value(w, h) == (w * h * h) \div SCALE

(* The sum stops short of INT32_MAX, by leaving a pulse out.               *)
Added(t, s, w, h) ==
    IF w \in xmin[s] .. xmax[s] - 1 /\ TMP_MAX - Value(w, h) > t
    THEN t + Value(w, h) ELSE t

Rise(data, before) ==
    /\ statu' = "HIGH"
    /\ width' = 0 /\ hight' = 0 /\ kangle' = data - before
    /\ UNCHANGED tmp_value

\* Mutant for EnergyBounded: the height is taken from zero.
StayFromZero(data) ==
    /\ hight' = IF hight < data THEN data ELSE hight
    /\ width' = width + 1
    /\ UNCHANGED <<statu, kangle, tmp_value>>
Stay(data) ==
    /\ hight' = IF hight + Ground < data THEN data - Ground ELSE hight
    /\ width' = width + 1
    /\ UNCHANGED <<statu, kangle, tmp_value>>

Fall ==
    /\ statu' = "LOW"
    /\ tmp_value' = [s \in Size |-> Added(tmp_value[s], s, width, hight)]
    /\ UNCHANGED <<kangle, width, hight>>

-------------------------------------------------------------------------------
(* One pass of the sampling loop.  In it last1 and last2 are the two       *)
(* samples before data, that is currentdata and last1 of the state.        *)
\* Mutant for RisesCounted: any rise starts a pulse.
StartsGently(data, one, two) == data > one
Starts(data, one, two) == data > two + STEEP /\ data > one

Falls(data, two) ==
    data < Ground \/ data + kangle < two \/ data + DROP < two

(* The condition of a plateau assigns last2 to last1, instead of comparing *)
(* them, whenever it is reached; as a condition it only says that last2 is *)
(* not 0.                                                                  *)
Reached(data, one, two) == ~Falls(data, two) /\ one <= data
Plateau(data, one, two) ==
    Reached(data, one, two) /\ two # 0 /\ data < hight - (hight \div 8)

Wave(data, one, two) ==
    LET before == IF Reached(data, one, two) THEN two ELSE one
    IN  \/ data > before + kangle /\ Rise(data, before)
        \/ /\ ~(data > before + kangle)
           /\ Falls(data, two) \/ Plateau(data, one, two)
           /\ Fall
        \/ /\ ~(data > before + kangle)
           /\ ~(Falls(data, two) \/ Plateau(data, one, two))
           /\ Stay(data)

(* last1 of the next pass is this sample, and its last2 is what this pass  *)
(* left in last1.                                                          *)
Sample(data) ==
    /\ i < SAMPLENUM
    /\ i' = i + 1
    /\ currentdata' = data
    /\ \/ /\ statu = "LOW"
          /\ last1' = currentdata
          /\ IF Starts(data, currentdata, last1) THEN Rise(data, currentdata)
             ELSE UNCHANGED <<statu, kangle, width, hight, tmp_value>>
       \/ /\ statu = "HIGH"
          /\ last1' = IF Reached(data, currentdata, last1)
                      THEN last1 ELSE currentdata
          /\ Wave(data, currentdata, last1)
    /\ top' = IF data > top THEN data ELSE top
    /\ steep' = (steep \/ data > last1 + STEEP)
    /\ UNCHANGED toohigh_value

(* The light strength is shifted once more for every further size, since   *)
(* the loop over the sizes shifts the variable itself.                     *)
TooHigh(light, s) == IF light > 0 THEN light * 2^(LIGHT_SHIFT * s) ELSE 0

MeasureLight(light) ==
    /\ i = SAMPLENUM
    /\ i' = SAMPLENUM + 1
    /\ toohigh_value' = [s \in Size |-> TooHigh(light, s)]
    /\ UNCHANGED <<statu, currentdata, last1, kangle, width, hight, tmp_value,
                   top, steep>>

\* The next circle.
Restart ==
    /\ i = SAMPLENUM + 1
    /\ i' = 0
    /\ statu' = "LOW"
    /\ currentdata' = Ground /\ last1' = Ground
    /\ kangle' = 0 /\ width' = 0 /\ hight' = 0
    /\ tmp_value' = [s \in Size |-> 0]
    /\ top' = Ground /\ steep' = FALSE
    /\ UNCHANGED toohigh_value

NextPulse ==
    \/ \E data \in Level : Sample(data)
    \/ \E light \in Light : MeasureLight(light)
    \/ Restart

SpecPulse == InitPulse /\ [][NextPulse]_pulseVars

-------------------------------------------------------------------------------
(* Nothing is counted in a circle without a rise of more than STEEP in two *)
(* samples: noise and slow drift make no dust.                             *)
RisesCounted == (\E s \in Size : tmp_value[s] # 0) => steep

(* The pulses of a circle do not overlap, and no sample counts for more    *)
(* than it was above the ground: together they never weigh more than one   *)
(* pulse as long as the circle and as high as its highest sample.          *)
EnergyBounded ==
    \A s \in Size :
        tmp_value[s] * SCALE <= i * (top - Ground) * (top - Ground)
===============================================================================
