-------------------------------- MODULE Reading --------------------------------
(***************************************************************************)
(* The number shown for the dust: the smoothed value of Dust less the      *)
(* light, corrected, and with the light again, on the curve (data2pm25 of  *)
(* main.c, for a device that is not calibrated).  caldust measures the     *)
(* light anew for every sample, while dust_value follows slowly and an     *)
(* int32_t is subtracted from it as a uint32_t: the difference wraps when  *)
(* the light has just risen.                                               *)
(***************************************************************************)
EXTENDS Dust, Curve

CONSTANT Lights     \* toohigh_value as caldust leaves it

ASSUME LightsAssumption == Lights \subseteq Nat
\* The last segment begins far below where a difference wraps: 80000, 2^32.
ASSUME WideAssumption == 8 * (Start(dx, Last) + 2) <= WORD

VARIABLE toohigh_value

readingVars == <<dustVars, toohigh_value>>

InitReading == InitDust /\ toohigh_value = 0

\* caldust: the sample is the dust found and the light on top of it.
CalculateLit ==
    \E s \in Samples, light \in Lights :
        /\ light <= s
        /\ Calculate(s)
        /\ toohigh_value' = light

(* With preclear caldust is not called.                                    *)
PreclearLit == Preclear /\ UNCHANGED toohigh_value

NextReading == CalculateLit \/ PreclearLit
\* While the device is on and not held, circle after circle measures.
FairReading == /\ InitReading /\ [][NextReading]_readingVars
               /\ WF_readingVars(CalculateLit)

-------------------------------------------------------------------------------
\* data of data2pm25: a uint32_t, and the light is added again at its end.
Unlit == ((dust_value - toohigh_value) % WORD) \div 4
\* Mutant for ReadingTrueOrTop: what the light was is not added again.
DataUnlit == Unlit
Data == Unlit + toohigh_value \div 4

ShownNow == Data2Pm25(Data)

-------------------------------------------------------------------------------
(* The number shown is the one the smoothed dust stands for, but for what  *)
(* the two shifts round off, unless the light is above the smoothed dust   *)
(* or the product exceeds 32 bits; and then it is at least the lowest      *)
(* number of the last segment.  The first of the two shows more than the   *)
(* dust there is.  The second shows less, about 60000 micrograms where it  *)
(* should be 99999, but with it heavy dust is not shown as little.         *)
ReadingTrueOrTop ==
    LET d == Max2(0, dust_value) \div 4
    IN  IF toohigh_value > dust_value \/ ProductWraps(d)
        THEN ShownNow >= AtMost(Start(dy, Last))
        ELSE ShownNow \in {Exact(d), Exact(Max2(0, d - 1))}
===============================================================================
