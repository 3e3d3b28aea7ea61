------------------------------ MODULE Correction -------------------------------
(***************************************************************************)
(* What a stored calibration does to the reading: pm25_set_correction of   *)
(* serial.c, between the sensor and the curve of data2pm25 (main.c).       *)
(*                                                                         *)
(* A calibration is <<target, master, self>>: the micrograms the master    *)
(* sent, what pm252data makes of them, and what the device itself read.    *)
(* k, the quotient of master and self, is a float in the code; here it is  *)
(* exact, and what is multiplied by it is cut off to an integer.           *)
(***************************************************************************)
EXTENDS CalibrationStore, Curve

CONSTANTS
    HALFWAY,    \* 50000 micrograms, above which k counts half
    Sensed      \* the values of the sensor that are looked at

\* Behind its tables pm252data returns whatever is there.
ASSUME ReadingAssumption ==
    \A r \in Reading : /\ r[1] \in Nat /\ r[2] \in Nat /\ r[3] \in Nat
                       /\ InTable(r[1]) => r[2] = Pm252Data(r[1])
ASSUME SensedAssumption == Sensed \subseteq Nat
\* What the tables hold, 70000 micrograms, the display can show.
ASSUME HeldAssumption == HALFWAY \in Nat /\ Start(dy, Last + 1) <= MOST

MasterData == master[2]
SelfCalibrationData == self[3]

\* Neither dword was cut short, and k is a number.
HasRatio ==
    InEffect # Uncorrected =>
        /\ Torn \notin {master, self}
        /\ MasterData # 0 \/ SelfCalibrationData # 0

TooSmall == 5 * MasterData < SelfCalibrationData        \* k < 0.2
TooLarge == MasterData > 3 * SelfCalibrationData        \* k > 3.0

\* Mutant for CalibratedReadsMaster: the part with the smaller factor begins
\* at half a range, whatever was calibrated.
HighThresholdFixed == Pm252Data(HALFWAY)
HighThreshold ==
    LET half == Pm252Data(HALFWAY)
    IN  IF half > SelfCalibrationData THEN half ELSE SelfCalibrationData

Times(value, numerator, denominator) == (value * numerator) \div denominator
\* Mutant for ShownMonotone: the two parts do not meet.
CorrectedHighApart(d) ==
    HighThreshold + Times(d - HighThreshold, SelfCalibrationData + MasterData,
                          2 * SelfCalibrationData)
CorrectedHigh(d) ==
    Times((d - HighThreshold) * (SelfCalibrationData + MasterData)
              + 2 * HighThreshold * MasterData,
          1, 2 * SelfCalibrationData)

\* pm25_set_correction.
Corrected(d) ==
    IF InEffect = Uncorrected THEN d
    ELSE IF TooSmall THEN 20
    ELSE IF TooLarge THEN 10
    ELSE IF d > HighThreshold THEN CorrectedHigh(d)
    ELSE Times(d, MasterData, SelfCalibrationData)

\* data2pm25, in the dark.
Shown(d) == Data2Pm25(Corrected(d))

-------------------------------------------------------------------------------
(* A calibration does what it is for: with the pair of one calibration in  *)
(* effect and its factor within the limits, the device shows, for what it  *)
(* read then, the micrograms of the master, but for what the two tables    *)
(* round off.  The two numbers go through two conversions, two EEPROM      *)
(* dwords and a quotient on the way.  A target the tables do not hold is   *)
(* left out: what it leads to depends on the memory behind them.           *)
CalibratedReadsMaster ==
    (/\ InEffect # Uncorrected /\ HasRatio /\ master = self
     /\ ~TooSmall /\ ~TooLarge /\ InTable(master[1])) =>
        LET off == master[1] - Shown(SelfCalibrationData)
            i   == SegmentOf(dy, master[1])
        IN  off >= 0 /\ off * dx[i] <= dx[i] + dy[i]

(* Where more dust may show as less is only where the product of data2pm25 *)
(* exceeds 32 bits, and it then shows no less than the last segment begins *)
(* with: whatever pair is in effect, one made of two calibrations          *)
(* included, the number does not fall where the correction goes over to    *)
(* the smaller factor, nor from segment to segment of the curve, nor at    *)
(* the largest number.  With the tables of the code corrected data of      *)
(* about 509500 is the first to fall, from 99999 to about 60000.           *)
ShownMonotone ==
    HasRatio =>
        \A d \in Sensed : d + 1 \in Sensed =>
            IF ProductWraps(Corrected(d + 1))
            THEN Shown(d + 1) >= AtMost(Start(dy, Last))
            ELSE Shown(d) <= Shown(d + 1)
===============================================================================
