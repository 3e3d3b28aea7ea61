--------------------------------- MODULE Dust ---------------------------------
(***************************************************************************)
(* The smoothing of the dust value: algorithm_calculate of algorithm.c,    *)
(* for one of its two sizes of dust.  Every measurement adds the sample of *)
(* caldust to a fifo, averages the buffer under the fifo, and moves        *)
(* dust_value a part of the way to that average; the longer the average    *)
(* has been on one side of it, the larger the part.  With preclear it      *)
(* forgets what was measured before the device was off.                    *)
(*                                                                         *)
(* sumValue and sumCnt are never used, and the last value of tmp_value,    *)
(* the step, is never read: here tmp_value is the average.                 *)
(***************************************************************************)
EXTENDS Integers, Sequences, FiniteSetsExt, Functions

CONSTANTS
    AVG_BUFFER_SIZE,    \* slots of the fifo, a power of two
    HALF,               \* 2^15: bigger_last and smaller_last are int16_t
    SLOWNESS,           \* 1 / KVALUE
    MVALUE,
    BITS,               \* 24, of the significand of a float, and
    Power,              \* the powers of two, up to 2^BITS
    Samples             \* tmp_value + toohigh_value as caldust leaves them

ASSUME SizeAssumption == AVG_BUFFER_SIZE \in Nat /\ AVG_BUFFER_SIZE > 0
ASSUME SmoothingAssumption ==
    {HALF, SLOWNESS, MVALUE} \subseteq Nat /\ HALF > 1 /\ SLOWNESS > 0
ASSUME FloatAssumption ==
    /\ BITS \in Nat /\ BITS > 0
    /\ Power \in [0 .. BITS -> Nat \ {0}]
    /\ Power[0] = 1 /\ \A e \in 1 .. BITS : Power[e] = 2 * Power[e - 1]
ASSUME SamplesAssumption == Samples \subseteq Nat

Slot == 0 .. AVG_BUFFER_SIZE - 1

VARIABLES
    buffer,                     \* g_buffer_for_fifo
    read_index, write_index,    \* fifo_desc_t
    tmp_value,                  \* the average of the last measurement
    dust_value,
    bigger_last, smaller_last,  \* how long the average has been on a side
    \* What was measured, to state the properties with:
    taken,                      \* the last samples, at most AVG_BUFFER_SIZE
    flushed                     \* the buffer may hold samples of before

dustVars == <<buffer, read_index, write_index, tmp_value, dust_value,
          bigger_last, smaller_last, taken, flushed>>

\* The static variables, and algorithm_init.
InitDust ==
    /\ buffer = [i \in Slot |-> 0]
    /\ read_index = 0 /\ write_index = 0
    /\ tmp_value = 0 /\ dust_value = 0
    /\ bigger_last = 0 /\ smaller_last = 0
    /\ taken = <<>>
    /\ flushed = FALSE

-------------------------------------------------------------------------------
(* The fifo: its indices run over twice the slots, so that a full fifo is  *)
(* not taken for an empty one.                                             *)
Masked(i) == (i % (2 * AVG_BUFFER_SIZE))
UsedSize(r, w) == Masked(w - r)

\* Mutant for AverageOfTaken: a full fifo gives up nothing before the push.
NothingPulled == read_index
Pulled == IF UsedSize(read_index, write_index) = AVG_BUFFER_SIZE
          THEN Masked(read_index + 1) ELSE read_index

\* fifo_push_uint32, which refuses when the fifo is full.
Push(s) ==
    IF UsedSize(read_index', write_index) = AVG_BUFFER_SIZE
    THEN UNCHANGED <<buffer, write_index>>
    ELSE /\ buffer' = [buffer EXCEPT ![write_index % AVG_BUFFER_SIZE] = s]
         /\ write_index' = Masked(write_index + 1)

(* PVALUE is 1.2.  The sum runs over the whole buffer, whatever the fifo   *)
(* has in use of it.                                                       *)
Weighted(sum, count) == (6 * sum) \div (5 * count)

Average(b, used) == Weighted(SumFunctionOnSet(b, Slot), used)

(* An int16_t wraps at 2^15.  The counts then go on through the negative   *)
(* numbers and stop at -2, which is what UINT16_MAX - 1 is in 16 bits.     *)
Int16(n) == ((n + HALF) % (2 * HALF)) - HALF
Counted(c) == IF c = -2 THEN c ELSE Int16(c + 1)

-------------------------------------------------------------------------------
(* deltapm25, in units of 1 / SLOWNESS: at most half the distance rounded  *)
(* up.  The factor with the count is an int and wraps as well, from a      *)
(* count of 2^13 on.                                                       *)
Max2(a, b) == IF a > b THEN a ELSE b
Min2(a, b) == IF a < b THEN a ELSE b

(* dust_value is an integer and deltapm25 a double, which is a float of    *)
(* BITS here: their sum and their difference are rounded to the nearest    *)
(* number of BITS, that is to as many parts of one as leave v room, and    *)
(* then cut off towards zero.  So a fall that is not lost in the rounding  *)
(* moves at least by one, while a rise may not move at all.  Beyond        *)
(* 2^BITS, which the dust and light of size 0 do not reach, integers would *)
(* be rounded too; here they are not.                                      *)
Exponent(v) == Cardinality({e \in 1 .. BITS - 1 : Power[e] <= v})
Parts(v)    == Power[BITS - 1 - Exponent(v)]
Nearest(n, d) == (2 * n + d) \div (2 * d)
Whole(n) ==
    LET parts == Parts(n \div SLOWNESS)
    IN  Nearest(n * parts, SLOWNESS) \div parts
ToZero(n) == IF n >= 0 THEN Whole(n) ELSE -Whole(-n)

Factor(last) == Int16(1 + Max2(0, last) * MVALUE)

\* Mutant for StepsTowards: no limit to the step.
StepUnlimited(distance, last) == SLOWNESS * distance * Factor(last)
Step(distance, last) ==
    Min2(SLOWNESS * ((distance + 1) \div 2), distance * Factor(last))

Rise(value, step) == ToZero(SLOWNESS * value + step)
\* Mutant for ComesDown: the step, not the new value, is cut to an integer.
FallCut(value, step) == value - ToZero(step)
Fall(value, step) == ToZero(SLOWNESS * value - step)

Smooth(average) ==
    IF average > dust_value
    THEN /\ bigger_last' = Counted(bigger_last)
         /\ smaller_last' = 0
         /\ dust_value' =
                Rise(dust_value, Step(average - dust_value, bigger_last'))
    ELSE /\ smaller_last' = Counted(smaller_last)
         /\ bigger_last' = 0
         /\ dust_value' =
                Fall(dust_value, Step(dust_value - average, smaller_last'))

-------------------------------------------------------------------------------
\* algorithm_calculate(dustinfo, size, false), once caldust has found s.
Calculate(s) ==
    /\ read_index' = Pulled
    /\ Push(s)
    /\ tmp_value' = Average(buffer', UsedSize(read_index', write_index'))
    /\ Smooth(tmp_value')
    /\ taken' = Append(IF Len(taken) = AVG_BUFFER_SIZE
                       THEN Tail(taken) ELSE taken, s)
    /\ UNCHANGED flushed

\* algorithm_calculate(dustinfo, size, true), with fifo_flush.
Preclear ==
    /\ dust_value' = 0
    /\ read_index' = 0 /\ write_index' = 0
    /\ taken' = <<>>
    /\ flushed' = TRUE
    /\ UNCHANGED <<buffer, tmp_value, bigger_last, smaller_last>>

Measure == \E s \in Samples : Calculate(s)
NextDust == Measure \/ Preclear

SpecDust == InitDust /\ [][NextDust]_dustVars

-------------------------------------------------------------------------------
Sum(s) == SumFunctionOnSet(s, DOMAIN s)

(* The average is that of the samples taken, as long as nothing was        *)
(* flushed, and again as soon as the buffer has been filled since: the     *)
(* sum runs over slots that fifo_flush left in place.  Whatever these      *)
(* hold, the average is never lower than that of the samples taken: right  *)
(* after turning on the device may show too much dust, never too little.   *)
AverageOfTaken ==
    LET average == Weighted(Sum(taken), Len(taken))
    IN  taken # <<>> =>
            /\ tmp_value >= average
            /\ ~flushed \/ Len(taken) = AVG_BUFFER_SIZE => tmp_value = average

(* The smoothed value goes towards the average and not past it, and from   *)
(* two or more away never all the way at once, as long as the factor of    *)
(* the step has not wrapped; with a negative factor (2^13 measurements on  *)
(* one side of the average) the code moves away from the average.          *)
Wrapped == 1 + MVALUE * Max2(bigger_last', smaller_last') >= HALF
StepsTowards ==
    [][Measure /\ ~Wrapped =>
          /\ dust_value <= tmp_value'
                 => dust_value' \in dust_value .. tmp_value'
          /\ dust_value >= tmp_value'
                 => dust_value' \in tmp_value' .. dust_value
          /\ dust_value \notin tmp_value' - 1 .. tmp_value' + 1
                 => dust_value' # tmp_value']_dustVars

(* In steady air the smoothed value comes down for good as near to the     *)
(* average as a float can tell them apart, in spite of the counts and      *)
(* factors that wrap: a reading that is too high does not last.  With the  *)
(* smallest factor, which a count that has come to its end leaves for      *)
(* good, that is 1.2 percent: SLOWNESS / 2^BITS of the value.  Upwards the *)
(* code promises less: a rise stops as soon as its step is below one.      *)
Settled ==
    \/ dust_value <= tmp_value
    \/ (dust_value - tmp_value) * Power[BITS] <= dust_value * SLOWNESS
ComesDown ==
    \A s \in Samples :
        <>[](taken = [i \in 1 .. AVG_BUFFER_SIZE |-> s]) => <>[]Settled
===============================================================================
