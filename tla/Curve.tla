--------------------------------- MODULE Curve ---------------------------------
(***************************************************************************)
(* The curve between the value of the sensor and micrograms, made of       *)
(* straight segments: data2pm25 and pm252data of main.c, with the tables   *)
(* of TSI_MODE.  Segment i is dx[i] values and dy[i] micrograms wide.      *)
(***************************************************************************)
EXTENDS Integers, FiniteSets, Functions

CONSTANTS
    dx, dy,     \* the tables
    WORD,       \* 2^32
    MOST        \* 99999, the largest number the display can show

Last == Cardinality(DOMAIN dx) - 1

ASSUME TableAssumption ==
    /\ Last \in Nat /\ DOMAIN dx = 0 .. Last /\ DOMAIN dy = 0 .. Last
    /\ \A i \in 0 .. Last : /\ dx[i] \in Nat /\ dx[i] > 0
                            /\ dy[i] \in Nat /\ dy[i] > 0
                            /\ dx[i] * dy[i] <= WORD   \* 70000 * 42000 < 2^32
ASSUME WordAssumption == {WORD, MOST} \subseteq Nat /\ WORD > MOST

-------------------------------------------------------------------------------
\* Where segment i of a table begins.
Start(table, i) == SumFunctionOnSet(table, 0 .. i - 1)

\* The segment a loop over the table stops at; the last one has no end.
SegmentOf(table, x) == Cardinality({i \in 1 .. Last : Start(table, i) <= x})

AtMost(n) == IF n > MOST THEN MOST ELSE n
\* pm25 of data2pm25: the product is a uint32_t, so that it wraps.
Data2Pm25(data) ==
    LET i == SegmentOf(dx, data)
    IN  AtMost(Start(dy, i) + (((data - Start(dx, i)) * dy[i]) % WORD) \div dx[i])

\* Far up in the last segment it does.
ProductWraps(data) == (data - Start(dx, Last)) * dy[Last] >= WORD

(* Not code: the number of micrograms the curve means, of a product that   *)
(* has the room it needs.                                                  *)
Exact(data) ==
    LET i == SegmentOf(dx, data)
    IN  AtMost(Start(dy, i) + ((data - Start(dx, i)) * dy[i]) \div dx[i])

(* The loop of pm252data divides the size of a table of uint32_t by that   *)
(* of uint16_t: it runs on behind the table for all that the table does    *)
(* not hold.                                                               *)
InTable(pm25) == pm25 < Start(dy, Last + 1)

\* pm252data, of what the table holds.
Pm252Data(pm25) ==
    LET i == SegmentOf(dy, pm25)
    IN  Start(dx, i) + ((pm25 - Start(dy, i)) * dx[i]) \div dy[i]
===============================================================================
