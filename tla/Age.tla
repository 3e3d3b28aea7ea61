---------------------------------- MODULE Age ----------------------------------
(***************************************************************************)
(* The age of a measurement as oled_history_mode of oled.c puts it: two    *)
(* numbers with the names of two neighbouring units, `5 days 3 hours ago'. *)
(***************************************************************************)
EXTENDS Integers, FiniteSetsExt

CONSTANT div_for_time   \* how many of unit i are one of unit i + 1

Seconds == 0
Months == 4

ASSUME DivAssumption ==
    /\ DOMAIN div_for_time = Seconds .. Months - 1
    /\ \A i \in Seconds .. Months - 1 :
           /\ div_for_time[i] \in Nat /\ div_for_time[i] > 0
           /\ div_for_time[i] <= 100     \* two digits hold what is left

\* A unit in seconds.
Length(unit) ==
    LET upto[u \in Seconds .. Months] ==
            IF u = Seconds THEN 1 ELSE div_for_time[u - 1] * upto[u - 1]
    IN  upto[unit]

(* The loop divides time by one unit after the other until what is left    *)
(* fits into the next.  It divides three times at the most: if even then   *)
(* it does not fit, i is one further, but time is not divided again, so    *)
(* that days are called months, and hours days.                            *)
Divided == Seconds .. Months - 2
Fits(time, i) == time \div Length(i + 1) < div_for_time[i + 1]
Named(time) ==
    LET fit == {i \in Divided : Fits(time, i)}
    IN  IF fit = {} THEN Months - 1 ELSE Min(fit)

AgeOf(time) ==
    LET i == Named(time)
        n == IF i \in Divided THEN i ELSE Months - 2
        most == time \div Length(n + 1)
    IN  [time    |-> IF most > 99 THEN 99 ELSE most,
         subtime |-> (time \div Length(n)) % div_for_time[n],
         unit    |-> i]

\* What a reader makes of it, in seconds.
Meant(age) == age.time * Length(age.unit + 1) + age.subtime * Length(age.unit)
===============================================================================
