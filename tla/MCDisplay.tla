------------------------------- MODULE MCDisplay -------------------------------
(***************************************************************************)
(* The notes, the sizes and the units of the code, ages on either side of  *)
(* every change of unit and number of digits, the age a time from before   *)
(* the measurement gives, and concentrations of every number of digits.    *)
(* Together they have each of the ten digits in each of the three sizes.   *)
(***************************************************************************)
EXTENDS Display

MC_notes ==
    <<
      <<129, 2, 23, 133, 2, 6, 19, 23, 141, 2, 5, 19, 23, 142, 3, 4,
        21, 22, 143, 144, 3, 4, 21, 22, 145, 2, 5, 20, 23, 146, 2, 6,
        19, 23, 156, 2, 5, 6, 19, 20, 23, 157, 2, 4, 5, 20, 21, 23,
        158, 2, 3, 4, 21, 22, 23, 159, 3, 22, 160, 255>>,
      <<129, 7, 8, 130, 6, 8, 131, 5, 8, 132, 4, 8, 142, 5, 8, 143, 6,
        7, 144, 145, 6, 7, 146, 5, 8, 147, 4, 8, 157, 5, 8, 158, 6, 8,
        159, 7, 8, 160, 255>>,
      <<129, 3, 22, 130, 4, 21, 22, 23, 131, 5, 20, 21, 23, 132, 6,
        23, 133, 19, 23, 142, 5, 23, 143, 5, 22, 144, 5, 21, 145, 3,
        4, 5, 20, 146, 2, 5, 147, 2, 6, 156, 2, 5, 6, 19, 157, 2, 4,
        5, 20, 158, 2, 3, 4, 21, 159, 3, 22, 160, 255>>,
      <<129, 2, 21, 130, 3, 20, 21, 22, 131, 4, 19, 20, 22, 132, 5,
        18, 19, 22, 133, 18, 22, 142, 4, 18, 19, 22, 143, 4, 19, 20,
        21, 144, 4, 20, 145, 4, 18, 20, 21, 146, 19, 22, 147, 18, 22,
        156, 5, 18, 19, 22, 157, 4, 19, 20, 22, 158, 3, 20, 21, 22,
        159, 2, 21, 160, 255>>,
      <<129, 2, 3, 130, 2, 4, 22, 23, 131, 2, 5, 21, 23, 132, 2, 6,
        20, 23, 133, 2, 6, 19, 23, 142, 2, 23, 143, 3, 4, 5, 22, 144,
        4, 21, 145, 5, 20, 21, 22, 146, 20, 23, 147, 19, 23, 157, 20,
        23, 158, 21, 23, 159, 22, 23, 160, 255>>,
      <<129, 3, 22, 130, 2, 3, 4, 21, 131, 2, 4, 5, 20, 132, 2, 19,
        133, 2, 6, 142, 2, 20, 143, 3, 4, 5, 21, 144, 4, 21, 145, 5,
        20, 21, 22, 146, 20, 23, 147, 19, 23, 156, 6, 19, 20, 23, 157,
        5, 20, 21, 23, 158, 4, 21, 22, 23, 159, 3, 22, 160, 255>>,
      <<129, 3, 22, 130, 2, 3, 4, 21, 131, 2, 4, 5, 20, 132, 2, 5, 6,
        19, 133, 2, 6, 142, 2, 20, 143, 3, 4, 5, 21, 144, 4, 21, 145,
        3, 4, 5, 20, 21, 22, 146, 2, 5, 20, 23, 147, 2, 6, 19, 23,
        156, 2, 5, 6, 19, 20, 23, 157, 2, 4, 5, 20, 21, 23, 158, 2, 3,
        4, 21, 22, 23, 159, 3, 22, 160, 255>>,
      <<129, 2, 22, 130, 3, 22, 131, 4, 22, 132, 5, 22, 133, 18, 22,
        141, 19, 22, 142, 20, 21, 143, 144, 20, 21, 145, 19, 22, 146,
        18, 22, 157, 19, 22, 158, 20, 22, 159, 21, 22, 160, 255>>,
      <<129, 3, 23, 130, 2, 3, 4, 23, 131, 2, 4, 5, 23, 132, 2, 5, 6,
        23, 133, 2, 6, 19, 23, 142, 2, 23, 143, 3, 4, 5, 22, 144, 4,
        21, 145, 3, 4, 5, 20, 21, 22, 146, 2, 5, 20, 23, 147, 2, 6,
        19, 23, 156, 2, 5, 6, 19, 20, 23, 157, 2, 4, 5, 20, 21, 23,
        158, 2, 3, 4, 21, 22, 23, 159, 3, 22, 160, 255>>,
      <<129, 3, 22, 130, 2, 3, 4, 21, 22, 23, 131, 2, 4, 5, 20, 21,
        23, 132, 2, 5, 6, 19, 20, 23, 133, 2, 6, 19, 23, 142, 2, 23,
        143, 3, 4, 5, 22, 144, 4, 21, 145, 5, 20, 21, 22, 146, 20, 23,
        147, 19, 23, 156, 6, 19, 20, 23, 157, 5, 20, 21, 23, 158, 4,
        21, 22, 23, 159, 3, 22, 160, 255>>
    >>

SizeOf(w, h, xscale, yscale) ==
    [w |-> w, h |-> h, xscale |-> xscale, yscale |-> yscale]
MC_Sizes == [big    |-> SizeOf(18, 30, 75, 90),
             middle |-> SizeOf(12, 20, 50, 54),
             small  |-> SizeOf(12, 16, 44, 44)]

MC_div_for_time == [u \in Seconds .. Months - 1 |-> <<60, 60, 24, 30>>[u + 1]]

Minute == 60
Hour == 60 * Minute
Day == 24 * Hour
Input(status, hold, num, time) ==
    [system_status |-> status, is_hold |-> hold, pm2_5 |-> num, pm10 |-> num + 3,
     time |-> time]
MC_Inputs ==
    {Input("REALTIME", hold, num, 0) : hold \in BOOLEAN, num \in {105, 23456}}
    \cup {Input("POWERSAVE", FALSE, num, 0) :
             num \in {0, 7, 996, 12340, 56785, 99996}}
    \cup {Input("HISTORY", FALSE, 56789, time) :
             time \in {0, 9, 59, Minute, 10 * Minute - 1, 47 * Minute + 36, Hour - 1,
                       Hour, Day - 1, Day, 8 * Day + 16 * Hour, 30 * Day - 1,
                       30 * Day, 24000 * Day}}
    \cup {Input("POWERDOFF", FALSE, 0, 0)}
===============================================================================
