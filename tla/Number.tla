--------------------------------- MODULE Number --------------------------------
(***************************************************************************)
(* Numbers on the display: the digits oled_show_num of oled.c shows, and   *)
(* the drawing of one by oled_shownote.                                    *)
(*                                                                         *)
(* A digit is stored once, as a note: bytes with the high bit set begin a  *)
(* row, the others are the columns at which the paint of that row goes on  *)
(* or off; a row holds until the next.  It is drawn in three sizes, with   *)
(* rows and columns scaled and rounded, so that neighbours may coincide.   *)
(***************************************************************************)
EXTENDS Integers, Sequences, SequencesExt

CONSTANT
    notes,      \* notes0 to notes9, as sequences of bytes
    Sizes       \* [w, h, xscale, yscale], the scales in hundredths

-------------------------------------------------------------------------------
\* Behind a note the code copies whatever follows it in the flash.  No note of
\* the code's is read that far: its last byte begins a row, which ends the one
\* before.
ByteAt(note, index) ==
    IF index <= Len(note) THEN note[index] ELSE CHOOSE byte \in 0 .. 255 : TRUE
IsRow(byte) == byte >= 128
Scaled(n, scale) == (2 * n * scale + 100) \div 200

\* Mutant for NumbersReadable: two changes that coincide count as one.
ColumnOnce(note, xscale, acc, x) ==
    LET here  == ByteAt(note, acc.index)
        meets == ~IsRow(here) /\ Scaled(here, xscale) = x
        paint == acc.paint # meets
    IN  [index |-> acc.index + (IF meets THEN 1 ELSE 0),
         paint |-> paint,
         ink   |-> IF paint THEN acc.ink \cup {x} ELSE acc.ink]
\* A column of a row: of two changes that coincide neither counts.
Column(note, xscale, acc, x) ==
    LET At(k) == Scaled(ByteAt(note, acc.index + k), xscale)
        InRow(k) == ~IsRow(ByteAt(note, acc.index + k))
        meets == InRow(0) /\ At(0) = x
        twice == meets /\ InRow(1) /\ At(1) = x
        paint == acc.paint # (meets /\ ~twice)
    IN  [index |-> acc.index + (IF twice THEN 2 ELSE IF meets THEN 1 ELSE 0),
         paint |-> paint,
         ink   |-> IF paint THEN acc.ink \cup {x} ELSE acc.ink]

Row(note, size, first) ==
    LET upto[x \in 0 .. size.w] ==
            IF x = 0 THEN [index |-> first, paint |-> FALSE, ink |-> {}]
            ELSE Column(note, size.xscale, upto[x - 1], x - 1)
    IN  upto[size.w]

NextRow(note, index) ==
    CHOOSE k \in index .. Len(note) :
        IsRow(note[k]) /\ \A j \in index .. k - 1 : ~IsRow(note[j])

(* oled_shownote: a row of the note that is scaled to the row drawn last   *)
(* is drawn over it; a row of the screen without one of the note repeats   *)
(* the one above.                                                          *)
Pass(note, size, acc) ==
    LET at  == NextRow(note, acc.index)
        y   == Scaled(note[at] - 128, size.yscale)
        row == IF y < acc.i THEN acc.i - 1 ELSE acc.i
        new == Row(note, size, at + 1)
    IN  IF y = row
        THEN [i |-> row + 1, index |-> new.index,
              screen |-> [acc.screen EXCEPT ![row] = new.ink]]
        ELSE [i |-> row + 1, index |-> at,
              screen |-> [acc.screen EXCEPT
                             ![row] = IF row = 0 THEN {} ELSE acc.screen[row - 1]]]

\* Every pass draws a row; one is drawn again for a row of the note at most.
DrawnNote(note, size) ==
    LET after[pass \in 0 .. size.h + Len(note)] ==
            IF pass = 0
            THEN [i |-> 0, index |-> 1, screen |-> [y \in 0 .. size.h - 1 |-> {}]]
            ELSE LET acc == after[pass - 1]
                 IN  IF acc.i = size.h THEN acc ELSE Pass(note, size, acc)
    IN  after[size.h + Len(note)]

-------------------------------------------------------------------------------
div_nums == <<10000, 1000, 100, 10, 1>>
Digit(num, i) == (num \div div_nums[i + 1]) % 10

(* The digits of oled_show_num from left to right, at most width of them;  *)
(* a leading zero is a blank, or nothing with leftJust, up to the digit    *)
(* before the dot.  For a zero without a dot one digit is drawn at last.   *)
Leading(num, i, dot_position) ==
    i < dot_position /\ \A k \in 0 .. i : Digit(num, k) = 0
Blank == 10
Dot == 11

Cell(num, i, leftJust, dot_position) ==
    (IF ~Leading(num, i, dot_position) THEN <<Digit(num, i)>>
     ELSE IF leftJust THEN <<>> ELSE <<Blank>>)
    \o (IF i = dot_position THEN <<Dot>> ELSE <<>>)

Cut(cells, width) ==
    IF cells = <<>> THEN <<0>>
    ELSE LET most == IF Dot \in Range(cells) THEN width + 1 ELSE width
         IN  IF Len(cells) > most THEN SubSeq(cells, 1, most) ELSE cells

Shown(num, leftJust, width, dot_position) ==
    Cut(FlattenSeq([i \in 1 .. 5 |-> Cell(num, i - 1, leftJust, dot_position)]), width)
===============================================================================
