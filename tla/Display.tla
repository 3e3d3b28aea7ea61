-------------------------------- MODULE Display --------------------------------
(***************************************************************************)
(* What is on the panel: oled_update of oled.c with the drawing of the     *)
(* four modes, the battery symbol of Battery and the age of Age.  The      *)
(* panel keeps what was drawn until something is drawn over it; all modes  *)
(* share it, and it is cleared only when the mode changes.                 *)
(*                                                                         *)
(* An item is a rectangle of the panel and what it shows.  The drawing of  *)
(* a rectangle blanks it first; an item that is drawn over in part leaves  *)
(* its other parts.  The pictures of the items, and aqi_level, which only  *)
(* chooses between pictures of one size, are left out.                     *)
(***************************************************************************)
EXTENDS Battery, Age, Number

Status == {"REALTIME", "POWERSAVE", "HISTORY", "POWERDOFF"}

CONSTANT Inputs     \* of oled_status_t

FiveDigits == 0 .. 99999

ASSUME InputsAssumption ==
    Inputs \subseteq [system_status : Status, is_hold : BOOLEAN,
                      pm2_5 : FiveDigits, pm10 : FiveDigits, time : Nat]

\* The cells of numbers and ages fit where they are drawn.
ASSUME SizesAssumption ==
    /\ \A name \in {"big", "middle", "small"} :
           Sizes[name].w \in Nat \ {0} /\ Sizes[name].h \in Nat \ {0}
    /\ 5 * Sizes.big.w <= 96 /\ Sizes.big.h <= 38          \* 18 and 30
    /\ 5 * Sizes.middle.w <= 60 /\ Sizes.middle.h <= 22    \* 12 and 20
    /\ Sizes.small.w <= 12

VARIABLES
    panel,                  \* the items on it
    last_system_status,     \* oled_update
    \* To state the properties with:
    drawn,                  \* the items of the last oled_update
    current                 \* nothing else was drawn since

displayVars == <<batteryVars, panel, last_system_status, drawn, current>>

-------------------------------------------------------------------------------
Rect(x, y, w, h) == [x |-> x, y |-> y, w |-> w, h |-> h]
Item(rect, name, value) == [rect |-> rect, what |-> <<name, value>>]
Screen == Rect(16, 0, 240, 64)      \* oled_clear_screen

Apart(p, q) == \/ p.x + p.w <= q.x \/ q.x + q.w <= p.x
               \/ p.y + p.h <= q.y \/ q.y + q.h <= p.y

\* What is left of rectangle p beside q, which meets it: left and right of it, above, below.
Left(p, q) ==
    LET x     == Max2(p.x, q.x)
        w     == Min({p.x + p.w, q.x + q.w}) - x
        end   == q.y + q.h
        parts == {Rect(p.x, p.y, q.x - p.x, p.h),
                  Rect(q.x + q.w, p.y, p.x + p.w - q.x - q.w, p.h),
                  Rect(x, p.y, w, q.y - p.y),
                  Rect(x, end, w, p.y + p.h - end)}
    IN  {r \in parts : r.w > 0 /\ r.h > 0}

Cleared(items, rect) ==
    LET touched == {item \in items : ~Apart(item.rect, rect)}
    IN  (items \ touched)
        \cup UNION {{[item EXCEPT !.rect = r] : r \in Left(item.rect, rect)} :
                    item \in touched}

(* A painting is <<rectangle, items>>: what is blanked, what is drawn.     *)
Painted(items, painting) == Cleared(items, painting[1]) \cup painting[2]
PictureOf(rect, name, value) == <<rect, {Item(rect, name, value)}>>
Picture(rect, name) == PictureOf(rect, name, 0)

-------------------------------------------------------------------------------
(* The paintings of a mode, in their order.  Of the picture of the hold    *)
(* tag only the columns 12 to 53 are not blank: it is wider than that of   *)
(* the mode it takes turns with.  Positions are in pixels, but two of them *)
(* are written at a time: a line one wide is two wide, and a picture at an *)
(* odd position begins one to the left.                                    *)
HoldTag == <<Rect(40, 0, 68, 16), {Item(Rect(52, 0, 42, 16), "hold", 0)}>>
ModeTag == Picture(Rect(40, 0, 64, 16), "realtime")

(* oled_show_num.  In both of the places for a concentration, five digits  *)
(* and the gap of the dot, all cells are drawn, blanks too.                *)
NumberAt(x, y, size, gap, num) ==
    PictureOf(Rect(x, y, 5 * size.w + gap, size.h),
              "number", <<Shown(num, FALSE, 5, 2), num, size>>)

Concentration(num) ==
    <<Picture(Rect(42, 37, 64, 16), "pm25"),
      Picture(Rect(214, 38, 38, 15), "ug"),
      NumberAt(110, 26, Sizes.big, 8, num)>>

\* oled_update_battery.
Battery(rect, symbol) == PictureOf(rect, "battery", symbol)
Small == Rect(232, 0, 24, 8)
Fullscreen == Rect(108, 16, 96, 32)

RealtimeMode(s, symbol) ==
    <<IF s.is_hold THEN HoldTag ELSE ModeTag>>
    \o Concentration(s.pm2_5)
    \o <<Battery(Small, symbol), Picture(Rect(120, 3, 72, 16), "description")>>

PowersaveMode(s, symbol) ==
    <<Picture(Rect(32, 32, 224, 1), "line"),
      Picture(Rect(148, 0, 2, 32), "line"),
      Picture(Rect(32, 6, 44, 9), "pm25"),
      Picture(Rect(36, 20, 32, 10), "ug"),
      Picture(Rect(154, 20, 32, 10), "ug"),
      Picture(Rect(150, 6, 40, 9), "pm10"),
      Picture(Rect(32, 40, 96, 16), "leveldes"),
      Picture(Rect(134, 38, 8, 16), "level"),
      Picture(Rect(142, 38, 24, 16), "ji"),
      Picture(Rect(176, 40, 72, 16), "description"),
      NumberAt(76, 10, Sizes.middle, 6, s.pm2_5),
      NumberAt(190, 10, Sizes.middle, 6, s.pm10),
      Battery(Small, symbol)>>

-------------------------------------------------------------------------------
(* The age: numbers and units side by side from x on, `ago', and blanks up *)
(* to where the longest age ends.                                          *)
AgeX == 112
timeoffset == <<8, 24, 8, 24, 8>>       \* the widths of the units
At(x, w) == Rect(AgeX + x, 0, w, 16)

CellsAt(x, cells, num) ==
    PictureOf(At(x, Sizes.small.w * Len(cells)), "age", <<cells, num, Sizes.small>>)
AgeNumber(x, num) == CellsAt(x, Shown(num, TRUE, 2, 10), num)
AgeUnit(x, unit) == PictureOf(At(x, timeoffset[unit + 1]), "unit", unit)

Width(paintings) == SumFunction([k \in DOMAIN paintings |-> paintings[k][1].w])

Then(paintings, num, unit) ==
    LET number == Append(paintings, AgeNumber(Width(paintings), num))
        Unit(ps) == Append(ps, AgeUnit(Width(ps), unit))
    IN  Unit(number)

AgePairs(age) ==
    Then(IF age.time > 0 THEN Then(<<>>, age.time, age.unit + 1) ELSE <<>>,
         age.subtime, age.unit)
Ago(age) ==
    IF Width(age) < 112 THEN Append(age, Picture(At(Width(age), 32), "ago")) ELSE age
Blanked(age) ==
    IF Width(age) < 116 THEN Append(age, <<At(Width(age), 116 - Width(age)), {}>>) ELSE age

\* Mutant for NothingLeftOver: nothing is blanked behind a short age.
AgeStripOnly(time) == Ago(AgePairs(AgeOf(time)))
AgeStrip(time) == Blanked(Ago(AgePairs(AgeOf(time))))

HistoryMode(s, symbol) ==
    <<Picture(Rect(40, 0, 72, 16), "history"), Battery(Small, symbol)>>
    \o Concentration(s.pm2_5) \o AgeStrip(s.time)

-------------------------------------------------------------------------------
\* oled_init clears the screen, and is called once.
InitDisplay ==
    /\ InitBattery
    /\ panel = {}
    /\ last_system_status = "POWERDOFF"
    /\ drawn = {}
    /\ current = TRUE

Before(status) == IF status # last_system_status THEN Cleared(panel, Screen) ELSE panel

(* What oled_update paints with battery symbol number symbol; with the     *)
(* power off that is the symbol alone, on the whole screen.                *)
Paintings(s, symbol) ==
    CASE s.system_status = "REALTIME" -> RealtimeMode(s, symbol)
      [] s.system_status = "POWERSAVE" -> PowersaveMode(s, symbol)
      [] s.system_status = "HISTORY" -> HistoryMode(s, symbol)
      [] OTHER -> <<Battery(Fullscreen, symbol)>>

PaintedOn(items, paintings) ==
    LET after[k \in 0 .. Len(paintings)] ==
            IF k = 0 THEN items ELSE Painted(after[k - 1], paintings[k])
    IN  after[Len(paintings)]

\* The paintings of all inputs, and what they make of an empty panel.
View(paintings) == [paintings |-> paintings, panel |-> PaintedOn({}, paintings)]
Views == [s \in Inputs |-> [symbol \in 0 .. Symbols |-> View(Paintings(s, symbol))]]

\* What the paintings leave of what was there.
Remains(items, paintings) ==
    LET rects == {paintings[k][1] : k \in DOMAIN paintings}
        rest  == {item \in items : item.rect \notin rects}
        blank == [k \in DOMAIN paintings |-> <<paintings[k][1], {}>>]
    IN  IF rest = {} THEN {} ELSE PaintedOn(rest, blank)

Draws(status, view) ==
    /\ panel' = Remains(Before(status), view.paintings) \cup view.panel
    /\ drawn' = UNION {view.paintings[k][2] : k \in DOMAIN view.paintings}

(* oled_update.  circle_callback has the level 0 drawn while it shows the  *)
(* low power message.  With the power off and neither that message nor a   *)
(* charger, the screen is cleared.                                         *)
Refresh(s, low, charge) ==
    LET level == IF low THEN 0 ELSE last_level
    IN  /\ last_system_status' = s.system_status
        /\ current' = TRUE
        /\ UNCHANGED last_level
        /\ IF s.system_status = "POWERDOFF" /\ ~low /\ ~charge
           THEN /\ panel' = Cleared(panel, Screen)
                /\ drawn' = {}
                /\ UNCHANGED <<charge_lvl, harf_lvl>>
           ELSE /\ IF charge THEN DrawCharging(level) ELSE DrawLevel(level)
                /\ Draws(s.system_status,
                         Views[s][IF charge THEN Run(level) ELSE SymbolOfLevel(level)])

\* oled_inform_check_result, when a command has arrived.
InformCheckResult ==
    /\ panel' = Cleared(panel, Rect(34, 24, 70, 30))
    /\ drawn' = {}
    /\ current' = FALSE
    /\ UNCHANGED <<batteryVars, last_system_status>>

Circle ==
    /\ \E reading \in Reading : GetLevel(reading)
    /\ UNCHANGED <<panel, last_system_status, drawn, current>>

NextDisplay ==
    \/ \E s \in Inputs, low, charge \in BOOLEAN : Refresh(s, low, charge)
    \/ InformCheckResult
    \/ Circle

SpecDisplay == InitDisplay /\ [][NextDisplay]_displayVars

-------------------------------------------------------------------------------
(* After oled_update the panel shows what this update drew, whole, and     *)
(* nothing else: no part of another mode, of a longer age, of a held tag   *)
(* or of another battery symbol is left over, no item was drawn over       *)
(* another, none reaches beyond the panel, and what the acknowledgement of *)
(* a command blanked is there again.  The battery symbol is one of the     *)
(* table, whatever levels were drawn before, charging and not.             *)
NothingLeftOver ==
    current =>
        /\ panel = drawn
        /\ \A p \in drawn :
               /\ p.what[1] = "battery" => p.what[2] < Symbols
               /\ p.rect.x >= Screen.x /\ p.rect.x + p.rect.w <= Screen.x + Screen.w
               /\ p.rect.y >= Screen.y /\ p.rect.y + p.rect.h <= Screen.y + Screen.h
               /\ \A q \in drawn \ {p} : Apart(p.rect, q.rect)

-------------------------------------------------------------------------------
\* What a note means: a pixel is painted when an odd number of the changes of
\* the last row at or above it lie at or left of it.
Meaning(note, size) ==
    LET rows(y) == {k \in DOMAIN note :
                       IsRow(note[k]) /\ Scaled(note[k] - 128, size.yscale) <= y}
        columns(k) == {c \in k + 1 .. NextRow(note, k + 1) - 1 : TRUE}
    IN  [y \in 0 .. size.h - 1 |->
            IF rows(y) = {} THEN {}
            ELSE {x \in 0 .. size.w - 1 :
                    Odd(Cardinality({c \in columns(Max(rows(y))) :
                                        Scaled(note[c], size.xscale) <= x}))}]

\* The digits that are drawn as they are meant, of each size.
Legible ==
    [name \in DOMAIN Sizes |->
        {d \in 0 .. 9 :
            LET draw == DrawnNote(notes[d + 1], Sizes[name])
            IN  /\ draw.i = Sizes[name].h
                /\ draw.screen = Meaning(notes[d + 1], Sizes[name])}]

Valued(digits) == FoldLeft(LAMBDA sum, d : 10 * sum + (d % 10), 0, digits)

(* A number on the display is the number it stands for: it has all its     *)
(* digits, two of them behind the dot of a concentration, no leading zero  *)
(* and no gap, and every digit is drawn, at its size, as its note means,   *)
(* although strokes that are two columns or rows apart coincide when they  *)
(* are made smaller.                                                       *)
NumbersReadable ==
    \A p \in drawn :
        p.what[1] \in {"number", "age"} =>
            LET cells  == p.what[2][1]
                digits == SelectSeq(cells, LAMBDA c : c # Dot)
                names  == {name \in DOMAIN Sizes : Sizes[name] = p.what[2][3]}
            IN  /\ Valued(digits) = p.what[2][2]
                /\ Range(digits) \subseteq {Blank} \cup UNION {Legible[name] : name \in names}
                /\ p.what[1] = "number" => Len(digits) = 5 /\ cells[4] = Dot
                /\ \A k \in 1 .. Len(digits) - 1 :
                       digits[k + 1] = Blank => digits[k] = Blank
                /\ \A k \in DOMAIN digits :
                       digits[k] = 0 /\ (k = 1 \/ digits[k - 1] = Blank)
                           => IF Dot \in Range(cells) THEN k = 3 ELSE digits = <<0>>
===============================================================================
