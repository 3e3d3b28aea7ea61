------------------------------ MODULE DisplayProofs ----------------------------
(*****************************************************************************)
(* Proofs about what is shown: the units of Age, for every list of them;    *)
(* the level of Battery, for every even number of thresholds and all        *)
(* readings; and the panel of Display, for all inputs, whatever modes,      *)
(* ages, numbers and battery symbols follow each other, and all sizes of    *)
(* digits that fit where they are drawn.                                    *)
(*****************************************************************************)
EXTENDS Display, Arithmetic

-------------------------------------------------------------------------------
(* The units of an age, for every list of them.                            *)

(* The recursion of Length has its fixpoint, which is Length itself.       *)
LEMMA LengthFun ==
  \E f : /\ \A u \in Seconds .. Months : Length(u) = f[u]
         /\ f = [u \in Seconds .. Months |->
                   IF u = Seconds THEN 1 ELSE div_for_time[u - 1] * f[u - 1]]
<1> DEFINE d == div_for_time
           g == [u \in Seconds .. Months |->
                  IF u = 0 THEN 1 ELSE IF u = 1 THEN d[0] * 1
                  ELSE IF u = 2 THEN d[1] * (d[0] * 1)
                  ELSE IF u = 3 THEN d[2] * (d[1] * (d[0] * 1))
                  ELSE d[3] * (d[2] * (d[1] * (d[0] * 1)))]
           Is(f) == f = [u \in Seconds .. Months |->
                   IF u = Seconds THEN 1 ELSE div_for_time[u - 1] * f[u - 1]]
           h == CHOOSE f : Is(f)
<1>1. Is(g)
  BY DEF Seconds, Months
<1>2. Is(h)
  <2> HIDE DEF Is
  <2> QED BY <1>1
<1>3. \A u \in Seconds .. Months : Length(u) = h[u]
  BY DEF Length
<1> QED BY <1>2, <1>3

(* A unit is so many of the one below it.                                  *)
LEMMA LengthIs ==
    /\ \A u \in 0 .. 4 : Length(u) \in Nat /\ Length(u) > 0
    /\ \A u \in 0 .. 3 : /\ div_for_time[u] \in 1 .. 100
                         /\ Length(u + 1) = div_for_time[u] * Length(u)
<1>1. PICK f : /\ \A u \in Seconds .. Months : Length(u) = f[u]
               /\ f = [u \in Seconds .. Months |->
                         IF u = Seconds THEN 1 ELSE div_for_time[u - 1] * f[u - 1]]
  BY LengthFun
<1>2. \A u \in 0 .. 3 : div_for_time[u] \in 1 .. 100
  BY DivAssumption DEF Seconds, Months
<1>3. /\ Length(0) = 1
      /\ \A u \in 0 .. 3 : Length(u + 1) = div_for_time[u] * Length(u)
  <2>1. \A w \in 0 .. 4 : f[w] = IF w = 0 THEN 1
                                  ELSE div_for_time[w - 1] * f[w - 1]
    BY <1>1 DEF Seconds, Months
  <2>2. ASSUME NEW u \in 0 .. 3 PROVE f[u + 1] = div_for_time[u] * f[u]
    <3>1. u + 1 \in 0 .. 4 /\ u + 1 # 0 /\ u + 1 - 1 = u
      OBVIOUS
    <3> QED BY <2>1, <3>1
  <2> QED BY <1>1, <2>1, <2>2 DEF Seconds, Months
<1>4. ASSUME NEW u \in 0 .. 3, Length(u) \in Nat, Length(u) > 0
      PROVE  Length(u + 1) \in Nat /\ Length(u + 1) > 0
  <2>1. div_for_time[u] \in Nat /\ div_for_time[u] > 0
    BY <1>2
  <2> QED BY <1>3, <1>4, <2>1, ProductPositive
<1>5. /\ Length(1) \in Nat /\ Length(1) > 0
      /\ Length(2) \in Nat /\ Length(2) > 0
      /\ Length(3) \in Nat /\ Length(3) > 0
      /\ Length(4) \in Nat /\ Length(4) > 0
  BY <1>3, <1>4
<1> QED BY <1>2, <1>3, <1>5

-------------------------------------------------------------------------------
(* The level of the battery.                                               *)

(* What one reading makes of the level: it follows an even reading, and    *)
(* leaves the level at an odd one next to it.                              *)
LEMMA LevelNear ==
    ASSUME NEW last \in Int, NEW a \in Nat
    PROVE  /\ Level(a, last) \in Int
           /\ Away(a, Level(a, last)) <= 1
           /\ ~Odd(a) => Level(a, last) = a
           /\ Odd(a) /\ Away(a, last) = 1 => Level(a, last) = last
<1>1. Away(a, last) \in Nat
  BY DEF Away
<1>2. CASE ~Odd(a)
  BY <1>2 DEF Level, Away
<1>3. CASE Odd(a) /\ Away(a, last) > 1
  <2>1. Level(a, last) = 2 * (a \div 2)
    BY <1>3 DEF Level
  <2>2. 2 * (a \div 2) = a - 1
    BY <1>3 DEF Odd
  <2>3. a - 1 \in Int /\ Away(a, a - 1) = 1
    BY DEF Away
  <2> QED BY <1>3, <2>1, <2>2, <2>3
<1>4. CASE Odd(a) /\ ~(Away(a, last) > 1)
  BY <1>1, <1>4 DEF Level
<1> QED BY <1>2, <1>3, <1>4

(* From whatever level the readings go on, they bring it next to them, and *)
(* two neighbours in turn settle it.                                       *)
LEMMA Follows == last_level \in Int => LevelFollows
<1> SUFFICES ASSUME last_level \in Int, NEW a \in Reading, NEW b \in Reading,
                    NEW level, level = Level(a, last_level)
             PROVE  /\ Away(a, level) <= 1
                    /\ Away(a, b) = 1 =>
                           \/ Level(b, level) = level
                           \/ Level(a, Level(b, level)) = Level(b, level)
  BY DEF LevelFollows
<1>1. a \in Nat /\ b \in Nat
  BY StepsAssumption DEF Reading
<1>2. /\ level \in Int /\ Away(a, level) <= 1
      /\ ~Odd(a) => level = a
  BY <1>1, LevelNear
<1>3. ASSUME Away(a, b) = 1
      PROVE  \/ Level(b, level) = level
             \/ Level(a, Level(b, level)) = Level(b, level)
  <2>1. Odd(a) <=> ~Odd(b)
    BY <1>1, <1>3 DEF Odd, Away
  <2>2. Away(b, a) = 1
    BY <1>1, <1>3 DEF Away
  <2>3. CASE ~Odd(a)
    BY <1>1, <1>2, <2>1, <2>2, <2>3, LevelNear
  <2>4. CASE Odd(a)
    <3>1. Level(b, level) = b
      BY <1>1, <1>2, <2>1, <2>4, LevelNear
    <3>2. Level(a, b) = b
      BY <1>1, <1>3, <2>4, LevelNear
    <3> QED BY <3>1, <3>2
  <2> QED BY <2>3, <2>4
<1> QED BY <1>2, <1>3

(* The level is a number, whatever the refreshes and commands of Display.  *)
LevelType == last_level \in Int

(* Every circle, refresh and acknowledged command keeps it one.            *)
LEMMA NextLevelType == LevelType /\ [NextDisplay]_displayVars => LevelType'
<1> SUFFICES ASSUME LevelType, [NextDisplay]_displayVars PROVE LevelType'
  OBVIOUS
<1>1. CASE Circle
  <2> PICK reading \in Reading : GetLevel(reading)
    BY <1>1 DEF Circle
  <2>1. reading \in Nat
    BY StepsAssumption DEF Reading
  <2>2. last_level' = Level(reading, last_level)
    BY DEF GetLevel
  <2> QED BY <2>1, <2>2, LevelNear DEF LevelType
<1>2. ASSUME NEW s \in Inputs, NEW low \in BOOLEAN, NEW charge \in BOOLEAN,
             Refresh(s, low, charge)
      PROVE  LevelType'
  BY <1>2 DEF Refresh, LevelType
<1>3. CASE InformCheckResult
  BY <1>3 DEF InformCheckResult, batteryVars, LevelType
<1>4. CASE UNCHANGED displayVars
  BY <1>4 DEF displayVars, batteryVars, LevelType
<1> QED BY <1>1, <1>2, <1>3, <1>4 DEF NextDisplay

(* battery_get_level: for every number of thresholds and every sequence of *)
(* readings the level stays next to the voltage, and a voltage between two *)
(* neighbouring readings does not move it to and fro.                      *)
THEOREM LevelStaysNear == SpecDisplay => []LevelFollows
<1>1. InitDisplay => LevelType
  BY DEF InitDisplay, InitBattery, LevelType
<1>2. LevelType => LevelFollows
  BY Follows DEF LevelType
<1> QED BY <1>1, <1>2, NextLevelType, PTL DEF SpecDisplay

-------------------------------------------------------------------------------
(* The panel: rectangles and the pixels in them.                           *)
Rects == [x : Int, y : Int, w : Nat \ {0}, h : Nat \ {0}]

In(x, y, r) == x >= r.x /\ x < r.x + r.w /\ y >= r.y /\ y < r.y + r.h

(* Items, and what one of them covers.                                     *)
Drawable(items) ==
    \A i \in items : i = [rect |-> i.rect, what |-> i.what] /\ i.rect \in Rects

Holds(items, x, y) == \E i \in items : In(x, y, i.rect)

(* A rectangle that meets another leaves proper ones beside it.            *)
LEMMA LeftIs ==
    ASSUME NEW p \in Rects, NEW q \in Rects, ~Apart(p, q), NEW r \in Left(p, q)
    PROVE  /\ r \in Rects
           /\ \A x, y \in Int : In(x, y, r) => In(x, y, p) /\ ~In(x, y, q)
<1> PICK a \in Int : a = Max2(p.x, q.x)
  BY DEF Max2, Rects
<1> PICK e \in Int : e = Min({p.x + p.w, q.x + q.w})
  <2>1. \A m, n \in Int : Min({m, n}) = IF m <= n THEN m ELSE n
    BY DEF Min
  <2> QED BY <2>1 DEF Rects
<1>1. /\ a >= p.x /\ a >= q.x /\ a \in {p.x, q.x}
      /\ e <= p.x + p.w /\ e <= q.x + q.w /\ e \in {p.x + p.w, q.x + q.w}
  <2>1. a >= p.x /\ a >= q.x /\ a \in {p.x, q.x}
    BY DEF Max2, Rects
  <2>2. \A m, n \in Int : Min({m, n}) \in {m, n} /\ Min({m, n}) <= m /\ Min({m, n}) <= n
    <3>1. \A m, n \in Int : Min({m, n}) = IF m <= n THEN m ELSE n
      BY DEF Min
    <3> QED BY <3>1
  <2> QED BY <2>1, <2>2 DEF Rects
<1>2. /\ p.x < q.x + q.w /\ q.x < p.x + p.w
      /\ p.y < q.y + q.h /\ q.y < p.y + p.h
  BY DEF Apart, Rects
<1>3. /\ r \in {Rect(p.x, p.y, q.x - p.x, p.h),
                Rect(q.x + q.w, p.y, p.x + p.w - q.x - q.w, p.h),
                Rect(a, p.y, e - a, q.y - p.y),
                Rect(a, q.y + q.h, e - a, p.y + p.h - (q.y + q.h))}
      /\ r.w > 0 /\ r.h > 0
  BY DEF Left
<1>4. r \in Rects
  BY <1>3 DEF Rect, Rects
<1>5. ASSUME NEW x \in Int, NEW y \in Int, In(x, y, r)
      PROVE  In(x, y, p) /\ ~In(x, y, q)
  <2>1. CASE r = Rect(p.x, p.y, q.x - p.x, p.h)
    BY <1>2, <1>5, <2>1 DEF Rect, Rects, In
  <2>2. CASE r = Rect(q.x + q.w, p.y, p.x + p.w - q.x - q.w, p.h)
    BY <1>2, <1>5, <2>2 DEF Rect, Rects, In
  <2>3. CASE r = Rect(a, p.y, e - a, q.y - p.y)
    BY <1>1, <1>2, <1>5, <2>3 DEF Rect, Rects, In
  <2>4. CASE r = Rect(a, q.y + q.h, e - a, p.y + p.h - (q.y + q.h))
    BY <1>1, <1>2, <1>5, <2>4 DEF Rect, Rects, In
  <2> QED BY <1>3, <2>1, <2>2, <2>3, <2>4
<1> QED BY <1>4, <1>5

(* Blanking a rectangle leaves no more than there was, and nothing in it.  *)
LEMMA ClearedIs ==
    ASSUME NEW items, Drawable(items), NEW rect \in Rects
    PROVE  /\ Drawable(Cleared(items, rect))
           /\ \A x, y \in Int : Holds(Cleared(items, rect), x, y)
                                    => Holds(items, x, y) /\ ~In(x, y, rect)
<1>1. ASSUME NEW i \in Cleared(items, rect)
      PROVE  /\ i = [rect |-> i.rect, what |-> i.what] /\ i.rect \in Rects
             /\ \A x, y \in Int : In(x, y, i.rect)
                                    => Holds(items, x, y) /\ ~In(x, y, rect)
  <2>1. CASE i \in items /\ Apart(i.rect, rect)
    <3>1. i = [rect |-> i.rect, what |-> i.what] /\ i.rect \in Rects
      BY <2>1 DEF Drawable
    <3>2. \A x, y \in Int : In(x, y, i.rect) => ~In(x, y, rect)
      BY <2>1, <3>1 DEF Apart, In, Rects
    <3> QED BY <2>1, <3>1, <3>2 DEF Holds
  <2>2. CASE \E j \in items : \E r \in Left(j.rect, rect) :
                 ~Apart(j.rect, rect) /\ i = [j EXCEPT !.rect = r]
    <3>1. PICK j \in items : \E r \in Left(j.rect, rect) :
                   ~Apart(j.rect, rect) /\ i = [j EXCEPT !.rect = r]
      BY <2>2
    <3> PICK r \in Left(j.rect, rect) :
                   ~Apart(j.rect, rect) /\ i = [j EXCEPT !.rect = r]
      BY <3>1
    <3>2. j = [rect |-> j.rect, what |-> j.what] /\ j.rect \in Rects
      BY DEF Drawable
    <3>3. i = [rect |-> r, what |-> j.what]
      BY <3>1, <3>2
    <3>4. /\ r \in Rects
          /\ \A x, y \in Int : In(x, y, r) => In(x, y, j.rect) /\ ~In(x, y, rect)
      BY <3>1, <3>2, LeftIs
    <3> QED BY <3>3, <3>4 DEF Holds
  <2> QED BY <1>1, <2>1, <2>2 DEF Cleared
<1> QED BY <1>1 DEF Drawable, Holds

(* Blanking where nothing is changes nothing.                              *)
LEMMA ClearedApart ==
    ASSUME NEW items, NEW rect, \A i \in items : Apart(i.rect, rect)
    PROVE  Cleared(items, rect) = items
BY DEF Cleared

(* Items that cover nothing are none.                                      *)
LEMMA NothingHeld ==
    ASSUME NEW items, Drawable(items), \A x, y \in Int : ~Holds(items, x, y)
    PROVE  items = {}
<1> SUFFICES ASSUME NEW i \in items PROVE FALSE
  OBVIOUS
<1>1. i.rect \in Rects
  BY DEF Drawable
<1>2. i.rect.x \in Int /\ i.rect.y \in Int /\ In(i.rect.x, i.rect.y, i.rect)
  BY <1>1 DEF Rects, In
<1> QED BY <1>2 DEF Holds

-------------------------------------------------------------------------------
(* One painting after another.                                             *)
After(items, ps, n, f) ==
    f = [k \in 0 .. n |-> IF k = 0 THEN items ELSE Painted(f[k - 1], ps[k])]

(* The recursion of PaintedOn has a fixpoint.                              *)
LEMMA AfterExists ==
    ASSUME NEW items, NEW ps, NEW m \in Nat
    PROVE  \E f : After(items, ps, m, f)
<1> DEFINE B == {n \in Nat : ~ \E f : After(items, ps, n, f)}
<1> SUFFICES ASSUME B # {} PROVE FALSE
  OBVIOUS
<1>1. PICK n \in B : \A k \in B : n <= k
  <2>1. B \in SUBSET Nat
    OBVIOUS
  <2> HIDE DEF B
  <2> QED BY <2>1, SmallestNumber
<1>2. n # 0
  <2> DEFINE f == [k \in 0 .. 0 |-> items]
  <2>1. After(items, ps, 0, f)
    BY DEF After
  <2> QED BY <1>1, <2>1
<1>3. n - 1 \in Nat /\ n - 1 \notin B
  BY <1>1, <1>2
<1>4. PICK f : After(items, ps, n - 1, f)
  BY <1>3
<1> DEFINE g == [k \in 0 .. n |-> IF k = n THEN Painted(f[n - 1], ps[n]) ELSE f[k]]
<1>5. After(items, ps, n, g)
  <2>1. \A k \in 0 .. n - 1 : f[k] = IF k = 0 THEN items ELSE Painted(f[k - 1], ps[k])
    BY <1>4 DEF After
  <2>2. ASSUME NEW k \in 0 .. n
        PROVE  g[k] = IF k = 0 THEN items ELSE Painted(g[k - 1], ps[k])
    <3>1. CASE k = n
      <4>1. k # 0 /\ k - 1 \in 0 .. n /\ k - 1 # n /\ k - 1 = n - 1
        BY <1>2, <1>3, <3>1
      <4>2. g[k - 1] = f[n - 1]
        BY <4>1
      <4> QED BY <3>1, <4>1, <4>2
    <3>2. CASE k # n /\ k = 0
      BY <1>3, <2>1, <3>2
    <3>3. CASE k # n /\ k # 0
      <4>1. k \in 0 .. n - 1 /\ k - 1 \in 0 .. n /\ k - 1 # n
        BY <1>3, <3>3
      <4>2. g[k - 1] = f[k - 1] /\ g[k] = f[k]
        BY <3>3, <4>1
      <4> QED BY <2>1, <3>3, <4>1, <4>2
    <3> QED BY <3>1, <3>2, <3>3
  <2> HIDE DEF g
  <2>3. g = [k \in 0 .. n |-> g[k]]
    BY DEF g
  <2> QED BY <2>2, <2>3 DEF After
<1> QED BY <1>1, <1>5

(* What is on the panel after each of the paintings.                       *)
LEMMA PaintedOnIs ==
    ASSUME NEW items, NEW ps, Len(ps) \in Nat
    PROVE  \E f : /\ PaintedOn(items, ps) = f[Len(ps)]
                  /\ f[0] = items
                  /\ \A k \in 1 .. Len(ps) : f[k] = Painted(f[k - 1], ps[k])
<1> DEFINE f == CHOOSE g : After(items, ps, Len(ps), g)
<1>1. After(items, ps, Len(ps), f)
  BY AfterExists
<1>2. PaintedOn(items, ps) = f[Len(ps)]
  BY DEF PaintedOn, After
<1> HIDE DEF f
<1>3. f[0] = items /\ \A k \in 1 .. Len(ps) : f[k] = Painted(f[k - 1], ps[k])
  BY <1>1 DEF After
<1> QED BY <1>2, <1>3

IsSeq(ps) == \E S : ps \in Seq(S)

(* Where everything that was there is painted over, nothing of it remains. *)
LEMMA RemainsNothing ==
    ASSUME NEW items, Drawable(items), NEW ps, IsSeq(ps),
           \A k \in DOMAIN ps : ps[k][1] \in Rects,
           \A x, y \in Int : Holds(items, x, y)
                                 => \E k \in DOMAIN ps : In(x, y, ps[k][1])
    PROVE  Remains(items, ps) = {}
<1> DEFINE rest == {i \in items : i.rect \notin {ps[k][1] : k \in DOMAIN ps}}
           blank == [k \in DOMAIN ps |-> <<ps[k][1], {}>>]
<1>1. PICK n \in Nat : n = Len(ps) /\ DOMAIN ps = 1 .. n
  BY DEF IsSeq
<1>2. Len(blank) = n /\ \A k \in 1 .. n : blank[k][1] = ps[k][1] /\ blank[k][2] = {}
  <2>1. blank \in Seq({<<ps[k][1], {}>> : k \in DOMAIN ps})
    BY <1>1
  <2> QED BY <1>1, <2>1
<1> HIDE DEF blank
<1>3. PICK f : /\ PaintedOn(rest, blank) = f[n]
               /\ f[0] = rest
               /\ \A k \in 1 .. n : f[k] = Painted(f[k - 1], blank[k])
  <2> HIDE DEF rest
  <2>1. \E f : /\ PaintedOn(rest, blank) = f[Len(blank)]
               /\ f[0] = rest
               /\ \A k \in 1 .. Len(blank) : f[k] = Painted(f[k - 1], blank[k])
    BY <1>2, PaintedOnIs
  <2> QED BY <1>2, <2>1
<1> DEFINE Swept(k) ==
               /\ Drawable(f[k])
               /\ \A x, y \in Int : Holds(f[k], x, y) =>
                      Holds(items, x, y) /\ \A j \in 1 .. k : ~In(x, y, ps[j][1])
           B == {k \in 0 .. n : ~Swept(k)}
<1>4. B = {}
  <2> SUFFICES ASSUME B # {} PROVE FALSE
    OBVIOUS
  <2>1. PICK k \in B : \A j \in B : k <= j
    <3>1. B \in SUBSET Nat
      BY <1>1
    <3> HIDE DEF B
    <3> QED BY <3>1, SmallestNumber
  <2>2. k # 0
    <3>1. Swept(0)
      BY <1>3 DEF Drawable, Holds
    <3> QED BY <2>1, <3>1
  <2>3. k \in 1 .. n /\ k - 1 \in 0 .. n /\ k - 1 \notin B
    BY <1>1, <2>1, <2>2
  <2>4. Swept(k - 1)
    BY <2>3
  <2>5. f[k] = Cleared(f[k - 1], ps[k][1]) /\ ps[k][1] \in Rects
    <3>1. blank[k][1] = ps[k][1] /\ blank[k][2] = {} /\ ps[k][1] \in Rects
      BY <1>1, <1>2, <2>3
    <3>2. f[k] = Cleared(f[k - 1], blank[k][1]) \cup blank[k][2]
      BY <1>3, <2>3 DEF Painted
    <3> QED BY <3>1, <3>2
  <2>6. Swept(k)
    <3>1. /\ Drawable(f[k])
          /\ \A x, y \in Int : Holds(f[k], x, y)
                                   => Holds(f[k - 1], x, y) /\ ~In(x, y, ps[k][1])
      BY <2>4, <2>5, ClearedIs
    <3>2. \A j \in 1 .. k : j = k \/ j \in 1 .. k - 1
      BY <1>1, <2>3
    <3> QED BY <2>4, <3>1, <3>2
  <2> QED BY <2>1, <2>6
<1>5. Swept(n)
  BY <1>1, <1>4
<1>6. f[n] = {}
  BY <1>1, <1>5, NothingHeld
<1> QED BY <1>3, <1>6 DEF Remains, blank

(* A painting of at most one item, within the rectangle it blanks.         *)
Inside(r, q) ==
    /\ r.x >= q.x /\ r.x + r.w <= q.x + q.w
    /\ r.y >= q.y /\ r.y + r.h <= q.y + q.h

Plain(p) ==
    /\ p[1] \in Rects /\ Drawable(p[2])
    /\ \A i \in p[2] : Inside(i.rect, p[1])
    /\ \A i, j \in p[2] : i = j

(* Paintings none of which touches another.                                *)
SideBySide(ps) ==
    /\ IsSeq(ps)
    /\ \A k \in DOMAIN ps : Plain(ps[k])
    /\ \A j, k \in DOMAIN ps : j < k => Apart(ps[j][1], ps[k][1])

(* Rectangles within two that are apart are apart.                         *)
LEMMA InsideApart ==
    ASSUME NEW r \in Rects, NEW q \in Rects, NEW p \in Rects, NEW o \in Rects,
           Inside(r, q), Inside(p, o), Apart(q, o)
    PROVE  Apart(r, p) /\ Apart(p, r)
BY DEF Inside, Apart, Rects

(* They are all on the panel when the last is.                             *)
LEMMA PaintedSideBySide ==
    ASSUME NEW ps, SideBySide(ps)
    PROVE  PaintedOn({}, ps) = UNION {ps[k][2] : k \in DOMAIN ps}
<1>1. PICK n \in Nat : n = Len(ps) /\ DOMAIN ps = 1 .. n
  BY DEF SideBySide, IsSeq
<1>2. PICK f : /\ PaintedOn({}, ps) = f[n]
               /\ f[0] = {}
               /\ \A k \in 1 .. n : f[k] = Painted(f[k - 1], ps[k])
  BY <1>1, PaintedOnIs
<1> DEFINE Whole(k) == f[k] = UNION {ps[j][2] : j \in 1 .. k}
           B == {k \in 0 .. n : ~Whole(k)}
<1>3. B = {}
  <2> SUFFICES ASSUME B # {} PROVE FALSE
    OBVIOUS
  <2>1. PICK k \in B : \A j \in B : k <= j
    <3>1. B \in SUBSET Nat
      BY <1>1
    <3> HIDE DEF B
    <3> QED BY <3>1, SmallestNumber
  <2>2. k # 0
    <3>1. Whole(0)
      BY <1>2
    <3> QED BY <2>1, <3>1
  <2>3. k \in 1 .. n /\ k - 1 \in 0 .. n /\ k - 1 \notin B
    BY <1>1, <2>1, <2>2
  <2>4. Whole(k - 1)
    BY <2>3
  <2>5. \A i \in f[k - 1] : Apart(i.rect, ps[k][1])
    <3>1. SUFFICES ASSUME NEW j \in 1 .. k - 1, NEW i \in ps[j][2]
                   PROVE  Apart(i.rect, ps[k][1])
      BY <2>4
    <3>2. j \in DOMAIN ps /\ k \in DOMAIN ps /\ j < k
      BY <1>1, <2>3
    <3>3. /\ Plain(ps[j]) /\ Plain(ps[k]) /\ Apart(ps[j][1], ps[k][1])
      BY <3>2 DEF SideBySide
    <3>4. i.rect \in Rects /\ Inside(i.rect, ps[j][1])
          /\ ps[j][1] \in Rects /\ ps[k][1] \in Rects
      BY <3>3 DEF Plain, Drawable
    <3> QED BY <3>3, <3>4 DEF Inside, Apart, Rects
  <2>6. f[k] = f[k - 1] \cup ps[k][2]
    BY <1>2, <2>3, <2>5, ClearedApart DEF Painted
  <2>7. 1 .. k = (1 .. k - 1) \cup {k}
    BY <1>1, <2>3
  <2>8. Whole(k)
    BY <2>4, <2>6, <2>7
  <2> QED BY <2>1, <2>8
<1> QED BY <1>1, <1>2, <1>3

(* Two lists of paintings side by side, one after the other.               *)
LEMMA SideBySideConcat ==
    ASSUME NEW s, SideBySide(s), NEW t, SideBySide(t),
           \A j \in DOMAIN s, k \in DOMAIN t : Apart(s[j][1], t[k][1])
    PROVE  /\ SideBySide(s \o t)
           /\ \A k \in DOMAIN (s \o t) : \/ \E j \in DOMAIN s : (s \o t)[k] = s[j]
                                        \/ \E j \in DOMAIN t : (s \o t)[k] = t[j]
           /\ \A j \in DOMAIN s : \E k \in DOMAIN (s \o t) : (s \o t)[k] = s[j]
           /\ \A j \in DOMAIN t : \E k \in DOMAIN (s \o t) : (s \o t)[k] = t[j]
<1> DEFINE u == s \o t
<1>1. PICK S : s \in Seq(S)
  BY DEF SideBySide, IsSeq
<1>2. PICK T : t \in Seq(T)
  BY DEF SideBySide, IsSeq
<1>3. PICK m \in Nat : m = Len(s) /\ DOMAIN s = 1 .. m
  BY <1>1
<1>4. PICK n \in Nat : n = Len(t) /\ DOMAIN t = 1 .. n
  BY <1>2
<1>5. u \in Seq(S \cup T)
  <2>1. s \in Seq(S \cup T) /\ t \in Seq(S \cup T)
    BY <1>1, <1>2
  <2> QED BY <2>1
<1>6. /\ DOMAIN u = 1 .. m + n
      /\ \A k \in 1 .. m + n : u[k] = IF k <= m THEN s[k] ELSE t[k - m]
  <2>1. s \in Seq(S \cup T) /\ t \in Seq(S \cup T)
    BY <1>1, <1>2
  <2> QED BY <1>3, <1>4, <2>1
<1> HIDE DEF u
<1>7. \A k \in DOMAIN u : \/ k \in 1 .. m /\ u[k] = s[k]
                          \/ k - m \in 1 .. n /\ k > m /\ u[k] = t[k - m]
  BY <1>6
<1>8. \A k \in DOMAIN u : Plain(u[k])
  BY <1>3, <1>4, <1>7 DEF SideBySide
<1>9. ASSUME NEW j \in DOMAIN u, NEW k \in DOMAIN u, j < k
      PROVE  Apart(u[j][1], u[k][1])
  <2>1. CASE k \in 1 .. m
    <3>1. j \in 1 .. m /\ u[j] = s[j] /\ u[k] = s[k]
      BY <1>6, <1>9, <2>1
    <3> QED BY <1>3, <1>9, <2>1, <3>1 DEF SideBySide
  <2>2. CASE k > m /\ j \in 1 .. m
    <3>1. u[j] = s[j] /\ u[k] = t[k - m] /\ k - m \in 1 .. n
      BY <1>6, <2>2
    <3> QED BY <1>3, <1>4, <2>2, <3>1
  <2>3. CASE k > m /\ j > m
    <3>1. /\ u[j] = t[j - m] /\ u[k] = t[k - m]
          /\ j - m \in 1 .. n /\ k - m \in 1 .. n /\ j - m < k - m
      BY <1>6, <1>9, <2>3
    <3> QED BY <1>4, <3>1 DEF SideBySide
  <2> QED BY <1>6, <2>1, <2>2, <2>3
<1>10. SideBySide(u)
  BY <1>5, <1>8, <1>9 DEF SideBySide, IsSeq
<1>11. \A j \in DOMAIN s : j \in DOMAIN u /\ u[j] = s[j]
  BY <1>3, <1>6
<1>12. \A j \in DOMAIN t : j + m \in DOMAIN u /\ u[j + m] = t[j]
  BY <1>4, <1>6
<1> QED BY <1>3, <1>4, <1>7, <1>10, <1>11, <1>12 DEF u

-------------------------------------------------------------------------------
(* A page: what a mode paints.  Its paintings lie side by side on the      *)
(* screen, each within one of the rectangles `outer'; their items cover no *)
(* more than the area, and the paintings blank no less.                    *)
OnArea(x, y, area) == \E r \in area : In(x, y, r)

Good(p) ==
    /\ Inside(p[1], Screen)
    /\ \A i \in p[2] : i.what[1] = "battery" => i.what[2] < Symbols

Page(ps, area, outer) ==
    /\ SideBySide(ps)
    /\ \A k \in DOMAIN ps : Good(ps[k]) /\ \E o \in outer : Inside(ps[k][1], o)
    /\ area \subseteq Rects /\ outer \subseteq Rects
    /\ \A k \in DOMAIN ps : \A x, y \in Int : Holds(ps[k][2], x, y) => OnArea(x, y, area)
    /\ \A x, y \in Int : OnArea(x, y, area) => \E k \in DOMAIN ps : In(x, y, ps[k][1])

(* Two pages that do not touch make one.                                   *)
LEMMA PageConcat ==
    ASSUME NEW s, NEW A, NEW C, Page(s, A, C), NEW t, NEW B, NEW D, Page(t, B, D),
           \A c \in C, d \in D : Apart(c, d)
    PROVE  Page(s \o t, A \cup B, C \cup D)
<1> DEFINE u == s \o t
<1>1. \A j \in DOMAIN s, k \in DOMAIN t : Apart(s[j][1], t[k][1])
  <2> SUFFICES ASSUME NEW j \in DOMAIN s, NEW k \in DOMAIN t
               PROVE  Apart(s[j][1], t[k][1])
    OBVIOUS
  <2>1. PICK c \in C : Inside(s[j][1], c)
    BY DEF Page
  <2>2. PICK d \in D : Inside(t[k][1], d)
    BY DEF Page
  <2>3. s[j][1] \in Rects /\ t[k][1] \in Rects
    BY DEF Page, SideBySide, Plain
  <2>4. c \in Rects /\ d \in Rects
    BY DEF Page
  <2> QED BY <2>1, <2>2, <2>3, <2>4, InsideApart
<1>2. /\ SideBySide(u)
      /\ \A k \in DOMAIN u : \/ \E j \in DOMAIN s : u[k] = s[j]
                             \/ \E j \in DOMAIN t : u[k] = t[j]
      /\ \A j \in DOMAIN s : \E k \in DOMAIN u : u[k] = s[j]
      /\ \A j \in DOMAIN t : \E k \in DOMAIN u : u[k] = t[j]
  <2>1. SideBySide(s) /\ SideBySide(t)
    BY DEF Page
  <2> QED BY <1>1, <2>1, SideBySideConcat
<1> HIDE DEF u
<1>3. ASSUME NEW k \in DOMAIN u
      PROVE  /\ Good(u[k]) /\ \E o \in C \cup D : Inside(u[k][1], o)
             /\ \A x, y \in Int : Holds(u[k][2], x, y) => OnArea(x, y, A \cup B)
  <2>1. CASE \E j \in DOMAIN s : u[k] = s[j]
    BY <2>1 DEF Page, OnArea
  <2>2. CASE \E j \in DOMAIN t : u[k] = t[j]
    BY <2>2 DEF Page, OnArea
  <2> QED BY <1>2, <2>1, <2>2
<1>4. ASSUME NEW x \in Int, NEW y \in Int, OnArea(x, y, A \cup B)
      PROVE  \E k \in DOMAIN u : In(x, y, u[k][1])
  <2>1. CASE OnArea(x, y, A)
    BY <1>2, <2>1 DEF Page
  <2>2. CASE OnArea(x, y, B)
    BY <1>2, <2>2 DEF Page
  <2> QED BY <1>4, <2>1, <2>2 DEF OnArea
<1>5. A \cup B \subseteq Rects /\ C \cup D \subseteq Rects
  BY DEF Page
<1> QED BY <1>2, <1>3, <1>4, <1>5 DEF Page, u

(* A picture fills its rectangle.                                          *)
LEMMA PictureIs ==
    ASSUME NEW rect \in Rects, NEW name, NEW value
    PROVE  /\ PictureOf(rect, name, value)[1] = rect
           /\ Plain(PictureOf(rect, name, value))
           /\ \A x, y : Holds(PictureOf(rect, name, value)[2], x, y) <=> In(x, y, rect)
           /\ \A i \in PictureOf(rect, name, value)[2] :
                  i.what[1] = name /\ i.what[2] = value
<1> DEFINE i == Item(rect, name, value)
<1>1. PictureOf(rect, name, value)[1] = rect /\ PictureOf(rect, name, value)[2] = {i}
  BY DEF PictureOf
<1>2. /\ i.rect = rect /\ i.what[1] = name /\ i.what[2] = value
      /\ i = [rect |-> i.rect, what |-> i.what]
  BY DEF Item
<1> HIDE DEF i
<1>3. Inside(rect, rect)
  BY DEF Inside, Rects
<1>4. Plain(PictureOf(rect, name, value))
  BY <1>1, <1>2, <1>3 DEF Plain, Drawable
<1> QED BY <1>1, <1>2, <1>4 DEF Holds

IsPicture(p, rect) ==
    \E name, value : /\ p = PictureOf(rect, name, value)
                     /\ name = "battery" => value < Symbols

(* Pictures side by side are a page of what they fill.                     *)
LEMMA PicturesPage ==
    ASSUME NEW ps, IsSeq(ps), NEW R, \A k \in DOMAIN ps : IsPicture(ps[k], R[k]),
           \A k \in DOMAIN ps : R[k] \in Rects /\ Inside(R[k], Screen),
           \A j, k \in DOMAIN ps : j < k => Apart(R[j], R[k])
    PROVE  Page(ps, {R[k] : k \in DOMAIN ps}, {R[k] : k \in DOMAIN ps})
<1> DEFINE A == {R[k] : k \in DOMAIN ps}
<1>1. ASSUME NEW k \in DOMAIN ps
      PROVE  /\ ps[k][1] = R[k] /\ Plain(ps[k]) /\ Good(ps[k])
             /\ \A x, y \in Int : Holds(ps[k][2], x, y) <=> In(x, y, R[k])
  <2>1. PICK name, value : /\ ps[k] = PictureOf(R[k], name, value)
                           /\ name = "battery" => value < Symbols
    BY DEF IsPicture
  <2> QED BY <2>1, PictureIs DEF Good
<1>2. SideBySide(ps)
  BY <1>1 DEF SideBySide
<1>3. \A k \in DOMAIN ps : \E o \in A : Inside(ps[k][1], o)
  BY <1>1 DEF Inside, Rects
<1>4. A \subseteq Rects
  OBVIOUS
<1>5. ASSUME NEW k \in DOMAIN ps, NEW x \in Int, NEW y \in Int, Holds(ps[k][2], x, y)
      PROVE  OnArea(x, y, A)
  BY <1>1, <1>5 DEF OnArea
<1>6. ASSUME NEW x \in Int, NEW y \in Int, OnArea(x, y, A)
      PROVE  \E k \in DOMAIN ps : In(x, y, ps[k][1])
  BY <1>1, <1>6 DEF OnArea
<1> HIDE DEF A
<1> QED BY <1>1, <1>2, <1>3, <1>4, <1>5, <1>6 DEF Page, A

-------------------------------------------------------------------------------
(* The pages of the modes.                                                 *)
BigRect == Rect(110, 26, 5 * Sizes.big.w + 8, Sizes.big.h)
ConcentrationRects == <<Rect(42, 37, 64, 16), Rect(214, 38, 38, 15), BigRect>>

BesideRects == <<Small, Rect(120, 3, 72, 16)>>

RectsOf(R) == {R[k] : k \in DOMAIN R}

(* A concentration with its name and unit: all cells of the number are     *)
(* drawn, so that it fills its place.                                      *)
LEMMA ConcentrationPage ==
    ASSUME NEW num
    PROVE  Page(Concentration(num), RectsOf(ConcentrationRects), RectsOf(ConcentrationRects))
<1> DEFINE ps == Concentration(num)
           R == ConcentrationRects
           S == {ps[1], ps[2], ps[3]}
<1>1. ps \in Seq(S) /\ DOMAIN ps = 1 .. 3 /\ DOMAIN R = 1 .. 3
  BY DEF Concentration, ConcentrationRects
<1>2. /\ R[1] = Rect(42, 37, 64, 16) /\ R[2] = Rect(214, 38, 38, 15)
      /\ R[3] = BigRect
  BY DEF ConcentrationRects
<1>3. /\ IsPicture(ps[1], R[1]) /\ IsPicture(ps[2], R[2]) /\ IsPicture(ps[3], R[3])
  <2>1. ps[1] = PictureOf(R[1], "pm25", 0) /\ ps[2] = PictureOf(R[2], "ug", 0)
    BY <1>2 DEF Concentration, Picture
  <2>2. \E value : ps[3] = PictureOf(R[3], "number", value)
    BY <1>2 DEF Concentration, NumberAt, BigRect
  <2>3. "number" # "battery" /\ "pm25" # "battery" /\ "ug" # "battery"
    OBVIOUS
  <2> HIDE DEF ps, R
  <2> QED BY <2>1, <2>2, <2>3 DEF IsPicture
<1>4. /\ R[1] \in Rects /\ R[2] \in Rects /\ R[3] \in Rects
      /\ Inside(R[1], Screen) /\ Inside(R[2], Screen) /\ Inside(R[3], Screen)
      /\ Apart(R[1], R[2]) /\ Apart(R[1], R[3]) /\ Apart(R[2], R[3])
  BY <1>2, SizesAssumption DEF BigRect, Rect, Rects, Inside, Screen, Apart
<1> HIDE DEF ps, R
<1>5. \A k \in 1 .. 3 : k = 1 \/ k = 2 \/ k = 3
  OBVIOUS
<1>6. /\ \A k \in DOMAIN ps : IsPicture(ps[k], R[k]) /\ R[k] \in Rects /\ Inside(R[k], Screen)
      /\ \A j, k \in DOMAIN ps : j < k => Apart(R[j], R[k])
  BY <1>1, <1>3, <1>4, <1>5
<1>7. Page(ps, {R[k] : k \in DOMAIN ps}, {R[k] : k \in DOMAIN ps})
  BY <1>1, <1>6, PicturesPage DEF IsSeq
<1> QED BY <1>1, <1>7 DEF ps, R, RectsOf

PowersaveRects ==
    <<Rect(32, 32, 224, 1), Rect(148, 0, 2, 32), Rect(32, 6, 44, 9),
      Rect(36, 20, 32, 10), Rect(154, 20, 32, 10), Rect(150, 6, 40, 9),
      Rect(32, 40, 96, 16), Rect(134, 38, 8, 16), Rect(142, 38, 24, 16),
      Rect(176, 40, 72, 16),
      Rect(76, 10, 5 * Sizes.middle.w + 6, Sizes.middle.h),
      Rect(190, 10, 5 * Sizes.middle.w + 6, Sizes.middle.h), Small>>

(* All of the power save mode.                                             *)
LEMMA PowersavePage ==
    ASSUME NEW s, NEW symbol, symbol < Symbols
    PROVE  Page(PowersaveMode(s, symbol), RectsOf(PowersaveRects), RectsOf(PowersaveRects))
<1> DEFINE ps == PowersaveMode(s, symbol)
           R == PowersaveRects
           S == {ps[k] : k \in 1 .. 13}
<1>1. ps \in Seq(S) /\ DOMAIN ps = 1 .. 13 /\ DOMAIN R = 1 .. 13
  BY DEF PowersaveMode, PowersaveRects
<1>2. \A k \in 1 .. 13 : IsPicture(ps[k], R[k])
  <2>1. ps[1] = PictureOf(R[1], "line", 0) /\ ps[2] = PictureOf(R[2], "line", 0)
        /\ ps[3] = PictureOf(R[3], "pm25", 0) /\ ps[4] = PictureOf(R[4], "ug", 0)
        /\ ps[5] = PictureOf(R[5], "ug", 0) /\ ps[6] = PictureOf(R[6], "pm10", 0)
        /\ ps[7] = PictureOf(R[7], "leveldes", 0) /\ ps[8] = PictureOf(R[8], "level", 0)
        /\ ps[9] = PictureOf(R[9], "ji", 0) /\ ps[10] = PictureOf(R[10], "description", 0)
    BY DEF PowersaveMode, PowersaveRects, Picture
  <2>2. ps[11] = NumberAt(76, 10, Sizes.middle, 6, s.pm2_5)
        /\ ps[12] = NumberAt(190, 10, Sizes.middle, 6, s.pm10)
        /\ ps[13] = Battery(Small, symbol)
    BY DEF PowersaveMode
  <2>3. /\ R[11] = Rect(76, 10, 5 * Sizes.middle.w + 6, Sizes.middle.h)
        /\ R[12] = Rect(190, 10, 5 * Sizes.middle.w + 6, Sizes.middle.h)
        /\ R[13] = Small
    BY DEF PowersaveRects
  <2> HIDE DEF ps, R
  <2>4. /\ \E value : ps[11] = PictureOf(R[11], "number", value)
        /\ \E value : ps[12] = PictureOf(R[12], "number", value)
        /\ ps[13] = PictureOf(R[13], "battery", symbol)
    BY <2>2, <2>3 DEF NumberAt, Battery
  <2>5. \A k \in 1 .. 13 : \/ k \in {1, 2, 3, 4, 5, 6, 7, 8, 9, 10}
                            \/ k \in {11, 12} \/ k = 13
    OBVIOUS
  <2>6. IsPicture(ps[13], R[13])
    BY <2>4 DEF IsPicture
  <2>7. \A k \in {11, 12} : IsPicture(ps[k], R[k])
    BY <2>4 DEF IsPicture
  <2>8. \A k \in {1, 2, 3, 4, 5, 6, 7, 8, 9, 10} : IsPicture(ps[k], R[k])
    BY <2>1 DEF IsPicture
  <2> QED BY <2>5, <2>6, <2>7, <2>8
<1>3. \A k \in 1 .. 13 : R[k] \in Rects /\ Inside(R[k], Screen)
  BY SizesAssumption DEF PowersaveRects, Small, Rect, Rects, Inside, Screen
<1>4. \A j, k \in 1 .. 13 : j < k => Apart(R[j], R[k])
  BY SizesAssumption DEF PowersaveRects, Small, Rect, Apart
<1> HIDE DEF ps, R
<1>5. Page(ps, {R[k] : k \in DOMAIN ps}, {R[k] : k \in DOMAIN ps})
  BY <1>1, <1>2, <1>3, <1>4, PicturesPage DEF IsSeq
<1> QED BY <1>1, <1>5 DEF ps, R, RectsOf

(* The two tags that take turns: either blanks what the other draws.       *)
LEMMA TagPage ==
    ASSUME NEW p \in {HoldTag, ModeTag}
    PROVE  Page(<<p>>, {Rect(40, 0, 64, 16)}, {Rect(40, 0, 68, 16)})
<1> DEFINE ps == <<p>>
           tag == Rect(40, 0, 64, 16)
           outer == Rect(40, 0, 68, 16)
<1>1. ps \in Seq({p}) /\ DOMAIN ps = 1 .. 1 /\ ps[1] = p
  OBVIOUS
<1>2. /\ tag \in Rects /\ outer \in Rects /\ Inside(tag, outer)
      /\ Inside(outer, outer) /\ Inside(outer, Screen)
  BY DEF Rect, Rects, Inside, Screen
<1>3. \A x, y \in Int : In(x, y, Rect(52, 0, 42, 16)) => In(x, y, tag)
  BY DEF In, Rect
<1>4. \A x, y \in Int : In(x, y, tag) => In(x, y, outer)
  BY DEF In, Rect
<1>5. /\ Plain(p) /\ Good(p) /\ p[1] \in {tag, outer}
      /\ \A x, y \in Int : Holds(p[2], x, y) => In(x, y, tag)
  <2>1. CASE p = ModeTag
    <3>1. p = PictureOf(tag, "realtime", 0)
      BY <2>1 DEF ModeTag, Picture
    <3> HIDE DEF tag, outer
    <3>2. Inside(tag, Screen)
      BY <1>2 DEF Inside, Rects, Screen, Rect
    <3>3. "realtime" # "battery"
      OBVIOUS
    <3>4. Good(p)
      BY <1>2, <3>1, <3>2, <3>3, PictureIs DEF Good
    <3> QED BY <1>2, <3>1, <3>4, PictureIs
  <2>2. CASE p = HoldTag
    <3> DEFINE i == Item(Rect(52, 0, 42, 16), "hold", 0)
    <3>1. p[1] = outer /\ p[2] = {i}
      BY <2>2 DEF HoldTag
    <3>2. /\ i = [rect |-> i.rect, what |-> i.what]
          /\ i.rect = Rect(52, 0, 42, 16) /\ i.what[1] = "hold"
      BY DEF Item
    <3>3. Rect(52, 0, 42, 16) \in Rects /\ Inside(Rect(52, 0, 42, 16), outer)
      BY DEF Rect, Rects, Inside
    <3> HIDE DEF i, tag, outer
    <3>4. Plain(p)
      BY <1>2, <3>1, <3>2, <3>3 DEF Plain, Drawable
    <3>5. Good(p)
      BY <1>2, <3>1, <3>2 DEF Good
    <3> QED BY <1>3, <3>1, <3>2, <3>4, <3>5 DEF Holds
  <2> QED BY <2>1, <2>2
<1> HIDE DEF ps, tag, outer
<1>6. SideBySide(ps)
  BY <1>1, <1>5 DEF SideBySide, IsSeq
<1>7. \A k \in DOMAIN ps : Good(ps[k]) /\ \E o \in {outer} : Inside(ps[k][1], o)
  BY <1>1, <1>2, <1>5
<1>8. \A k \in DOMAIN ps : \A x, y \in Int :
          Holds(ps[k][2], x, y) => OnArea(x, y, {tag})
  BY <1>1, <1>5 DEF OnArea
<1>9. \A x, y \in Int : OnArea(x, y, {tag}) => \E k \in DOMAIN ps : In(x, y, ps[k][1])
  BY <1>1, <1>4, <1>5 DEF OnArea
<1>10. Page(ps, {tag}, {outer})
  BY <1>2, <1>6, <1>7, <1>8, <1>9 DEF Page
<1> QED BY <1>10 DEF ps, tag, outer

(* Two pictures.                                                           *)
LEMMA TwoPictures ==
    ASSUME NEW p, NEW q, NEW rect \in Rects, NEW other \in Rects,
           IsPicture(p, rect), IsPicture(q, other),
           Inside(rect, Screen), Inside(other, Screen), Apart(rect, other)
    PROVE  Page(<<p, q>>, {rect, other}, {rect, other})
<1> DEFINE ps == <<p, q>>
           R == <<rect, other>>
<1>1. /\ ps \in Seq({p, q}) /\ DOMAIN ps = 1 .. 2 /\ ps[1] = p /\ ps[2] = q
      /\ R[1] = rect /\ R[2] = other
  OBVIOUS
<1>2. \A k \in 1 .. 2 : k = 1 \/ k = 2
  OBVIOUS
<1> HIDE DEF ps, R
<1>3. /\ \A k \in DOMAIN ps : IsPicture(ps[k], R[k]) /\ R[k] \in Rects /\ Inside(R[k], Screen)
      /\ \A j, k \in DOMAIN ps : j < k => Apart(R[j], R[k])
  BY <1>1, <1>2
<1>4. Page(ps, {R[k] : k \in DOMAIN ps}, {R[k] : k \in DOMAIN ps})
  BY <1>1, <1>3, PicturesPage DEF IsSeq
<1>5. {R[k] : k \in DOMAIN ps} = {rect, other}
  BY <1>1, <1>2
<1> QED BY <1>4, <1>5 DEF ps

RealtimeArea ==
    {Rect(40, 0, 64, 16)} \cup RectsOf(ConcentrationRects)
                         \cup {Small, Rect(120, 3, 72, 16)}

(* Its rectangles one by one.                                              *)
LEMMA ConcentrationRectsAre ==
    RectsOf(ConcentrationRects) = {Rect(42, 37, 64, 16), Rect(214, 38, 38, 15), BigRect}
<1>1. DOMAIN ConcentrationRects = 1 .. 3
  BY DEF ConcentrationRects
<1>2. \A k \in 1 .. 3 : k = 1 \/ k = 2 \/ k = 3
  OBVIOUS
<1> QED BY <1>1, <1>2 DEF ConcentrationRects, RectsOf

(* The tag, the concentration, and what is beside it.                      *)
LEMMA RealtimePage ==
    ASSUME NEW s, NEW symbol, symbol < Symbols
    PROVE  \E outer : Page(RealtimeMode(s, symbol), RealtimeArea, outer)
<1> DEFINE tag == <<IF s.is_hold THEN HoldTag ELSE ModeTag>>
           conc == Concentration(s.pm2_5)
           beside == <<Battery(Small, symbol), Picture(Rect(120, 3, 72, 16), "description")>>
           C == RectsOf(ConcentrationRects)
           S == {Small, Rect(120, 3, 72, 16)}
           T == {Rect(40, 0, 64, 16)}
           O == {Rect(40, 0, 68, 16)}
<1>1. Page(tag, T, O)
  BY TagPage
<1>2. Page(conc, C, C)
  BY ConcentrationPage
<1>3. Page(beside, S, S)
  <2> DEFINE r == Rect(120, 3, 72, 16)
  <2>1. /\ Small \in Rects /\ r \in Rects
        /\ Inside(Small, Screen) /\ Inside(r, Screen) /\ Apart(Small, r)
    BY DEF Small, Rect, Rects, Inside, Apart, Screen
  <2>2. IsPicture(Battery(Small, symbol), Small)
    BY DEF IsPicture, Battery
  <2>3. IsPicture(Picture(r, "description"), r)
    <3>1. "description" # "battery"
      OBVIOUS
    <3> QED BY <3>1 DEF IsPicture, Picture
  <2> HIDE DEF r
  <2>4. Page(<<Battery(Small, symbol), Picture(r, "description")>>, {Small, r}, {Small, r})
    BY <2>1, <2>2, <2>3, TwoPictures
  <2> QED BY <2>4 DEF r
<1>4. \A c \in O, d \in C : Apart(c, d)
  BY ConcentrationRectsAre, SizesAssumption DEF Rect, BigRect, Apart
<1>5. \A c \in O \cup C, d \in S : Apart(c, d)
  BY ConcentrationRectsAre, SizesAssumption DEF Rect, BigRect, Small, Apart
<1> HIDE DEF tag, conc, beside, C, S, T, O
<1>6. Page(tag \o conc, T \cup C, O \cup C)
  BY <1>1, <1>2, <1>4, PageConcat
<1>7. Page((tag \o conc) \o beside, (T \cup C) \cup S, (O \cup C) \cup S)
  BY <1>3, <1>5, <1>6, PageConcat
<1> QED BY <1>7 DEF RealtimeMode, RealtimeArea, tag, conc, beside, C, S, T

-------------------------------------------------------------------------------
(* The age: a strip w wide is filled from the left without a gap.          *)
Strip(ps, w) ==
    /\ w \in Nat /\ Width(ps) = w
    /\ SideBySide(ps)
    /\ \A k \in DOMAIN ps : /\ Inside(ps[k][1], At(0, w))
                            /\ \A i \in ps[k][2] : i.what[1] # "battery"
    /\ \A x, y \in Int : In(x, y, At(0, w)) => \E k \in DOMAIN ps : In(x, y, ps[k][1])

(* The strip before anything is on it.                                     *)
LEMMA StripEmpty == Strip(<<>>, 0)
<1>1. DOMAIN (<<>>) = {} /\ <<>> \in Seq({})
  OBVIOUS
<1>2. Width(<<>>) = 0
  <2> DEFINE f == [k \in DOMAIN (<<>>) |-> (<<>>)[k][1].w]
  <2>1. DOMAIN f = {}
    BY <1>1
  <2>2. Width(<<>>) = SumFunctionOnSet(f, {})
    BY <2>1 DEF Width, SumFunction
  <2> HIDE DEF f
  <2> QED BY <2>2, SumEmpty
<1>3. SideBySide(<<>>)
  BY <1>1 DEF SideBySide, IsSeq
<1>4. \A x, y \in Int : ~In(x, y, At(0, 0))
  BY DEF In, At, AgeX, Rect
<1> QED BY <1>1, <1>2, <1>3, <1>4 DEF Strip

(* The width grows by what is appended.                                    *)
LEMMA WidthAppend ==
    ASSUME NEW ps, IsSeq(ps), \A k \in DOMAIN ps : ps[k][1] \in Rects,
           NEW p, p[1] \in Rects
    PROVE  Width(Append(ps, p)) = Width(ps) + p[1].w
<1> DEFINE u == Append(ps, p)
           f == [k \in DOMAIN ps |-> ps[k][1].w]
           g == [k \in DOMAIN u |-> u[k][1].w]
<1>1. PICK S : ps \in Seq(S)
  BY DEF IsSeq
<1>2. PICK n \in Nat : n = Len(ps) /\ DOMAIN ps = 1 .. n
  BY <1>1
<1>3. /\ DOMAIN u = 1 .. n + 1
      /\ u[n + 1] = p /\ \A k \in 1 .. n : u[k] = ps[k]
  <2>1. ps \in Seq(S \cup {p}) /\ p \in S \cup {p}
    BY <1>1
  <2> QED BY <1>2, <2>1
<1>4. Width(ps) = SumFunctionOnSet(f, 1 .. n)
  BY <1>2 DEF Width, SumFunction
<1>5. Width(u) = SumFunctionOnSet(g, 1 .. n + 1)
  BY <1>3 DEF Width, SumFunction
<1> HIDE DEF u
<1>6. /\ \A k \in 1 .. n : f[k] = g[k] /\ g[k] \in Int
      /\ g[n + 1] = p[1].w /\ g[n + 1] \in Int
  BY <1>2, <1>3 DEF Rects
<1> HIDE DEF f, g
<1>7. IsFiniteSet(1 .. n)
  BY <1>2, FS_Interval
<1>8. 1 .. n + 1 = (1 .. n) \cup {n + 1} /\ n + 1 \notin 1 .. n
  BY <1>2
<1>9. SumFunctionOnSet(g, (1 .. n) \cup {n + 1}) = g[n + 1] + SumFunctionOnSet(g, 1 .. n)
  BY <1>6, <1>7, <1>8, SumAdds
<1>10. SumFunctionOnSet(f, 1 .. n) = SumFunctionOnSet(g, 1 .. n)
  BY <1>6, <1>7, SumSame
<1>11. SumFunctionOnSet(g, 1 .. n) \in Int
  BY <1>6, <1>7, SumIn
<1>12. Width(u) = p[1].w + Width(ps)
  BY <1>4, <1>5, <1>6, <1>8, <1>9, <1>10
<1>13. Width(ps) \in Int /\ p[1].w \in Int
  BY <1>4, <1>6, <1>10, <1>11
<1>14. Width(u) = Width(ps) + p[1].w
  BY <1>12, <1>13
<1> QED BY <1>14 DEF u

(* A painting at the end of the strip widens it.                           *)
LEMMA StripAppend ==
    ASSUME NEW ps, NEW w, Strip(ps, w), NEW v \in Nat, v > 0, NEW p, p[1] = At(w, v),
           Plain(p), \A i \in p[2] : i.what[1] # "battery"
    PROVE  Strip(Append(ps, p), w + v)
<1> DEFINE u == Append(ps, p)
<1>1. PICK S : ps \in Seq(S)
  BY DEF Strip, SideBySide, IsSeq
<1>2. PICK n \in Nat : n = Len(ps) /\ DOMAIN ps = 1 .. n
  BY <1>1
<1>3. /\ DOMAIN u = 1 .. n + 1 /\ u \in Seq(S \cup {p})
      /\ u[n + 1] = p /\ \A k \in 1 .. n : u[k] = ps[k]
  <2>1. ps \in Seq(S \cup {p}) /\ p \in S \cup {p}
    BY <1>1
  <2> QED BY <1>2, <2>1
<1>4. Width(u) = w + v
  <2>1. p[1] \in Rects /\ p[1].w = v
    BY DEF Strip, At, Rect, Rects, AgeX
  <2>2. \A k \in DOMAIN ps : ps[k][1] \in Rects
    BY DEF Strip, SideBySide, Plain
  <2> QED BY <1>1, <2>1, <2>2, WidthAppend DEF IsSeq, Strip
<1> HIDE DEF u
<1>5. \A k \in 1 .. n : /\ Plain(ps[k]) /\ ps[k][1] \in Rects
                         /\ Inside(ps[k][1], At(0, w))
  BY <1>2 DEF Strip, SideBySide, Plain
<1>6. w \in Nat
  BY DEF Strip
<1>7. \A r \in Rects : Inside(r, At(0, w)) => Apart(r, p[1]) /\ Inside(r, At(0, w + v))
  BY <1>6 DEF Inside, Apart, At, Rect, Rects, AgeX
<1>8. \A k \in 1 .. n + 1 : k \in 1 .. n \/ k = n + 1
  BY <1>2
<1>9. SideBySide(u)
  <2>1. \A k \in DOMAIN u : Plain(u[k])
    BY <1>3, <1>5, <1>8
  <2>2. ASSUME NEW j \in DOMAIN u, NEW k \in DOMAIN u, j < k
        PROVE  Apart(u[j][1], u[k][1])
    <3>1. j \in 1 .. n /\ u[j] = ps[j]
      BY <1>3, <2>2
    <3>2. CASE k \in 1 .. n
      BY <1>2, <1>3, <2>2, <3>1, <3>2 DEF Strip, SideBySide
    <3>3. CASE k = n + 1
      BY <1>3, <1>5, <1>7, <3>1, <3>3
    <3> QED BY <1>3, <1>8, <3>2, <3>3
  <2> QED BY <1>3, <2>1, <2>2 DEF SideBySide, IsSeq
<1>10. Inside(p[1], At(0, w + v))
  BY <1>6 DEF Inside, At, Rect, AgeX
<1>11. ASSUME NEW k \in DOMAIN u
       PROVE  Inside(u[k][1], At(0, w + v)) /\ \A i \in u[k][2] : i.what[1] # "battery"
  <2>1. CASE k \in 1 .. n
    BY <1>2, <1>3, <1>5, <1>7, <2>1 DEF Strip
  <2>2. CASE k = n + 1
    BY <1>3, <1>10, <2>2
  <2> QED BY <1>3, <1>8, <2>1, <2>2
<1>12. ASSUME NEW x \in Int, NEW y \in Int, In(x, y, At(0, w + v))
       PROVE  \E k \in DOMAIN u : In(x, y, u[k][1])
  <2>1. In(x, y, At(0, w)) \/ In(x, y, p[1])
    BY <1>6, <1>12 DEF In, At, Rect, AgeX
  <2>2. CASE In(x, y, At(0, w))
    <3>1. PICK k \in 1 .. n : In(x, y, ps[k][1])
      BY <1>2, <2>2 DEF Strip
    <3> QED BY <1>3, <3>1
  <2>3. CASE In(x, y, p[1])
    BY <1>3, <2>3
  <2> QED BY <2>1, <2>2, <2>3
<1> QED BY <1>4, <1>6, <1>9, <1>11, <1>12 DEF Strip, u

-------------------------------------------------------------------------------
(* The digits of a number.                                                 *)
LEMMA FlattenFive ==
    ASSUME NEW S, NEW seqs \in [1 .. 5 -> Seq(S)]
    PROVE  FlattenSeq(seqs) \in Seq(S)
<1> DEFINE Is(f) == f = [i \in 1 .. Len(seqs) |->
                           IF i = 1 THEN seqs[i] ELSE f[i - 1] \o seqs[i]]
           two == seqs[1] \o seqs[2]
           three == two \o seqs[3]
           four == three \o seqs[4]
           five == four \o seqs[5]
           g == [i \in 1 .. 5 |-> IF i = 1 THEN seqs[1] ELSE IF i = 2 THEN two
                                  ELSE IF i = 3 THEN three ELSE IF i = 4 THEN four
                                  ELSE five]
           h == CHOOSE f : Is(f)
<1>1. Len(seqs) = 5
  OBVIOUS
<1>2. Is(g)
  <2>1. \A i \in 1 .. 5 : i = 1 \/ i = 2 \/ i = 3 \/ i = 4 \/ i = 5
    OBVIOUS
  <2> HIDE DEF five
  <2>2. g[1] = seqs[1] /\ g[2] = two /\ g[3] = three /\ g[4] = four /\ g[5] = five
    OBVIOUS
  <2>3. five = four \o seqs[5]
    BY DEF five
  <2> HIDE DEF g
  <2>4. \A i \in 1 .. 5 : g[i] = IF i = 1 THEN seqs[i] ELSE g[i - 1] \o seqs[i]
    <3>1. /\ g[2] = g[2 - 1] \o seqs[2] /\ g[3] = g[3 - 1] \o seqs[3]
          /\ g[4] = g[4 - 1] \o seqs[4] /\ g[5] = g[5 - 1] \o seqs[5]
      <4>1. 2 - 1 = 1 /\ 3 - 1 = 2 /\ 4 - 1 = 3 /\ 5 - 1 = 4
        OBVIOUS
      <4> QED BY <2>2, <2>3, <4>1
    <3> QED BY <2>1, <2>2, <3>1
  <2>5. g = [i \in 1 .. 5 |-> g[i]]
    BY DEF g
  <2> QED BY <1>1, <2>4, <2>5
<1>3. Is(h)
  <2> HIDE DEF Is, g
  <2> QED BY <1>2
<1>4. FlattenSeq(seqs) = h[5]
  BY <1>1 DEF FlattenSeq
<1> HIDE DEF h
<1>5. /\ h[1] = seqs[1] /\ h[2] = h[1] \o seqs[2] /\ h[3] = h[2] \o seqs[3]
      /\ h[4] = h[3] \o seqs[4] /\ h[5] = h[4] \o seqs[5]
  <2>1. \A i \in 1 .. 5 : h[i] = IF i = 1 THEN seqs[i] ELSE h[i - 1] \o seqs[i]
    BY <1>1, <1>3
  <2>2. 2 - 1 = 1 /\ 3 - 1 = 2 /\ 4 - 1 = 3 /\ 5 - 1 = 4
    OBVIOUS
  <2>3. h[1] = seqs[1]
    BY <2>1
  <2>4. \A i \in 2 .. 5 : i \in 1 .. 5 /\ i # 1
    OBVIOUS
  <2>5. \A i \in 2 .. 5 : h[i] = h[i - 1] \o seqs[i]
    BY <2>1, <2>4
  <2>6. 2 \in 2 .. 5 /\ 3 \in 2 .. 5 /\ 4 \in 2 .. 5 /\ 5 \in 2 .. 5
    OBVIOUS
  <2> QED BY <2>2, <2>3, <2>5, <2>6, Zenon
<1>6. h[1] \in Seq(S) /\ h[2] \in Seq(S)
  BY <1>5
<1>7. h[3] \in Seq(S) /\ h[4] \in Seq(S)
  BY <1>5, <1>6
<1> QED BY <1>4, <1>5, <1>7

(* An age has one digit or two.                                            *)
LEMMA ShownShort ==
    ASSUME NEW num \in Nat
    PROVE  Len(Shown(num, TRUE, 2, 10)) = 1 \/ Len(Shown(num, TRUE, 2, 10)) = 2
<1> DEFINE seqs == [i \in 1 .. 5 |-> Cell(num, i - 1, TRUE, 10)]
           cells == FlattenSeq(seqs)
<1>1. \A i \in 0 .. 4 : Digit(num, i) \in 0 .. 9
  <2> SUFFICES ASSUME NEW i \in 0 .. 4 PROVE Digit(num, i) \in 0 .. 9
    OBVIOUS
  <2>1. div_nums[i + 1] \in Nat /\ div_nums[i + 1] > 0
    BY DEF div_nums
  <2>2. PICK q \in Nat : q = num \div div_nums[i + 1]
    BY <2>1, QuotientNatural
  <2>3. q % 10 \in 0 .. 9
    OBVIOUS
  <2> QED BY <2>2, <2>3 DEF Digit
<1> DEFINE D == 0 .. 9
<1>2. ASSUME NEW i \in 0 .. 4 PROVE Cell(num, i, TRUE, 10) \in Seq(D)
  <2>1. i # 10
    OBVIOUS
  <2>2. Digit(num, i) \in D
    BY <1>1
  <2> HIDE DEF D
  <2>3. <<>> \in Seq(D) /\ <<Digit(num, i)>> \in Seq(D)
    BY <2>2
  <2>4. PICK none \in Seq(D) : none = <<>>
    BY <2>3, Zenon
  <2>5. PICK one \in Seq(D) : one = <<Digit(num, i)>>
    BY <2>3, Zenon
  <2>6. Cell(num, i, TRUE, 10) = (IF ~Leading(num, i, 10) THEN one ELSE none) \o none
    BY <2>1, <2>4, <2>5 DEF Cell
  <2>7. one \o none \in Seq(D) /\ none \o none \in Seq(D)
    OBVIOUS
  <2>8. CASE Leading(num, i, 10)
    BY <2>6, <2>7, <2>8
  <2>9. CASE ~Leading(num, i, 10)
    BY <2>6, <2>7, <2>9
  <2> QED BY <2>8, <2>9
<1>3. seqs \in [1 .. 5 -> Seq(D)]
  <2>1. \A i \in 1 .. 5 : i - 1 \in 0 .. 4
    OBVIOUS
  <2> HIDE DEF D
  <2> QED BY <1>2, <2>1
<1>4. cells \in Seq(D)
  <2> HIDE DEF D, seqs
  <2> QED BY <1>3, FlattenFive
<1>5. Shown(num, TRUE, 2, 10) = Cut(cells, 2)
  BY DEF Shown
<1> HIDE DEF cells
<1>6. Dot \notin Range(cells)
  <2>1. Dot \notin D
    BY DEF Dot
  <2> HIDE DEF D
  <2>2. \A k \in DOMAIN cells : cells[k] \in D
    BY <1>4
  <2> QED BY <2>1, <2>2 DEF Range
<1> HIDE DEF D
<1>7. CASE cells = <<>>
  <2>1. Cut(cells, 2) = <<0>>
    BY <1>7 DEF Cut
  <2>2. Len(<<0>>) = 1
    OBVIOUS
  <2> QED BY <1>5, <2>1, <2>2
<1>8. CASE cells # <<>> /\ Len(cells) > 2
  <2>1. Cut(cells, 2) = SubSeq(cells, 1, 2)
    BY <1>6, <1>8 DEF Cut
  <2>2. Len(SubSeq(cells, 1, 2)) = 2
    BY <1>4, <1>8
  <2> QED BY <1>5, <2>1, <2>2
<1>9. CASE cells # <<>> /\ ~(Len(cells) > 2)
  <2>1. Cut(cells, 2) = cells
    BY <1>6, <1>9 DEF Cut
  <2>2. Len(cells) = 1 \/ Len(cells) = 2
    <3>1. Len(cells) \in Nat /\ (Len(cells) = 0 => cells = <<>>)
      BY <1>4
    <3>2. PICK m \in Nat : m = Len(cells)
      BY <3>1
    <3>3. m # 0 /\ ~(m > 2)
      BY <1>9, <3>1, <3>2
    <3>4. m = 1 \/ m = 2
      BY <3>3
    <3> QED BY <3>2, <3>4
  <2> QED BY <1>5, <2>1, <2>2
<1> QED BY <1>7, <1>8, <1>9

(* The two numbers of an age, and the units that can be named.             *)
LEMMA AgeIs ==
    ASSUME NEW t \in Nat
    PROVE  AgeOf(t).time \in Nat /\ AgeOf(t).subtime \in Nat /\ AgeOf(t).unit \in 0 .. 3
<1> DEFINE fit == {j \in Divided : Fits(t, j)}
           i == Named(t)
           n == IF i \in Divided THEN i ELSE Months - 2
           most == t \div Length(n + 1)
<1>1. fit \subseteq 0 .. 2 /\ Divided = 0 .. 2
  BY DEF Divided, Seconds, Months
<1>2. i \in 0 .. 3
  <2>1. CASE fit = {}
    BY <2>1 DEF Named, Months
  <2>2. CASE fit # {}
    <3>1. i = Min(fit)
      BY <2>2 DEF Named
    <3> HIDE DEF fit, i
    <3>2. \E x \in fit : \A y \in fit : x <= y
      BY <1>1, <2>2, SmallestNumber
    <3>3. Min(fit) \in fit
      BY <3>2 DEF Min
    <3>4. i \in 0 .. 2
      BY <1>1, <3>1, <3>3, Zenon
    <3>5. \A j \in 0 .. 2 : j \in 0 .. 3
      OBVIOUS
    <3> QED BY <3>4, <3>5, Zenon
  <2> QED BY <2>1, <2>2
<1>3. n \in 0 .. 2
  BY <1>1, <1>2 DEF Months
<1> HIDE DEF i, fit
<1>4. AgeOf(t) = [time    |-> IF most > 99 THEN 99 ELSE most,
                  subtime |-> (t \div Length(n)) % div_for_time[n],
                  unit    |-> i]
  BY DEF AgeOf, i
<1> HIDE DEF n
<1>5. /\ Length(n) \in Nat /\ Length(n) > 0 /\ Length(n + 1) \in Nat /\ Length(n + 1) > 0
      /\ div_for_time[n] \in 1 .. 100
  BY <1>3, LengthIs
<1>6. most \in Nat
  BY <1>5, QuotientNatural
<1>7. (t \div Length(n)) % div_for_time[n] \in Nat
  <2>1. PICK q \in Nat : q = t \div Length(n)
    BY <1>5, QuotientNatural
  <2>2. PICK d \in 1 .. 100 : d = div_for_time[n]
    BY <1>5
  <2>3. q % d \in Nat
    OBVIOUS
  <2> QED BY <2>1, <2>2, <2>3
<1> HIDE DEF most
<1>8. (IF most > 99 THEN 99 ELSE most) \in Nat
  BY <1>6
<1> QED BY <1>2, <1>4, <1>7, <1>8

(* A picture at the end of the strip.                                      *)
LEMMA StripPicture ==
    ASSUME NEW ps, NEW w, Strip(ps, w), NEW v \in Nat, v > 0, NEW name, NEW value,
           name # "battery"
    PROVE  Strip(Append(ps, PictureOf(At(w, v), name, value)), w + v)
<1> DEFINE p == PictureOf(At(w, v), name, value)
<1>1. At(w, v) \in Rects
  BY DEF Strip, At, Rect, Rects, AgeX
<1>2. /\ p[1] = At(w, v) /\ Plain(p)
      /\ \A i \in p[2] : i.what[1] # "battery"
  BY <1>1, PictureIs
<1> HIDE DEF p
<1>3. Strip(Append(ps, p), w + v)
  BY <1>2, StripAppend
<1> QED BY <1>3 DEF p

(* A number and its unit.                                                  *)
LEMMA ThenStrip ==
    ASSUME NEW ps, NEW w, Strip(ps, w), NEW num \in Nat, NEW unit \in 0 .. 4
    PROVE  \E v \in 1 .. 24 : Strip(Then(ps, num, unit), w + v + timeoffset[unit + 1])
<1> DEFINE cells == Shown(num, TRUE, 2, 10)
           v == Sizes.small.w * Len(cells)
           number == Append(ps, AgeNumber(w, num))
           o == timeoffset[unit + 1]
<1>1. v \in 1 .. 24
  <2>1. PICK a \in 1 .. 12 : a = Sizes.small.w
    BY SizesAssumption
  <2>2. Len(cells) = 1 \/ Len(cells) = 2
    BY ShownShort
  <2>3. a * 1 \in 1 .. 24 /\ a * 2 \in 1 .. 24
    OBVIOUS
  <2> HIDE DEF cells
  <2> QED BY <2>1, <2>2, <2>3
<1>2. AgeNumber(w, num) = PictureOf(At(w, v), "age", <<cells, num, Sizes.small>>)
  BY DEF AgeNumber, CellsAt
<1> HIDE DEF v
<1>3. Strip(number, w + v)
  <2>1. v \in Nat /\ v > 0 /\ "age" # "battery"
    BY <1>1
  <2> QED BY <1>2, <2>1, StripPicture
<1>4. w = Width(ps) /\ w + v = Width(number)
  BY <1>3 DEF Strip
<1>5. o \in {8, 24}
  BY DEF timeoffset
<1>6. Then(ps, num, unit) = Append(number, AgeUnit(w + v, unit))
  BY <1>4 DEF Then
<1>7. AgeUnit(w + v, unit) = PictureOf(At(w + v, o), "unit", unit)
  BY DEF AgeUnit
<1> HIDE DEF number, o
<1>8. Strip(Then(ps, num, unit), w + v + o)
  <2>1. o \in Nat /\ o > 0 /\ "unit" # "battery"
    BY <1>5
  <2> QED BY <1>3, <1>6, <1>7, <2>1, StripPicture
<1> QED BY <1>1, <1>8 DEF o

(* One pair of them, or two.                                               *)
LEMMA PairsStrip ==
    ASSUME NEW t \in Nat
    PROVE  \E w \in 0 .. 80 : Strip(AgePairs(AgeOf(t)), w)
<1> DEFINE age == AgeOf(t)
           first == Then(<<>>, age.time, age.unit + 1)
           ps == IF age.time > 0 THEN first ELSE <<>>
           o == timeoffset[age.unit + 1]
           more == timeoffset[age.unit + 2]
<1>1. age.time \in Nat /\ age.subtime \in Nat /\ age.unit \in 0 .. 3
  BY AgeIs
<1> HIDE DEF age
<1>2. o \in {8, 24} /\ more \in {8, 24} /\ o + more = 32
  BY <1>1 DEF timeoffset
<1> HIDE DEF o
<1>3. \E w \in Nat : w <= 24 + more /\ Strip(ps, w)
  <2>1. CASE age.time > 0
    <3>1. age.unit + 1 \in 0 .. 4 /\ age.unit + 1 + 1 = age.unit + 2
      BY <1>1
    <3>2. \E v \in 1 .. 24 : Strip(Then(<<>>, age.time, age.unit + 1),
                                   0 + v + timeoffset[age.unit + 1 + 1])
      BY <1>1, <3>1, StripEmpty, ThenStrip
    <3>3. PICK v \in 1 .. 24 : Strip(first, 0 + v + more)
      BY <3>1, <3>2
    <3> HIDE DEF first, more
    <3>4. 0 + v + more \in Nat /\ 0 + v + more <= 24 + more
      BY <1>2
    <3> QED BY <2>1, <3>3, <3>4
  <2>2. CASE ~(age.time > 0)
    <3> HIDE DEF first, more
    <3> QED BY <1>2, <2>2, StripEmpty
  <2> QED BY <2>1, <2>2
<1>4. PICK w \in Nat : w <= 24 + more /\ Strip(ps, w)
  BY <1>3
<1>5. AgePairs(age) = Then(ps, age.subtime, age.unit)
  BY DEF AgePairs
<1> HIDE DEF ps, more
<1>6. PICK v \in 1 .. 24 : Strip(AgePairs(age), w + v + o)
  <2>1. age.unit \in 0 .. 4
    BY <1>1
  <2>2. \E v \in 1 .. 24 : Strip(Then(ps, age.subtime, age.unit), w + v + o)
    BY <1>1, <1>4, <2>1, ThenStrip DEF o
  <2> QED BY <1>5, <2>2
<1>7. w + v + o \in 0 .. 80
  BY <1>2, <1>4
<1> QED BY <1>6, <1>7 DEF age

(* With `ago' and blanks, they fill the strip to its end.                  *)
LEMMA AgeStripIs ==
    ASSUME NEW t \in Nat
    PROVE  Strip(AgeStrip(t), 116)
<1> DEFINE pairs == AgePairs(AgeOf(t))
           ago == Ago(pairs)
<1>1. PICK w \in 0 .. 80 : Strip(pairs, w)
  BY PairsStrip
<1> HIDE DEF pairs
<1>2. Strip(ago, w + 32)
  <2>1. Width(pairs) = w /\ w < 112 /\ "ago" # "battery"
    BY <1>1 DEF Strip
  <2>2. ago = Append(pairs, PictureOf(At(w, 32), "ago", 0))
    BY <2>1 DEF Ago, Picture
  <2>3. 32 \in Nat /\ 32 > 0
    OBVIOUS
  <2> QED BY <1>1, <2>1, <2>2, <2>3, StripPicture
<1> HIDE DEF ago
<1>3. PICK v \in Nat : v = w + 32 /\ v < 116 /\ 116 - v \in Nat /\ 116 - v > 0
                      /\ v + (116 - v) = 116
  OBVIOUS
<1> DEFINE p == <<At(v, 116 - v), {}>>
<1>4. Blanked(ago) = Append(ago, p)
  BY <1>2, <1>3 DEF Strip, Blanked
<1>5. p[1] = At(v, 116 - v) /\ p[2] = {} /\ Plain(p)
  BY <1>3 DEF Plain, Drawable, At, Rect, Rects, AgeX
<1> HIDE DEF p
<1>6. Strip(Append(ago, p), v + (116 - v))
  BY <1>2, <1>3, <1>5, StripAppend
<1>7. Strip(Blanked(ago), 116)
  BY <1>3, <1>4, <1>6
<1> QED BY <1>7 DEF AgeStrip, ago, pairs

(* The strip as a page of its own.                                         *)
LEMMA StripPage ==
    ASSUME NEW ps, Strip(ps, 116)
    PROVE  Page(ps, {At(0, 116)}, {At(0, 116)})
<1> DEFINE r == At(0, 116)
<1>1. r \in Rects /\ Inside(r, Screen)
  BY DEF At, AgeX, Rect, Rects, Inside, Screen
<1>2. \A k \in DOMAIN ps : Plain(ps[k]) /\ Inside(ps[k][1], r)
  BY DEF Strip, SideBySide
<1>3. ASSUME NEW k \in DOMAIN ps PROVE Good(ps[k])
  <2>1. ps[k][1] \in Rects
    BY <1>2 DEF Plain
  <2>2. Inside(ps[k][1], Screen)
    BY <1>2, <2>1 DEF Inside, At, AgeX, Rect, Rects, Screen
  <2> QED BY <2>2 DEF Good, Strip
<1>4. ASSUME NEW k \in DOMAIN ps, NEW x \in Int, NEW y \in Int, Holds(ps[k][2], x, y)
      PROVE  OnArea(x, y, {r})
  <2>1. PICK i \in ps[k][2] : In(x, y, i.rect)
    BY <1>4 DEF Holds
  <2>2. i.rect \in Rects /\ Inside(i.rect, ps[k][1]) /\ ps[k][1] \in Rects
    BY <1>2 DEF Plain, Drawable
  <2>3. In(x, y, r)
    BY <1>2, <2>1, <2>2 DEF In, Inside, At, AgeX, Rect, Rects
  <2> QED BY <2>3 DEF OnArea
<1>5. \A x, y \in Int : OnArea(x, y, {r}) => \E k \in DOMAIN ps : In(x, y, ps[k][1])
  BY DEF OnArea, Strip
<1>6. SideBySide(ps)
  BY DEF Strip
<1> HIDE DEF r
<1>7. Page(ps, {r}, {r})
  BY <1>1, <1>2, <1>3, <1>4, <1>5, <1>6 DEF Page
<1> QED BY <1>7 DEF r

HistoryArea ==
    {Rect(40, 0, 72, 16), Small} \cup RectsOf(ConcentrationRects) \cup {At(0, 116)}

(* The history: its name, the concentration and the age.                   *)
LEMMA HistoryPage ==
    ASSUME NEW s, s.time \in Nat, NEW symbol, symbol < Symbols
    PROVE  \E outer : Page(HistoryMode(s, symbol), HistoryArea, outer)
<1> DEFINE top == <<Picture(Rect(40, 0, 72, 16), "history"), Battery(Small, symbol)>>
           conc == Concentration(s.pm2_5)
           age == AgeStrip(s.time)
           C == RectsOf(ConcentrationRects)
           S == {Rect(40, 0, 72, 16), Small}
           T == {At(0, 116)}
<1>1. Page(top, S, S)
  <2> DEFINE r == Rect(40, 0, 72, 16)
  <2>1. /\ Small \in Rects /\ r \in Rects
        /\ Inside(Small, Screen) /\ Inside(r, Screen) /\ Apart(r, Small)
    BY DEF Small, Rect, Rects, Inside, Apart, Screen
  <2>2. IsPicture(Battery(Small, symbol), Small)
    BY DEF IsPicture, Battery
  <2>3. IsPicture(Picture(r, "history"), r)
    <3>1. "history" # "battery"
      OBVIOUS
    <3> QED BY <3>1 DEF IsPicture, Picture
  <2> HIDE DEF r
  <2>4. Page(<<Picture(r, "history"), Battery(Small, symbol)>>, {r, Small}, {r, Small})
    BY <2>1, <2>2, <2>3, TwoPictures
  <2> QED BY <2>4 DEF r
<1>2. Page(conc, C, C)
  BY ConcentrationPage
<1>3. Page(age, T, T)
  BY AgeStripIs, StripPage
<1>4. \A c \in S, d \in C : Apart(c, d)
  BY ConcentrationRectsAre, SizesAssumption DEF Rect, BigRect, Small, Apart
<1>5. \A c \in S \cup C, d \in T : Apart(c, d)
  BY ConcentrationRectsAre, SizesAssumption DEF Rect, BigRect, Small, Apart, At, AgeX
<1> HIDE DEF top, conc, age, C, S, T
<1>6. Page(top \o conc, S \cup C, S \cup C)
  BY <1>1, <1>2, <1>4, PageConcat
<1>7. Page((top \o conc) \o age, (S \cup C) \cup T, (S \cup C) \cup T)
  BY <1>3, <1>5, <1>6, PageConcat
<1> QED BY <1>7 DEF HistoryMode, HistoryArea, top, conc, age, C, S, T

(* With the power off, the battery alone.                                  *)
LEMMA OffPage ==
    ASSUME NEW symbol, symbol < Symbols
    PROVE  Page(<<Battery(Fullscreen, symbol)>>, {Fullscreen}, {Fullscreen})
<1> DEFINE p == Battery(Fullscreen, symbol)
           ps == <<p>>
           R == <<Fullscreen>>
<1>1. /\ ps \in Seq({p}) /\ DOMAIN ps = 1 .. 1 /\ ps[1] = p /\ R[1] = Fullscreen
  OBVIOUS
<1>2. IsPicture(p, Fullscreen)
  BY DEF IsPicture, Battery
<1>3. Fullscreen \in Rects /\ Inside(Fullscreen, Screen)
  BY DEF Fullscreen, Rect, Rects, Inside, Screen
<1>4. \A k \in 1 .. 1 : k = 1
  OBVIOUS
<1> HIDE DEF p, ps, R
<1>5. /\ \A k \in DOMAIN ps : IsPicture(ps[k], R[k]) /\ R[k] \in Rects /\ Inside(R[k], Screen)
      /\ \A j, k \in DOMAIN ps : j < k => Apart(R[j], R[k])
  BY <1>1, <1>2, <1>3, <1>4
<1>6. Page(ps, {R[k] : k \in DOMAIN ps}, {R[k] : k \in DOMAIN ps})
  BY <1>1, <1>5, PicturesPage DEF IsSeq
<1>7. {R[k] : k \in DOMAIN ps} = {Fullscreen}
  BY <1>1, <1>4
<1> QED BY <1>6, <1>7 DEF ps, p

AreaOf(status) ==
    CASE status = "REALTIME" -> RealtimeArea
      [] status = "POWERSAVE" -> RectsOf(PowersaveRects)
      [] status = "HISTORY" -> HistoryArea
      [] OTHER -> {Fullscreen}

(* Whatever the inputs, a mode paints its area.                            *)
LEMMA ModePage ==
    ASSUME NEW s \in Inputs, NEW symbol, symbol < Symbols
    PROVE  \E outer : Page(Paintings(s, symbol), AreaOf(s.system_status), outer)
<1>1. s.system_status \in Status /\ s.time \in Nat
  BY InputsAssumption
<1>2. CASE s.system_status = "REALTIME"
  <2>1. Paintings(s, symbol) = RealtimeMode(s, symbol) /\ AreaOf(s.system_status) = RealtimeArea
    BY <1>2 DEF Paintings, AreaOf
  <2> QED BY <2>1, RealtimePage
<1>3. CASE s.system_status = "POWERSAVE"
  <2>1. /\ Paintings(s, symbol) = PowersaveMode(s, symbol)
        /\ AreaOf(s.system_status) = RectsOf(PowersaveRects)
    BY <1>3 DEF Paintings, AreaOf
  <2> QED BY <2>1, PowersavePage
<1>4. CASE s.system_status = "HISTORY"
  <2>1. Paintings(s, symbol) = HistoryMode(s, symbol) /\ AreaOf(s.system_status) = HistoryArea
    BY <1>4 DEF Paintings, AreaOf
  <2> QED BY <1>1, <2>1, HistoryPage
<1>5. CASE s.system_status = "POWERDOFF"
  <2>1. /\ Paintings(s, symbol) = <<Battery(Fullscreen, symbol)>>
        /\ AreaOf(s.system_status) = {Fullscreen}
    BY <1>5 DEF Paintings, AreaOf
  <2> QED BY <2>1, OffPage
<1> QED BY <1>1, <1>2, <1>3, <1>4, <1>5 DEF Status

-------------------------------------------------------------------------------
(* The panel: what is on it lies on the screen and on the area of the mode *)
(* that was drawn last.                                                    *)
Within(items, status) ==
    /\ Drawable(items)
    /\ \A x, y \in Int : Holds(items, x, y)
                             => In(x, y, Screen) /\ OnArea(x, y, AreaOf(status))

Tidy(items) ==
    \A p \in items :
        /\ p.what[1] = "battery" => p.what[2] < Symbols
        /\ Inside(p.rect, Screen)
        /\ \A q \in items \ {p} : Apart(p.rect, q.rect)

(* What a page puts on an empty panel.                                     *)
LEMMA PageShows ==
    ASSUME NEW ps, NEW area, NEW outer, Page(ps, area, outer),
           NEW items, items = UNION {ps[k][2] : k \in DOMAIN ps}
    PROVE  /\ Tidy(items) /\ Drawable(items)
           /\ \A x, y \in Int : Holds(items, x, y)
                                    => In(x, y, Screen) /\ OnArea(x, y, area)
<1>1. ASSUME NEW p \in items
      PROVE  \E k \in DOMAIN ps :
                 /\ p \in ps[k][2] /\ Plain(ps[k]) /\ Good(ps[k])
                 /\ p = [rect |-> p.rect, what |-> p.what] /\ p.rect \in Rects
                 /\ Inside(p.rect, ps[k][1]) /\ ps[k][1] \in Rects
                 /\ Inside(p.rect, Screen)
  <2>1. PICK k \in DOMAIN ps : p \in ps[k][2]
    OBVIOUS
  <2>2. Plain(ps[k]) /\ Good(ps[k])
    BY DEF Page, SideBySide
  <2>3. /\ p = [rect |-> p.rect, what |-> p.what] /\ p.rect \in Rects
        /\ Inside(p.rect, ps[k][1]) /\ ps[k][1] \in Rects
    BY <2>1, <2>2 DEF Plain, Drawable
  <2>4. Inside(p.rect, Screen)
    BY <2>2, <2>3 DEF Good, Inside, Rects, Screen, Rect
  <2> QED BY <2>1, <2>2, <2>3, <2>4
<1>2. Drawable(items)
  BY <1>1 DEF Drawable
<1>3. ASSUME NEW p \in items, NEW q \in items \ {p}
      PROVE  Apart(p.rect, q.rect)
  <2>1. PICK j \in DOMAIN ps : /\ p \in ps[j][2] /\ Plain(ps[j])
                               /\ p.rect \in Rects /\ ps[j][1] \in Rects
                               /\ Inside(p.rect, ps[j][1])
    BY <1>1
  <2>2. PICK k \in DOMAIN ps : /\ q \in ps[k][2] /\ Plain(ps[k])
                               /\ q.rect \in Rects /\ ps[k][1] \in Rects
                               /\ Inside(q.rect, ps[k][1])
    BY <1>1
  <2>3. j # k
    BY <2>1, <2>2 DEF Plain
  <2>4. PICK n \in Nat : DOMAIN ps = 1 .. n
    BY DEF Page, SideBySide, IsSeq
  <2>5. CASE j < k
    <3>1. Apart(ps[j][1], ps[k][1])
      BY <2>5 DEF Page, SideBySide
    <3> QED BY <2>1, <2>2, <3>1, InsideApart
  <2>6. CASE k < j
    <3>1. Apart(ps[k][1], ps[j][1])
      BY <2>6 DEF Page, SideBySide
    <3> QED BY <2>1, <2>2, <3>1, InsideApart
  <2> QED BY <2>3, <2>4, <2>5, <2>6
<1>4. Tidy(items)
  BY <1>1, <1>3 DEF Tidy, Good
<1>5. ASSUME NEW x \in Int, NEW y \in Int, Holds(items, x, y)
      PROVE  In(x, y, Screen) /\ OnArea(x, y, area)
  <2>1. PICK p \in items : In(x, y, p.rect)
    BY <1>5 DEF Holds
  <2>2. PICK k \in DOMAIN ps : p \in ps[k][2] /\ p.rect \in Rects /\ Inside(p.rect, Screen)
    BY <1>1
  <2>3. In(x, y, Screen)
    BY <2>1, <2>2 DEF In, Inside, Rects, Screen, Rect
  <2>4. Holds(ps[k][2], x, y)
    BY <2>1, <2>2 DEF Holds
  <2> QED BY <2>3, <2>4 DEF Page
<1> QED BY <1>2, <1>4, <1>5

(* A clear screen has nothing on it.                                       *)
LEMMA ScreenCleared ==
    ASSUME NEW items, NEW status, Within(items, status)
    PROVE  Cleared(items, Screen) = {}
<1>1. Screen \in Rects
  BY DEF Screen, Rect, Rects
<1>2. /\ Drawable(Cleared(items, Screen))
      /\ \A x, y \in Int : Holds(Cleared(items, Screen), x, y)
                               => Holds(items, x, y) /\ ~In(x, y, Screen)
  BY <1>1, ClearedIs DEF Within
<1>3. \A x, y \in Int : ~Holds(Cleared(items, Screen), x, y)
  BY <1>2 DEF Within
<1> HIDE DEF Screen
<1> QED BY <1>2, <1>3, NothingHeld

PanelInv ==
    /\ last_level \in Reading /\ charge_lvl \in Nat
    /\ Within(panel, last_system_status)
    /\ current => panel = drawn /\ Tidy(drawn)

(* The symbol that is drawn, at rest or charging, is one of the table.     *)
LEMMA SymbolIs ==
    ASSUME NEW level \in Reading
    PROVE  /\ SymbolOfLevel(level) \in 0 .. Symbols /\ SymbolOfLevel(level) < Symbols
           /\ charge_lvl \in Nat => Run(level) \in 0 .. Symbols /\ Run(level) < Symbols
<1>1. PICK n \in Nat : STEPS = 2 * n /\ Symbols = n + 1 /\ n > 1
  <2>1. PICK n \in Nat, e \in 0 .. 1 : n = STEPS \div 2 /\ e = STEPS % 2 /\ STEPS = 2 * n + e
    BY StepsAssumption, Divide
  <2>2. STEPS = 2 * n /\ n > 1
    BY <2>1, StepsAssumption
  <2> QED BY <2>1, <2>2 DEF Symbols
<1>2. PICK l \in 0 .. 2 * n : l = level
  BY <1>1 DEF Reading
<1>3. PICK h \in Nat : h = level \div 2 /\ h <= n /\ (Odd(level) => h < n)
  <2>1. PICK h \in Nat, o \in 0 .. 1 : h = l \div 2 /\ o = l % 2 /\ l = 2 * h + o
    BY <1>1, <1>2, Divide
  <2>2. h <= n /\ (o = 1 => h < n)
    BY <1>2, <2>1
  <2> QED BY <1>2, <2>1, <2>2 DEF Odd
<1>4. SymbolOfLevel(level) = h + (IF Odd(level) /\ harf_lvl' THEN 1 ELSE 0)
  BY <1>3 DEF SymbolOfLevel
<1>5. SymbolOfLevel(level) = h \/ (SymbolOfLevel(level) = h + 1 /\ h < n)
  BY <1>3, <1>4
<1>6. SymbolOfLevel(level) \in 0 .. Symbols /\ SymbolOfLevel(level) < Symbols
  BY <1>1, <1>3, <1>5
<1>7. ASSUME charge_lvl \in Nat
      PROVE  Run(level) \in 0 .. Symbols /\ Run(level) < Symbols
  <2>1. Restarted \in Nat /\ Restarted <= n
    BY <1>1, <1>7 DEF Restarted
  <2>2. Run(level) = Max2(Restarted, h)
    BY <1>3 DEF Run
  <2>3. Run(level) = Restarted \/ Run(level) = h
    BY <2>2 DEF Max2
  <2> QED BY <1>1, <1>3, <2>1, <2>3
<1> QED BY <1>6, <1>7

(* oled_update leaves nothing of what was there, and what it paints is on  *)
(* its area.                                                               *)
LEMMA DrawsInv ==
    ASSUME Within(panel, last_system_status), NEW s \in Inputs,
           NEW symbol \in 0 .. Symbols, symbol < Symbols,
           Draws(s.system_status, Views[s][symbol])
    PROVE  Within(panel', s.system_status) /\ panel' = drawn' /\ Tidy(drawn')
<1> DEFINE ps == Paintings(s, symbol)
           status == s.system_status
           items == UNION {ps[k][2] : k \in DOMAIN ps}
           old == Before(status)
<1>1. /\ Views[s][symbol].paintings = ps
      /\ Views[s][symbol].panel = PaintedOn({}, ps)
  BY DEF Views, View
<1>2. panel' = Remains(old, ps) \cup PaintedOn({}, ps) /\ drawn' = items
  BY <1>1 DEF Draws
<1>3. PICK outer : Page(ps, AreaOf(status), outer)
  BY ModePage
<1> HIDE DEF ps, status
<1>4. PaintedOn({}, ps) = items
  BY <1>3, PaintedSideBySide DEF Page
<1>5. /\ Tidy(items) /\ Drawable(items)
      /\ \A x, y \in Int : Holds(items, x, y)
                               => In(x, y, Screen) /\ OnArea(x, y, AreaOf(status))
  <2> HIDE DEF items
  <2>1. items = UNION {ps[k][2] : k \in DOMAIN ps}
    BY DEF items
  <2> QED BY <1>3, <2>1, PageShows
<1>6. Remains(old, ps) = {}
  <2>1. Drawable(old) /\ \A x, y \in Int : Holds(old, x, y)
                                             => \E k \in DOMAIN ps : In(x, y, ps[k][1])
    <3>1. CASE status = last_system_status
      <4>1. old = panel
        BY <3>1 DEF Before
      <4> HIDE DEF old
      <4> QED BY <1>3, <3>1, <4>1 DEF Within, Page
    <3>2. CASE status # last_system_status
      <4>1. old = {}
        BY <3>2, ScreenCleared DEF Before
      <4> HIDE DEF old
      <4> QED BY <4>1 DEF Drawable, Holds
    <3> QED BY <3>1, <3>2
  <2>2. IsSeq(ps) /\ \A k \in DOMAIN ps : ps[k][1] \in Rects
    BY <1>3 DEF Page, SideBySide, Plain
  <2> HIDE DEF old
  <2> QED BY <2>1, <2>2, RemainsNothing
<1> HIDE DEF items, old
<1>7. panel' = items
  BY <1>2, <1>4, <1>6
<1> QED BY <1>2, <1>5, <1>7 DEF Within, status

(* Every refresh, acknowledged command and circle.                         *)
LEMMA NextPanelInv == PanelInv /\ [NextDisplay]_displayVars => PanelInv'
<1> SUFFICES ASSUME PanelInv, [NextDisplay]_displayVars PROVE PanelInv'
  OBVIOUS
<1>1. ASSUME NEW s \in Inputs, NEW low \in BOOLEAN, NEW charge \in BOOLEAN,
             Refresh(s, low, charge)
      PROVE  PanelInv'
  <2> DEFINE level == IF low THEN 0 ELSE last_level
  <2>1. level \in Reading /\ last_level \in Reading /\ charge_lvl \in Nat
    BY StepsAssumption DEF PanelInv, Reading
  <2>2. /\ last_system_status' = s.system_status /\ current' = TRUE
        /\ last_level' = last_level
    BY <1>1 DEF Refresh
  <2> HIDE DEF level
  <2>3. CASE s.system_status = "POWERDOFF" /\ ~low /\ ~charge
    <3>1. /\ panel' = Cleared(panel, Screen) /\ drawn' = {}
          /\ charge_lvl' = charge_lvl
      BY <1>1, <2>3 DEF Refresh
    <3>2. panel' = {}
      BY <3>1, ScreenCleared DEF PanelInv
    <3> QED BY <2>1, <2>2, <3>1, <3>2 DEF PanelInv, Within, Drawable, Holds, Tidy
  <2>4. CASE ~(s.system_status = "POWERDOFF" /\ ~low /\ ~charge)
    <3> DEFINE symbol == IF charge THEN Run(level) ELSE SymbolOfLevel(level)
    <3>1. /\ IF charge THEN DrawCharging(level) ELSE DrawLevel(level)
          /\ Draws(s.system_status, Views[s][symbol])
      BY <1>1, <2>4 DEF Refresh, level
    <3>2. symbol \in 0 .. Symbols /\ symbol < Symbols
      BY <2>1, SymbolIs
    <3>3. charge_lvl' \in Nat
      <4>1. CASE charge
        BY <2>1, <3>1, <4>1, SymbolIs DEF DrawCharging
      <4>2. CASE ~charge
        BY <3>1, <4>2 DEF DrawLevel
      <4> QED BY <4>1, <4>2
    <3> HIDE DEF symbol
    <3>4. Within(panel', s.system_status) /\ panel' = drawn' /\ Tidy(drawn')
      BY <3>1, <3>2, DrawsInv DEF PanelInv
    <3> QED BY <2>1, <2>2, <3>3, <3>4 DEF PanelInv, Within, Tidy
  <2> QED BY <2>3, <2>4
<1>2. CASE InformCheckResult
  <2> DEFINE r == Rect(34, 24, 70, 30)
  <2>1. r \in Rects
    BY DEF Rect, Rects
  <2>2. /\ panel' = Cleared(panel, r) /\ current' = FALSE
        /\ last_level' = last_level /\ charge_lvl' = charge_lvl
        /\ last_system_status' = last_system_status
    BY <1>2 DEF InformCheckResult, batteryVars
  <2> HIDE DEF r
  <2>3. /\ Drawable(Cleared(panel, r))
        /\ \A x, y \in Int : Holds(Cleared(panel, r), x, y) => Holds(panel, x, y)
    BY <2>1, ClearedIs DEF PanelInv, Within
  <2>4. Within(Cleared(panel, r), last_system_status)
    BY <2>3 DEF PanelInv, Within
  <2> QED BY <2>2, <2>4 DEF PanelInv, Within
<1>3. CASE Circle
  <2>1. PICK reading \in Reading : last_level' = Level(reading, last_level)
    BY <1>3 DEF Circle, GetLevel
  <2>2. /\ UNCHANGED <<panel, last_system_status, drawn, current>>
        /\ charge_lvl' = charge_lvl
    BY <1>3 DEF Circle, GetLevel
  <2>3. last_level' \in Reading
    <3>1. PICK n \in Nat : n = reading /\ n <= STEPS
      BY StepsAssumption DEF Reading
    <3>2. Odd(n) => 2 * (n \div 2) = n - 1 /\ n > 0
      BY DEF Odd
    <3> QED BY <2>1, <3>1, <3>2, StepsAssumption DEF Level, Reading, PanelInv
  <2> QED BY <2>2, <2>3 DEF PanelInv, Within, Tidy
<1>4. CASE UNCHANGED displayVars
  BY <1>4 DEF displayVars, batteryVars, PanelInv, Within, Tidy
<1> QED BY <1>1, <1>2, <1>3, <1>4 DEF NextDisplay

(* oled_update: whatever was on the panel, of whatever mode, age, symbol   *)
(* and number, a refresh leaves exactly what it draws, for every input,    *)
(* list of units and sizes of digits that fit.                             *)
THEOREM NothingIsLeft == SpecDisplay => []NothingLeftOver
<1>1. InitDisplay => PanelInv
  <2> SUFFICES ASSUME InitDisplay PROVE PanelInv
    OBVIOUS
  <2>1. last_level \in Reading /\ charge_lvl \in Nat
    BY StepsAssumption DEF InitDisplay, InitBattery, Reading
  <2> QED BY <2>1 DEF InitDisplay, PanelInv, Within, Drawable, Holds, Tidy
<1>2. PanelInv => NothingLeftOver
  <2> SUFFICES ASSUME PanelInv, current PROVE NothingLeftOver
    BY DEF NothingLeftOver
  <2>1. panel = drawn /\ Tidy(drawn)
    BY DEF PanelInv
  <2> QED BY <2>1 DEF NothingLeftOver, Tidy, Inside
<1> QED BY <1>1, <1>2, NextPanelInv, PTL DEF SpecDisplay
===============================================================================
