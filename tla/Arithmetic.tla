------------------------------ MODULE Arithmetic ------------------------------
(***************************************************************************)
(* Arithmetic for the proofs: quotients and remainders of a divisor that   *)
(* is not a literal, products, and sums over finite sets.                  *)
(***************************************************************************)
EXTENDS Integers, FiniteSets, Functions, FiniteSetTheorems, TLAPS

-------------------------------------------------------------------------------
(* Quotients and remainders.                                               *)

(* The defining equation of quotient and remainder.                        *)
LEMMA DivMod ==
    ASSUME NEW a \in Int, NEW m \in Nat, m > 0
    PROVE  /\ a % m \in 0 .. m - 1
           /\ a \div m \in Int
           /\ a = m * (a \div m) + (a % m)
OBVIOUS

(* Quotient and remainder are determined by that equation.                 *)
LEMMA RemainderUnique ==
    ASSUME NEW m \in Nat, m > 0, NEW q \in Int, NEW p \in Int,
           NEW r \in 0 .. m - 1, NEW s \in 0 .. m - 1,
           m * q + r = m * p + s
    PROVE  q = p /\ r = s
<1>1. CASE q < p
  <2>1. m * (p - q) >= m
    <3>1. PICK d \in Nat : p - q = d + 1
      BY <1>1
    <3>2. m * (d + 1) = m * d + m /\ m * d >= 0
      OBVIOUS
    <3> QED BY <3>1, <3>2
  <2>2. m * (p - q) = m * p - m * q
    OBVIOUS
  <2> QED BY <2>1, <2>2
<1>2. CASE p < q
  <2>1. m * (q - p) >= m
    <3>1. PICK d \in Nat : q - p = d + 1
      BY <1>2
    <3>2. m * (d + 1) = m * d + m /\ m * d >= 0
      OBVIOUS
    <3> QED BY <3>1, <3>2
  <2>2. m * (q - p) = m * q - m * p
    OBVIOUS
  <2> QED BY <2>1, <2>2
<1>3. CASE p = q
  BY <1>3
<1> QED BY <1>1, <1>2, <1>3

(* A number written as a multiple of m and a remainder.                    *)
LEMMA ModIs ==
    ASSUME NEW m \in Nat, m > 0, NEW q \in Int, NEW r \in 0 .. m - 1,
           NEW a \in Int, a = m * q + r
    PROVE  a % m = r
<1>1. /\ a % m \in 0 .. m - 1
      /\ a \div m \in Int
      /\ a = m * (a \div m) + (a % m)
  BY DivMod
<1> QED BY <1>1, RemainderUnique

(* Adding a multiple of m leaves the remainder alone.                      *)
LEMMA ModShift ==
    ASSUME NEW m \in Nat, m > 0, NEW k \in Int, NEW a \in Int
    PROVE  (a + m * k) % m = a % m
<1> DEFINE q == a \div m
           r == a % m
<1>1. r \in 0 .. m - 1 /\ q \in Int /\ a = m * q + r
  BY DivMod
<1>2. m * k \in Int /\ m * (q + k) = m * q + m * k
  BY <1>1
<1> HIDE DEF q, r
<1>3. a + m * k = m * (q + k) + r
  BY <1>1, <1>2
<1>4. a + m * k \in Int /\ q + k \in Int
  BY <1>1, <1>2
<1>5. (a + m * k) % m = r
  BY <1>1, <1>3, <1>4, ModIs
<1> QED BY <1>5 DEF r

(* Two numbers less than m apart, and different, have different remainders.*)
LEMMA ModDiffers ==
    ASSUME NEW m \in Nat, m > 0, NEW a \in Int, NEW d \in 1 .. m - 1
    PROVE  (a - d) % m # a % m
<1> SUFFICES ASSUME (a - d) % m = a % m PROVE FALSE
  OBVIOUS
<1> DEFINE q == a \div m
           p == (a - d) \div m
           r == a % m
<1>1. /\ q \in Int /\ p \in Int /\ r \in 0 .. m - 1
      /\ a = m * q + r
      /\ a - d = m * p + r
  <2>1. a - d \in Int
    OBVIOUS
  <2> QED BY <2>1, DivMod
<1> HIDE DEF q, p, r
<1>2. m * (q - p) = m * q - m * p
  BY <1>1
<1>3. m * (q - p) + 0 = m * 0 + d
  BY <1>1, <1>2
<1>4. 0 = d
  <2>1. q - p \in Int /\ 0 \in Int /\ 0 \in 0 .. m - 1 /\ d \in 0 .. m - 1
    BY <1>1
  <2> QED BY <1>3, <2>1, RemainderUnique
<1> QED BY <1>4

(* A quotient is a whole number.                                           *)
LEMMA QuotientIs ==
    ASSUME NEW a \in Int, NEW m \in Nat, m > 0
    PROVE  a \div m \in Int
BY DivMod

(* Products and quotients of naturals.                                     *)
LEMMA ProductPositive ==
    ASSUME NEW a \in Nat, NEW b \in Nat, a > 0, b > 0
    PROVE  a * b \in Nat /\ a * b > 0
<1>1. PICK c \in Nat : a = c + 1
  <2>1. a - 1 \in Nat /\ a = (a - 1) + 1
    OBVIOUS
  <2> QED BY <2>1
<1>2. a * b = c * b + b /\ c * b \in Nat
  BY <1>1
<1> QED BY <1>2

LEMMA QuotientNatural ==
    ASSUME NEW a \in Nat, NEW m \in Nat, m > 0
    PROVE  a \div m \in Nat
<1>1. PICK q \in Int, r \in 0 .. m - 1 : a = m * q + r /\ q = a \div m
  BY DivMod
<1>2. SUFFICES ASSUME q < 0 PROVE FALSE
  BY <1>1
<1>3. PICK k \in Nat : q = -1 - k
  BY <1>1, <1>2
<1>4. m * q = -m - m * k /\ m * k >= 0
  BY <1>3
<1> QED BY <1>1, <1>4

LEMMA Divide ==
    ASSUME NEW a \in Nat, NEW m \in Nat, m > 0
    PROVE  \E q \in Nat, r \in 0 .. m - 1 :
               q = a \div m /\ r = a % m /\ a = m * q + r
BY DivMod, QuotientNatural

(* A larger number has no smaller a quotient.                              *)
LEMMA DivMonotone ==
    ASSUME NEW a \in Int, NEW b \in Int, a <= b, NEW m \in Nat, m > 0
    PROVE  a \div m <= b \div m
<1> PICK q \in Int, r \in 0 .. m - 1 : q = a \div m /\ a = m * q + r
  BY DivMod
<1> PICK p \in Int, s \in 0 .. m - 1 : p = b \div m /\ b = m * p + s
  BY DivMod
<1> SUFFICES ASSUME p < q PROVE FALSE
  OBVIOUS
<1>1. PICK d \in Nat : q = p + 1 + d
  <2>1. q - p - 1 \in Nat /\ q = p + 1 + (q - p - 1)
    OBVIOUS
  <2> QED BY <2>1
<1>2. m * q = m * p + m + m * d /\ m * d >= 0 /\ m * p \in Int /\ m * d \in Int
  BY <1>1
<1> QED BY <1>2

-------------------------------------------------------------------------------
(* Products.                                                               *)

(* Products of natural numbers grow with their factors.                    *)
LEMMA TimesGrows ==
    ASSUME NEW a \in Nat, NEW b \in Nat, NEW c \in Nat, NEW d \in Nat,
           a <= b, c <= d
    PROVE  a * c \in Nat /\ b * d \in Nat /\ a * c <= b * d
<1>1. PICK x \in Nat : b = a + x
    OBVIOUS
<1>2. PICK y \in Nat : d = c + y
    OBVIOUS
<1>3. b * d = a * c + a * y + x * c + x * y
    BY <1>1, <1>2
<1>4. a * c \in Nat /\ a * y \in Nat /\ x * c \in Nat /\ x * y \in Nat
    OBVIOUS
<1> QED
    BY <1>3, <1>4

(* Factors are ordered as their products are, up to a remainder.           *)
LEMMA ProductOrder ==
    ASSUME NEW m \in Nat, m > 0, NEW a \in Int, NEW b \in Int, NEW r \in 0 .. m - 1,
           m * a <= m * b + r
    PROVE  a <= b
<1> SUFFICES ASSUME b < a PROVE FALSE
  OBVIOUS
<1>1. PICK d \in Nat : a = b + 1 + d
  <2>1. a - b - 1 \in Nat /\ a = b + 1 + (a - b - 1)
    OBVIOUS
  <2> QED BY <2>1
<1>2. m * a = m * b + m + m * d /\ m * d >= 0 /\ m * b \in Int /\ m * d \in Int
  BY <1>1
<1> QED BY <1>2

(* A product grows with its factor, positive or not.                       *)
LEMMA ProductGrows ==
    ASSUME NEW m \in Nat, NEW a \in Int, NEW b \in Int, a <= b
    PROVE  m * a <= m * b
<1> PICK d \in Nat : b = a + d
  <2>1. b - a \in Nat /\ b = a + (b - a)
    OBVIOUS
  <2> QED BY <2>1
<1>1. m * b = m * a + m * d /\ m * d >= 0 /\ m * a \in Int /\ m * d \in Int
  OBVIOUS
<1> QED BY <1>1

-------------------------------------------------------------------------------
(* Sums over finite sets.  The fold that computes them chooses an order of *)
(* its own, so what it computes is proved from a smallest counterexample.  *)

(* A set of subsets of a finite set has a smallest one: what the           *)
(* inductions over finite sets below are made of.                          *)
Smallest(m, B) == m \in B /\ \A n \in B : n \subseteq m => n = m

LEMMA SmallestSubset ==
    ASSUME NEW S, IsFiniteSet(S), NEW B, B # {}, \A n \in B : n \subseteq S
    PROVE  \E m : Smallest(m, B)
<1>1. IsWellFoundedOn(StrictSubsetOrdering(S), SUBSET S)
  BY FS_StrictSubsetOrderingWellFounded, FS_FiniteSubsetsOfFinite
<1>2. B \subseteq SUBSET S
  OBVIOUS
<1>3. PICK m \in B : \A n \in B : ~(<<n, m>> \in StrictSubsetOrdering(S))
  BY <1>1, <1>2, WFMin
<1>4. ASSUME NEW n \in B, n \subseteq m PROVE n = m
  BY <1>2, <1>3, <1>4 DEF StrictSubsetOrdering
<1> QED BY <1>4 DEF Smallest

(* A set of natural numbers has a smallest one.                            *)
LEMMA SmallestNumber ==
    ASSUME NEW B \in SUBSET Nat, B # {}
    PROVE  \E m \in B : \A n \in B : m <= n
<1>1. PICK top \in B : TRUE
  OBVIOUS
<1> DEFINE C == {n \in B : n <= top}
           Below == {0 .. n - 1 : n \in C}
<1>2. IsFiniteSet(0 .. top - 1)
  BY FS_Interval
<1>3. Below \in SUBSET (SUBSET (0 .. top - 1)) /\ 0 .. top - 1 \in Below
  OBVIOUS
<1> HIDE DEF Below
<1>4. PICK s : Smallest(s, Below)
  <2>1. Below # {} /\ \A n \in Below : n \subseteq 0 .. top - 1
    BY <1>3
  <2> QED BY <1>2, <2>1, SmallestSubset
<1>5. PICK m \in C : s = 0 .. m - 1
  BY <1>4 DEF Below, Smallest
<1>6. ASSUME NEW n \in B PROVE m <= n
  <2> SUFFICES ASSUME n < m PROVE FALSE
    OBVIOUS
  <2>1. n \in C /\ n - 1 < m - 1
    OBVIOUS
  <2>2. 0 .. n - 1 \in Below
    BY <2>1 DEF Below
  <2>3. 0 .. n - 1 \subseteq s /\ m - 1 \in s /\ m - 1 \notin 0 .. n - 1
    BY <1>5, <2>1
  <2> QED BY <1>4, <2>2, <2>3 DEF Smallest
<1> QED BY <1>6

(* What the fold takes first, and the recursion it is a solution of.       *)
AnyOf(s) == CHOOSE x \in s : TRUE

LEMMA AnyOfIn == ASSUME NEW s, s # {} PROVE AnyOf(s) \in s
BY DEF AnyOf

Adds(f, S, g) ==
    g = [s \in SUBSET S |-> IF s = {} THEN 0 ELSE f[AnyOf(s)] + g[s \ {AnyOf(s)}]]

LEMMA SumChosen ==
    ASSUME NEW f, NEW S
    PROVE  SumFunctionOnSet(f, S) = (CHOOSE g : Adds(f, S, g))[S]
BY DEF SumFunctionOnSet, FoldFunctionOnSet, MapThenFoldSet, Adds, AnyOf

(* Two such functions agree where both are defined.                        *)
LEMMA AddsUnique ==
    ASSUME NEW f, NEW S, NEW T, NEW U, IsFiniteSet(U), U \subseteq S, U \subseteq T,
           NEW g, Adds(f, S, g), NEW h, Adds(f, T, h)
    PROVE  g[U] = h[U]
<1> DEFINE B == {s \in SUBSET U : g[s] # h[s]}
<1> SUFFICES ASSUME B # {} PROVE FALSE
  OBVIOUS
<1>1. PICK s : Smallest(s, B)
  <2>1. \A t \in B : t \subseteq U
    OBVIOUS
  <2> HIDE DEF B
  <2> QED BY <2>1, SmallestSubset
<1>2. /\ g[s] = IF s = {} THEN 0 ELSE f[AnyOf(s)] + g[s \ {AnyOf(s)}]
      /\ h[s] = IF s = {} THEN 0 ELSE f[AnyOf(s)] + h[s \ {AnyOf(s)}]
      /\ g[s] # h[s] /\ s \in SUBSET U
  BY <1>1 DEF Adds, Smallest
<1>3. s # {} /\ AnyOf(s) \in s
  BY <1>2, AnyOfIn
<1>4. s \ {AnyOf(s)} \notin B
  BY <1>1, <1>3 DEF Smallest
<1>5. g[s \ {AnyOf(s)}] = h[s \ {AnyOf(s)}]
  BY <1>2, <1>4
<1> QED BY <1>2, <1>3, <1>5

(* The recursion of the fold has a solution.                               *)
LEMMA AddsExists ==
    ASSUME NEW f, NEW S, IsFiniteSet(S)
    PROVE  \E g : Adds(f, S, g)
<1> DEFINE B == {T \in SUBSET S : ~ \E g : Adds(f, T, g)}
<1> SUFFICES ASSUME B # {} PROVE FALSE
  OBVIOUS
<1>1. PICK T : Smallest(T, B)
  <2>1. \A t \in B : t \subseteq S
    OBVIOUS
  <2> HIDE DEF B
  <2> QED BY <2>1, SmallestSubset
<1> DEFINE G(U) == CHOOSE g : Adds(f, U, g)
           sum == [s \in SUBSET T |->
                      IF s = {} THEN 0
                      ELSE f[AnyOf(s)] + G(s \ {AnyOf(s)})[s \ {AnyOf(s)}]]
<1>2. ASSUME NEW U \in SUBSET T, U # T PROVE Adds(f, U, G(U))
  <2>1. U \notin B /\ U \in SUBSET S
    BY <1>1, <1>2 DEF Smallest
  <2>2. \E g : Adds(f, U, g)
    BY <2>1
  <2> QED BY <2>2
<1> HIDE DEF G
<1>3. ASSUME NEW U \in SUBSET T, U # T PROVE sum[U] = G(U)[U]
  <2>1. CASE U = {}
    <3>1. G(U)[U] = 0
      BY <1>2, <1>3, <2>1 DEF Adds
    <3> QED BY <2>1, <3>1
  <2>2. CASE U # {}
    <3> DEFINE V == U \ {AnyOf(U)}
    <3>1. AnyOf(U) \in U /\ V \in SUBSET U /\ V \in SUBSET T /\ V # T
      BY <2>2, AnyOfIn
    <3>2. Adds(f, U, G(U)) /\ Adds(f, V, G(V))
      BY <1>2, <1>3, <3>1
    <3>3. IsFiniteSet(V)
      BY <1>1, <3>1, FS_Subset DEF Smallest
    <3>4. G(U)[V] = G(V)[V]
      BY <3>1, <3>2, <3>3, AddsUnique
    <3>5. G(U)[U] = f[AnyOf(U)] + G(U)[V]
      BY <2>2, <3>2 DEF Adds
    <3>6. sum[U] = f[AnyOf(U)] + G(V)[V]
      BY <2>2
    <3> QED BY <3>4, <3>5, <3>6
  <2> QED BY <2>1, <2>2
<1>4. ASSUME NEW s \in SUBSET T
      PROVE  sum[s] = IF s = {} THEN 0 ELSE f[AnyOf(s)] + sum[s \ {AnyOf(s)}]
  <2>1. CASE s = {}
    BY <2>1
  <2>2. CASE s # {}
    <3> DEFINE V == s \ {AnyOf(s)}
    <3>1. V \in SUBSET T /\ V # T
      BY <2>2, AnyOfIn
    <3>2. sum[V] = G(V)[V]
      BY <1>3, <3>1
    <3>3. sum[s] = f[AnyOf(s)] + G(V)[V]
      BY <2>2
    <3> QED BY <2>2, <3>2, <3>3
  <2> QED BY <2>1, <2>2
<1>5. sum = [s \in SUBSET T |-> sum[s]]
  OBVIOUS
<1> HIDE DEF sum
<1>6. Adds(f, T, sum)
  BY <1>4, <1>5 DEF Adds
<1> QED BY <1>1, <1>6 DEF Smallest

(* What a sum is, of whatever the fold takes first.                        *)
LEMMA SumUnfolds ==
    ASSUME NEW f, NEW S, IsFiniteSet(S)
    PROVE  /\ S = {} => SumFunctionOnSet(f, S) = 0
           /\ S # {} => SumFunctionOnSet(f, S)
                            = f[AnyOf(S)] + SumFunctionOnSet(f, S \ {AnyOf(S)})
<1> DEFINE G(U) == CHOOSE g : Adds(f, U, g)
           V == S \ {AnyOf(S)}
<1>1. V \subseteq S /\ IsFiniteSet(V)
  BY FS_Subset
<1>2. Adds(f, S, G(S)) /\ Adds(f, V, G(V))
  BY <1>1, AddsExists
<1>3. SumFunctionOnSet(f, S) = G(S)[S] /\ SumFunctionOnSet(f, V) = G(V)[V]
  BY SumChosen
<1> HIDE DEF G
<1>4. G(S)[V] = G(V)[V]
  BY <1>1, <1>2, AddsUnique
<1>5. G(S)[S] = IF S = {} THEN 0 ELSE f[AnyOf(S)] + G(S)[V]
  BY <1>2 DEF Adds
<1> QED BY <1>3, <1>4, <1>5

(* The sum of nothing is 0.                                                *)
LEMMA SumEmpty == \A f : SumFunctionOnSet(f, {}) = 0
BY SumUnfolds, FS_EmptySet

(* The sum of integers is one, and that of natural numbers is one.         *)
LEMMA SumIn ==
    ASSUME NEW f, NEW S, IsFiniteSet(S), NEW Typ \in {Nat, Int},
           \A i \in S : f[i] \in Typ
    PROVE  SumFunctionOnSet(f, S) \in Typ
<1> DEFINE B == {T \in SUBSET S : SumFunctionOnSet(f, T) \notin Typ}
<1> SUFFICES ASSUME B # {} PROVE FALSE
  OBVIOUS
<1>1. PICK T : Smallest(T, B)
  <2>1. \A t \in B : t \subseteq S
    OBVIOUS
  <2> HIDE DEF B
  <2> QED BY <2>1, SmallestSubset
<1>2. T \in SUBSET S /\ SumFunctionOnSet(f, T) \notin Typ /\ IsFiniteSet(T)
  BY <1>1, FS_Subset DEF Smallest
<1>3. CASE T = {}
  BY <1>2, <1>3, SumEmpty
<1>4. CASE T # {}
  <2> DEFINE a == AnyOf(T)
             U == T \ {a}
  <2>1. a \in T
    BY <1>4, AnyOfIn
  <2>2. SumFunctionOnSet(f, T) = f[a] + SumFunctionOnSet(f, U)
    BY <1>2, <1>4, SumUnfolds
  <2> HIDE DEF a
  <2>3. SumFunctionOnSet(f, U) \in Typ
    BY <1>1, <1>2, <2>1 DEF Smallest
  <2>4. f[a] \in Typ
    BY <1>2, <2>1
  <2> HIDE DEF U
  <2> QED BY <1>2, <2>2, <2>3, <2>4
<1> QED BY <1>3, <1>4

(* Any element may be taken first.                                         *)
LEMMA SumTakes ==
    ASSUME NEW f, NEW S, IsFiniteSet(S), \A i \in S : f[i] \in Int, NEW x \in S
    PROVE  SumFunctionOnSet(f, S) = f[x] + SumFunctionOnSet(f, S \ {x})
<1> DEFINE Any(T) == \A y \in T : SumFunctionOnSet(f, T) = f[y] + SumFunctionOnSet(f, T \ {y})
           B == {T \in SUBSET S : ~ Any(T)}
<1> SUFFICES ASSUME B # {} PROVE FALSE
  BY DEF B, Any
<1>1. PICK T : Smallest(T, B)
  <2>1. \A t \in B : t \subseteq S
    OBVIOUS
  <2> HIDE DEF B
  <2> QED BY <2>1, SmallestSubset
<1>2. T \in SUBSET S /\ ~ Any(T) /\ IsFiniteSet(T)
  BY <1>1, FS_Subset DEF Smallest
<1>3. PICK y \in T : SumFunctionOnSet(f, T) # f[y] + SumFunctionOnSet(f, T \ {y})
  BY <1>2
<1> DEFINE a == AnyOf(T)
           both == (T \ {a}) \ {y}
<1>4. a \in T
  BY <1>3, AnyOfIn
<1>5. SumFunctionOnSet(f, T) = f[a] + SumFunctionOnSet(f, T \ {a})
  BY <1>2, <1>3, SumUnfolds
<1> HIDE DEF a
<1>6. a # y
  BY <1>3, <1>5
<1>7. Any(T \ {a}) /\ Any(T \ {y})
  <2>1. T \ {a} \notin B /\ T \ {y} \notin B
    BY <1>1, <1>3, <1>4 DEF Smallest
  <2> QED BY <1>2, <2>1
<1>8. SumFunctionOnSet(f, T \ {a}) = f[y] + SumFunctionOnSet(f, both)
  BY <1>3, <1>6, <1>7
<1>9. SumFunctionOnSet(f, T \ {y}) = f[a] + SumFunctionOnSet(f, both)
  <2>1. both = (T \ {y}) \ {a}
    OBVIOUS
  <2>2. a \in T \ {y}
    BY <1>4, <1>6
  <2> QED BY <1>7, <2>1, <2>2
<1>10. f[a] \in Int /\ f[y] \in Int /\ SumFunctionOnSet(f, both) \in Int
  <2>1. both \subseteq S /\ IsFiniteSet(both)
    BY <1>2, FS_Subset
  <2>2. SumFunctionOnSet(f, both) \in Int
    BY <2>1, SumIn
  <2> QED BY <1>2, <1>3, <1>4, <2>2
<1> HIDE DEF both
<1> QED BY <1>3, <1>5, <1>8, <1>9, <1>10

(* A new element adds its value.                                           *)
LEMMA SumAdds ==
    ASSUME NEW f, NEW S, IsFiniteSet(S), NEW x, x \notin S,
           \A i \in S \cup {x} : f[i] \in Int
    PROVE  SumFunctionOnSet(f, S \cup {x}) = f[x] + SumFunctionOnSet(f, S)
<1>1. IsFiniteSet(S \cup {x}) /\ (S \cup {x}) \ {x} = S
  BY FS_AddElement
<1> QED BY <1>1, SumTakes

(* Equal functions have equal sums.                                        *)
LEMMA SumSame ==
    ASSUME NEW f, NEW g, NEW S, IsFiniteSet(S), \A i \in S : f[i] = g[i]
    PROVE  SumFunctionOnSet(f, S) = SumFunctionOnSet(g, S)
<1> DEFINE B == {T \in SUBSET S : SumFunctionOnSet(f, T) # SumFunctionOnSet(g, T)}
<1> SUFFICES ASSUME B # {} PROVE FALSE
  OBVIOUS
<1>1. PICK T : Smallest(T, B)
  <2>1. \A t \in B : t \subseteq S
    OBVIOUS
  <2> HIDE DEF B
  <2> QED BY <2>1, SmallestSubset
<1>2. /\ T \in SUBSET S /\ IsFiniteSet(T)
      /\ SumFunctionOnSet(f, T) # SumFunctionOnSet(g, T)
  BY <1>1, FS_Subset DEF Smallest
<1>3. T # {}
  BY <1>2, SumEmpty
<1> DEFINE a == AnyOf(T)
           U == T \ {a}
<1>4. a \in T
  BY <1>3, AnyOfIn
<1>5. /\ SumFunctionOnSet(f, T) = f[a] + SumFunctionOnSet(f, U)
      /\ SumFunctionOnSet(g, T) = g[a] + SumFunctionOnSet(g, U)
  BY <1>2, <1>3, SumUnfolds
<1> HIDE DEF a
<1>6. SumFunctionOnSet(f, U) = SumFunctionOnSet(g, U)
  BY <1>1, <1>2, <1>4 DEF Smallest
<1> QED BY <1>2, <1>4, <1>5, <1>6

(* More slots sum up to more, unless what they hold is 0.                  *)
LEMMA SumGrows ==
    ASSUME NEW f, NEW S, IsFiniteSet(S), \A i \in S : f[i] \in Nat, NEW T, T \subseteq S
    PROVE  /\ SumFunctionOnSet(f, T) <= SumFunctionOnSet(f, S)
           /\ (\A i \in S \ T : f[i] = 0)
                  => SumFunctionOnSet(f, T) = SumFunctionOnSet(f, S)
<1> DEFINE Fine(U) ==
               /\ SumFunctionOnSet(f, T) <= SumFunctionOnSet(f, U)
               /\ (\A i \in U \ T : f[i] = 0)
                      => SumFunctionOnSet(f, T) = SumFunctionOnSet(f, U)
           B == {U \in SUBSET S : T \subseteq U /\ ~ Fine(U)}
<1> SUFFICES ASSUME B # {} PROVE FALSE
  OBVIOUS
<1>1. PICK U : Smallest(U, B)
  <2>1. \A t \in B : t \subseteq S
    OBVIOUS
  <2> HIDE DEF B
  <2> QED BY <2>1, SmallestSubset
<1>2. U \in SUBSET S /\ T \subseteq U /\ ~ Fine(U)
  BY <1>1 DEF Smallest
<1>3. /\ SumFunctionOnSet(f, T) \in Nat /\ IsFiniteSet(U)
  <2>1. IsFiniteSet(T) /\ IsFiniteSet(U)
    BY <1>2, FS_Subset
  <2> QED BY <2>1, SumIn
<1>4. PICK x \in U : x \notin T
  <2>1. U # T
    BY <1>2, <1>3
  <2> QED BY <1>2, <2>1
<1> DEFINE V == U \ {x}
<1>5. Fine(V) /\ V \subseteq S /\ T \subseteq V
  BY <1>1, <1>2, <1>4 DEF Smallest
<1>6. SumFunctionOnSet(f, U) = f[x] + SumFunctionOnSet(f, V)
  BY <1>2, <1>3, SumTakes
<1>7. SumFunctionOnSet(f, V) \in Nat /\ f[x] \in Nat
  <2>1. IsFiniteSet(V)
    BY <1>5, FS_Subset
  <2> QED BY <1>2, <1>5, <2>1, SumIn
<1>8. x \in U \ T /\ U \ T = (V \ T) \cup {x}
  BY <1>4
<1> HIDE DEF V
<1> QED BY <1>2, <1>3, <1>5, <1>6, <1>7, <1>8
===============================================================================
