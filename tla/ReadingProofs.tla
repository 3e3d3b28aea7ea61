---------------------------- MODULE ReadingProofs -----------------------------
(***************************************************************************)
(* Proofs about the number that is shown and the calibration behind it.    *)
(*                                                                         *)
(* Dust and Reading: averaging, smoothing and the share of the light, for  *)
(* every size of the buffer, width of the integers and set of samples.     *)
(* Curve and Correction: the two piecewise functions, for all tables.      *)
(* CalibrationStore: the pair in the EEPROM, wherever resets cut a write.  *)
(* Calibration: the lock before it, for every set of commands and digits,  *)
(* and however long a reading takes to get steady.                         *)
(***************************************************************************)
EXTENDS Calibration, Correction, Reading, Arithmetic

-------------------------------------------------------------------------------
(* The lock.                                                               *)

(* As long as every command obeyed is the one that was taken, whatever may *)
(* still change the calibration has an unlock behind it that no change has *)
(* used up: the open lock, a calibration in the middle of being carried    *)
(* out, and one that waits for a steady reading while the lock is READY.   *)
LockInv ==
    ~raced =>
        /\ unlock_step = "UNLOCK" => unlocked
        /\ stage \in {"deal", "write"} => unlocked
        /\ (stage = "circle" /\ unlock_step = "READY"
                /\ CommandType = PM25_CALIBRATION_CODE) => unlocked

(* The lock is READY for as long as a calibration is carried out, so that  *)
(* the unlock it uses up is not that of an open lock.                      *)
DealReady == stage \in {"deal", "write"} => unlock_step = "READY"

CalibrationInv == LockInv /\ DealReady

(* A new device is locked and has no command.                              *)
LEMMA InitCalibrationInv == Init => CalibrationInv
BY CodeAssumption DEF Init, Port!Init, CalibrationInv, LockInv, DealReady

(* Every command, refresh, key, reset and whatever else keeps it.          *)
LEMMA NextCalibrationInv == CalibrationInv /\ [Next]_vars => CalibrationInv'
<1> SUFFICES ASSUME CalibrationInv, [Next]_vars
             PROVE  CalibrationInv'
    OBVIOUS
<1> USE CodeAssumption DEF CalibrationInv, LockInv, DealReady
<1>1. CASE Line
    BY <1>1 DEF Line, Port!Arrive, Port!Disturb, ghost
<1>2. CASE CheckTake
    BY <1>2 DEF CheckTake, Port!Take, ghost
<1>3. CASE PowerOn
    BY <1>3 DEF PowerOn, Obey, Port!Return
<1>4. CASE Switch
    BY <1>4 DEF Switch, Obey, Port!Return
<1>5. CASE Calibrate
    BY <1>5 DEF Calibrate, Obey, Port!Return
<1>6. CASE Unlock
    BY <1>6 DEF Unlock, Obey, Port!Return
<1>7. CASE Erase
    BY <1>7 DEF Erase, Obey, Port!Return
<1>8. CASE OtherCommand
    BY <1>8 DEF OtherCommand, Obey, Port!Return
<1>9. CASE Refresh
    BY <1>9 DEF Refresh, Port!Deal, Port!Drop, port, ghost
<1>10. CASE Clear
    BY <1>10 DEF Clear, Port!Wipe, ghost
<1>11. CASE Write
    BY <1>11 DEF Write, Port!Finish
<1>12. CASE OtherStatus \/ Sleep \/ Charger \/ Air
    BY <1>12 DEF OtherStatus, Sleep, Charger, Air, port, ghost
<1>13. CASE Reset
    BY <1>13 DEF Reset, Port!Reset
<1>14. CASE UNCHANGED vars
    BY <1>14 DEF vars
<1> QED
    BY <1>1, <1>2, <1>3, <1>4, <1>5, <1>6, <1>7, <1>8, <1>9, <1>10, <1>11, <1>12,
       <1>13, <1>14 DEF Next

(* check_uart and pm25_get_correction: whatever comes between, a change of *)
(* the calibration uses up an unlock of its own.                           *)
THEOREM LockProtects == Spec => EachChangeUnlocked
<1> DEFINE A == correction' # correction => unlocked \/ raced
<1>1. CalibrationInv /\ [Next]_vars => [A]_vars
    <2> SUFFICES ASSUME CalibrationInv, Next, correction' # correction
                 PROVE  unlocked \/ raced
        OBVIOUS
    <2>1. Erase \/ Write
        BY DEF Next, Line, CheckTake, PowerOn, Switch, Calibrate, Unlock, OtherCommand,
               Refresh, Clear, OtherStatus, Sleep, Charger, Air, Reset
    <2>2. CASE Erase
        BY <2>2 DEF Erase, CalibrationInv, LockInv
    <2>3. CASE Write
        BY <2>3 DEF Write, Port!Finish, CalibrationInv, LockInv
    <2> QED
        BY <2>1, <2>2, <2>3
<1> QED
    BY <1>1, InitCalibrationInv, NextCalibrationInv, PTL DEF Spec, EachChangeUnlocked

-------------------------------------------------------------------------------
(* The stored pair, of which correction is the effect: CalibrationStore,   *)
(* a specification of its own with variables of its own.                   *)

(* The device is not corrected, or by a calibration that is in both dwords.*)
OnePair == \/ master = UINT32_MAX \/ self = UINT32_MAX
           \/ master = self /\ master \in Reading

(* Whatever the flags say of what was cut before, the dword written first  *)
(* holds what is being written or erased when the second one is; and away  *)
(* from that point the pair is that of one calibration, but for the cuts   *)
(* the flags remember.                                                     *)
StoreInv ==
    /\ pc \in PC
    /\ pc \in {"write_master", "write_self"} => data \in Reading
    /\ pc = "write_self" => master = data
    /\ pc = "erase_self" => master = UINT32_MAX
    /\ (pc \notin {"write_self", "erase_self"} /\ ~cut_inside /\ ~cut_over) => OnePair

(* Every write of a dword, and every cut before, in and after it, keeps it.*)
LEMMA NextStoreInv == StoreInv /\ [NextStore]_storeVars => StoreInv'
<1> SUFFICES ASSUME StoreInv, [NextStore]_storeVars
             PROVE  StoreInv'
    OBVIOUS
<1> USE DEF StoreInv, PC, OnePair
<1>1. ASSUME NEW reading \in Reading, WriteGasParameter(reading)
      PROVE  StoreInv'
    BY <1>1 DEF WriteGasParameter
<1>2. CASE WriteMaster
    BY <1>2 DEF WriteMaster
<1>3. CASE WriteSelf
    BY <1>3 DEF WriteSelf
<1>4. CASE ErasePm25Clibration
    BY <1>4 DEF ErasePm25Clibration
<1>5. CASE EraseMaster
    BY <1>5 DEF EraseMaster
<1>6. CASE EraseSelf
    BY <1>6 DEF EraseSelf
<1>7. CASE ResetStore
    <2>1. CASE Cut
        BY <1>7, <2>1 DEF ResetStore, Cut
    <2>2. CASE CutInside
        BY <1>7, <2>2 DEF ResetStore, CutInside
    <2> QED
        BY <1>7, <2>1, <2>2 DEF ResetStore
<1>8. CASE UNCHANGED storeVars
    BY <1>8 DEF storeVars
<1> QED
    BY <1>1, <1>2, <1>3, <1>4, <1>5, <1>6, <1>7, <1>8 DEF NextStore

(* WriteGasParameter and erasePm25Clibration: wherever resets cut them, a  *)
(* correction in effect is that of one calibration, unless one made over   *)
(* another was cut between its dwords, or a dword itself was.              *)
THEOREM PairStaysOne == SpecStore => []PairOfOneCalibration
<1>1. InitStore => StoreInv
    BY DEF InitStore, StoreInv, PC, OnePair
<1>2. StoreInv => PairOfOneCalibration
    BY DEF StoreInv, OnePair, PairOfOneCalibration, InEffect
<1> QED
    BY <1>1, <1>2, NextStoreInv, PTL DEF SpecStore

-------------------------------------------------------------------------------
(* The fifo of the averaging.                                              *)

(* The fifo: indices run over twice the slots.                             *)
LEMMA MaskedIs ==
    ASSUME NEW a \in Int
    PROVE  /\ Masked(a) \in 0 .. 2 * AVG_BUFFER_SIZE - 1
           /\ \E q \in Int : a = 2 * AVG_BUFFER_SIZE * q + Masked(a)
<1> PICK m : m = 2 * AVG_BUFFER_SIZE
  OBVIOUS
<1>1. m \in Nat /\ m > 0
  BY SizeAssumption
<1>2. a % m \in 0 .. m - 1 /\ a \div m \in Int /\ a = m * (a \div m) + (a % m)
  BY <1>1, DivMod
<1>3. Masked(a) = a % m
  BY DEF Masked
<1> QED BY <1>2, <1>3

(* A number written as a multiple of that and an index.                    *)
LEMMA MaskedWhen ==
    ASSUME NEW a \in Int, NEW q \in Int, NEW n \in 0 .. 2 * AVG_BUFFER_SIZE - 1,
           a = 2 * AVG_BUFFER_SIZE * q + n
    PROVE  Masked(a) = n
<1>1. PICK m : m = 2 * AVG_BUFFER_SIZE
  OBVIOUS
<1>2. m \in Nat /\ m > 0
  BY <1>1, SizeAssumption
<1>3. a = m * q + n /\ n \in 0 .. m - 1
  BY <1>1
<1>4. a % m = n
  BY <1>2, <1>3, ModIs
<1> QED BY <1>1, <1>4 DEF Masked

(* The indices, and the slot that is k behind an index.                    *)
Index == 0 .. 2 * AVG_BUFFER_SIZE - 1
Nth(r, k) == (r + k) % AVG_BUFFER_SIZE

(* After a push there is one more in the fifo, in the slot behind the      *)
(* last.                                                                   *)
LEMMA PushCounts ==
    ASSUME NEW r \in Index, NEW w \in Index, UsedSize(r, w) < AVG_BUFFER_SIZE
    PROVE  /\ Masked(w + 1) \in Index
           /\ UsedSize(r, Masked(w + 1)) = UsedSize(r, w) + 1
           /\ w % AVG_BUFFER_SIZE = Nth(r, UsedSize(r, w))
<1> PICK N : N = AVG_BUFFER_SIZE
  OBVIOUS
<1> PICK n : n = UsedSize(r, w)
  OBVIOUS
<1> PICK v : v = Masked(w + 1)
  OBVIOUS
<1>1. /\ N \in Nat /\ N > 0 /\ r \in Int /\ w \in Int
      /\ w + 1 \in Int /\ w - r \in Int
  BY SizeAssumption DEF Index
<1>2. n = Masked(w - r) /\ n < N
  BY DEF UsedSize
<1>3. PICK p \in Int : w - r = 2 * N * p + n
  BY <1>1, <1>2, MaskedIs
<1>4. PICK q \in Int : w + 1 = 2 * N * q + v
  BY <1>1, MaskedIs
<1>5. n \in 0 .. 2 * N - 1 /\ v \in 0 .. 2 * N - 1
  BY <1>1, <1>2, MaskedIs
<1>6. PICK x \in Int : x = 2 * N * p
  BY <1>1
<1>7. PICK y \in Int : y = 2 * N * q
  BY <1>1
<1> PICK m \in Int : p = q + m
  <2>1. p = q + (p - q) /\ p - q \in Int
    OBVIOUS
  <2> QED BY <2>1
<1>8. 2 * N * (q + m) = 2 * N * q + 2 * N * m
  BY <1>1
<1>9. v - r \in Int /\ v - r = 2 * N * m + (n + 1) /\ n + 1 \in 0 .. 2 * N - 1
  BY <1>1, <1>2, <1>3, <1>4, <1>5, <1>6, <1>7, <1>8
<1>10. UsedSize(r, v) = n + 1
  <2>1. Masked(v - r) = n + 1
    BY <1>8, <1>9, MaskedWhen
  <2> QED BY <2>1 DEF UsedSize
<1>11. w % N = (r + n) % N
  <2>1. N * (2 * p) = x /\ 2 * p \in Int
    BY <1>1, <1>6
  <2>2. w = (r + n) + N * (2 * p) /\ r + n \in Int
    BY <1>1, <1>3, <1>5, <1>6, <2>1
  <2>3. ((r + n) + N * (2 * p)) % N = (r + n) % N
    <3> PICK a \in Int : a = r + n
      BY <2>2
    <3> PICK b \in Int : b = 2 * p
      BY <2>1
    <3>1. (a + N * b) % N = a % N
      BY <1>1, ModShift
    <3> QED BY <3>1
  <2> QED BY <2>2, <2>3
<1> QED BY <1>5, <1>10, <1>11 DEF Nth, Index

(* After a pull there is one less, and the others move up.                 *)
LEMMA PullCounts ==
    ASSUME NEW r \in Index, NEW w \in Index, UsedSize(r, w) > 0
    PROVE  /\ Masked(r + 1) \in Index
           /\ UsedSize(Masked(r + 1), w) = UsedSize(r, w) - 1
           /\ \A k \in Nat : Nth(Masked(r + 1), k) = Nth(r, k + 1)
<1> PICK N : N = AVG_BUFFER_SIZE
  OBVIOUS
<1> PICK n : n = UsedSize(r, w)
  OBVIOUS
<1> PICK v : v = Masked(r + 1)
  OBVIOUS
<1>1. /\ N \in Nat /\ N > 0 /\ r \in Int /\ w \in Int
      /\ r + 1 \in Int /\ w - r \in Int
  BY SizeAssumption DEF Index
<1>2. n = Masked(w - r) /\ n > 0
  BY DEF UsedSize
<1>3. PICK p \in Int : w - r = 2 * N * p + n
  BY <1>1, <1>2, MaskedIs
<1>4. PICK q \in Int : r + 1 = 2 * N * q + v
  BY <1>1, MaskedIs
<1>5. n \in 0 .. 2 * N - 1 /\ v \in 0 .. 2 * N - 1
  BY <1>1, <1>2, MaskedIs
<1>6. PICK x \in Int : x = 2 * N * p
  BY <1>1
<1>7. PICK y \in Int : y = 2 * N * q
  BY <1>1
<1>8. 2 * N * (p + q) = x + y /\ p + q \in Int
  BY <1>1, <1>6, <1>7
<1>9. w - v \in Int /\ w - v = 2 * N * (p + q) + (n - 1) /\ n - 1 \in 0 .. 2 * N - 1
  BY <1>1, <1>2, <1>3, <1>4, <1>5, <1>6, <1>7, <1>8
<1>10. UsedSize(v, w) = n - 1
  <2>1. Masked(w - v) = n - 1
    BY <1>8, <1>9, MaskedWhen
  <2> QED BY <2>1 DEF UsedSize
<1>11. ASSUME NEW k \in Nat PROVE (v + k) % N = (r + (k + 1)) % N
  <2>1. N * (2 * q) = y /\ 2 * q \in Int
    BY <1>1, <1>7
  <2>2. r + (k + 1) = (v + k) + N * (2 * q) /\ v + k \in Int
    BY <1>1, <1>4, <1>5, <1>7, <2>1
  <2>3. ((v + k) + N * (2 * q)) % N = (v + k) % N
    <3> PICK a \in Int : a = v + k
      BY <2>2
    <3> PICK b \in Int : b = 2 * q
      BY <2>1
    <3>1. (a + N * b) % N = a % N
      BY <1>1, ModShift
    <3> QED BY <3>1
  <2> QED BY <2>2, <2>3
<1> QED BY <1>5, <1>10, <1>11 DEF Nth, Index

(* From any index on there are AVG_BUFFER_SIZE slots: each is one, ...     *)
LEMMA NthInSlot ==
    ASSUME NEW r \in Int, NEW k \in Int
    PROVE  Nth(r, k) \in Slot
<1>1. r + k \in Int /\ AVG_BUFFER_SIZE \in Nat /\ AVG_BUFFER_SIZE > 0
  BY SizeAssumption
<1> QED BY <1>1, DivMod DEF Nth, Slot

(* ... they differ, ...                                                    *)
LEMMA NthDiffers ==
    ASSUME NEW r \in Int, NEW j \in 0 .. AVG_BUFFER_SIZE - 1,
           NEW k \in 0 .. AVG_BUFFER_SIZE - 1, Nth(r, j) = Nth(r, k)
    PROVE  j = k
<1> PICK N : N = AVG_BUFFER_SIZE
  OBVIOUS
<1> PICK e : e = Nth(r, j)
  OBVIOUS
<1>1. N \in Nat /\ N > 0 /\ r + j \in Int /\ r + k \in Int
  BY SizeAssumption
<1>2. e = (r + j) % N /\ e = (r + k) % N
  BY DEF Nth
<1>3. e \in 0 .. N - 1 /\ (r + j) \div N \in Int /\ r + j = N * ((r + j) \div N) + e
  BY <1>1, <1>2, DivMod
<1>4. (r + k) \div N \in Int /\ r + k = N * ((r + k) \div N) + e
  BY <1>1, <1>2, DivMod
<1> PICK p \in Int : p = (r + j) \div N
  BY <1>3
<1> PICK q \in Int : q = (r + k) \div N
  BY <1>4
<1> PICK x \in Int : x = N * p
  BY <1>1
<1> PICK y \in Int : y = N * q
  BY <1>1
<1>5. r + j = x + e /\ r + k = y + e
  BY <1>3, <1>4
<1>6. CASE j <= k
  <2>1. PICK d : d = k - j
    OBVIOUS
  <2>2. d \in 0 .. N - 1 /\ 0 \in 0 .. N - 1 /\ y = x + d
    BY <1>1, <1>3, <1>5, <1>6, <2>1
  <2>3. y + 0 = x + d
    BY <2>2
  <2>4. N * q + 0 = N * p + d
    BY <2>3
  <2>5. q = p /\ 0 = d
    BY <1>1, <2>2, <2>4, RemainderUnique
  <2> QED BY <2>1, <2>5
<1>7. CASE k <= j
  <2>1. PICK d : d = j - k
    OBVIOUS
  <2>2. d \in 0 .. N - 1 /\ 0 \in 0 .. N - 1 /\ x = y + d
    BY <1>1, <1>3, <1>5, <1>7, <2>1
  <2>3. x + 0 = y + d
    BY <2>2
  <2>4. N * p + 0 = N * q + d
    BY <2>3
  <2>5. p = q /\ 0 = d
    BY <1>1, <2>2, <2>4, RemainderUnique
  <2> QED BY <2>1, <2>5
<1> QED BY <1>6, <1>7

(* ... and there are no others.                                            *)
LEMMA NthAll ==
    ASSUME NEW r \in Int, NEW i \in Slot
    PROVE  \E k \in 0 .. AVG_BUFFER_SIZE - 1 : i = Nth(r, k)
<1> PICK N : N = AVG_BUFFER_SIZE
  OBVIOUS
<1>1. N \in Nat /\ N > 0 /\ i - r \in Int /\ i \in 0 .. N - 1
  BY SizeAssumption DEF Slot
<1> PICK k : k = (i - r) % N
  OBVIOUS
<1>2. /\ k \in 0 .. N - 1 /\ (i - r) \div N \in Int
      /\ i - r = N * ((i - r) \div N) + k
  BY <1>1, DivMod
<1> PICK q \in Int : q = (i - r) \div N
  BY <1>2
<1> PICK x \in Int : x = N * q
  BY <1>1
<1> PICK z \in Int : z = 0 - q
  OBVIOUS
<1>4. N * z = 0 - x
  BY <1>1
<1>5. r + k = N * z + i /\ r + k \in Int
  <2>1. i - r = x + k
    BY <1>2
  <2> QED BY <1>1, <1>2, <1>4, <2>1
<1>6. (r + k) % N = i
  <2> PICK a \in Int : a = r + k
    BY <1>5
  <2>1. a = N * z + i
    BY <1>5
  <2>2. N \in Nat /\ N > 0 /\ i \in 0 .. N - 1
    BY <1>1
  <2>3. a % N \in 0 .. N - 1 /\ a \div N \in Int /\ a = N * (a \div N) + (a % N)
    BY <2>2, DivMod
  <2>4. N * z + i = N * (a \div N) + (a % N)
    BY <2>1, <2>3
  <2>5. z = a \div N /\ i = a % N
    BY <2>2, <2>3, <2>4, RemainderUnique
  <2> QED BY <2>5
<1> QED BY <1>2, <1>6 DEF Nth

(* What the fifo holds, from read_index on: the samples taken.             *)
FifoHolds(b, r, w, s) ==
    /\ b \in [Slot -> Nat] /\ r \in Index /\ w \in Index
    /\ s \in Seq(Nat) /\ Len(s) <= AVG_BUFFER_SIZE
    /\ UsedSize(r, w) = Len(s)
    /\ \A k \in 0 .. Len(s) - 1 : b[Nth(r, k)] = s[k + 1]

(* A pull takes the oldest sample.                                         *)
LEMMA PullHolds ==
    ASSUME NEW b, NEW r, NEW w, NEW s, FifoHolds(b, r, w, s), Len(s) > 0
    PROVE  FifoHolds(b, Masked(r + 1), w, Tail(s))
<1>1. /\ Len(s) \in Nat /\ Tail(s) \in Seq(Nat) /\ Len(Tail(s)) = Len(s) - 1
      /\ \A k \in 1 .. Len(s) - 1 : Tail(s)[k] = s[k + 1]
  BY DEF FifoHolds
<1>2. /\ Masked(r + 1) \in Index
      /\ UsedSize(Masked(r + 1), w) = Len(s) - 1
      /\ \A k \in Nat : Nth(Masked(r + 1), k) = Nth(r, k + 1)
  <2>1. UsedSize(r, w) > 0 /\ r \in Index /\ w \in Index /\ UsedSize(r, w) = Len(s)
    BY DEF FifoHolds
  <2> QED BY <2>1, PullCounts
<1>3. ASSUME NEW k \in 0 .. Len(Tail(s)) - 1
      PROVE  b[Nth(Masked(r + 1), k)] = Tail(s)[k + 1]
  <2>1. k \in Nat /\ k + 1 \in 0 .. Len(s) - 1 /\ k + 1 \in 1 .. Len(s) - 1
    BY <1>1
  <2>2. b[Nth(r, k + 1)] = s[(k + 1) + 1]
    BY <2>1 DEF FifoHolds
  <2>3. Tail(s)[k + 1] = s[(k + 1) + 1]
    BY <1>1, <2>1
  <2> QED BY <1>2, <2>1, <2>2, <2>3
<1>4. b \in [Slot -> Nat] /\ w \in Index /\ Len(s) <= AVG_BUFFER_SIZE
  BY DEF FifoHolds
<1>5. Len(Tail(s)) <= AVG_BUFFER_SIZE
  BY <1>1, <1>4, SizeAssumption
<1> QED BY <1>1, <1>2, <1>3, <1>4, <1>5 DEF FifoHolds

(* A push into a fifo that is not full adds a sample.                      *)
LEMMA PushHolds ==
    ASSUME NEW b, NEW r, NEW w, NEW s, FifoHolds(b, r, w, s),
           Len(s) < AVG_BUFFER_SIZE, NEW x \in Nat
    PROVE  /\ FifoHolds([b EXCEPT ![w % AVG_BUFFER_SIZE] = x],
                        r, Masked(w + 1), Append(s, x))
           /\ w % AVG_BUFFER_SIZE = Nth(r, Len(s))
<1> DEFINE c == [b EXCEPT ![w % AVG_BUFFER_SIZE] = x]
           t == Append(s, x)
<1>1. /\ b \in [Slot -> Nat] /\ r \in Index /\ w \in Index /\ Len(s) \in Nat
      /\ UsedSize(r, w) = Len(s) /\ r \in Int
  BY DEF FifoHolds, Index
<1>2. /\ t \in Seq(Nat) /\ Len(t) = Len(s) + 1 /\ t[Len(s) + 1] = x
      /\ \A k \in 1 .. Len(s) : t[k] = s[k]
  <2>1. s \in Seq(Nat)
    BY DEF FifoHolds
  <2> QED BY <2>1
<1>3. /\ Masked(w + 1) \in Index
      /\ UsedSize(r, Masked(w + 1)) = Len(s) + 1
      /\ w % AVG_BUFFER_SIZE = Nth(r, Len(s))
  BY <1>1, PushCounts
<1>4. Nth(r, Len(s)) \in Slot
  BY <1>1, NthInSlot
<1>5. /\ c \in [Slot -> Nat] /\ c[Nth(r, Len(s))] = x
      /\ \A i \in Slot : i # Nth(r, Len(s)) => c[i] = b[i]
  BY <1>1, <1>3, <1>4
<1> HIDE DEF c, t
<1>6. ASSUME NEW k \in 0 .. Len(t) - 1 PROVE c[Nth(r, k)] = t[k + 1]
  <2>1. CASE k = Len(s)
    BY <1>2, <1>5, <2>1
  <2>2. CASE k # Len(s)
    <3>1. /\ k \in 0 .. Len(s) - 1 /\ k + 1 \in 1 .. Len(s) /\ k \in Int
          /\ k \in 0 .. AVG_BUFFER_SIZE - 1 /\ Len(s) \in 0 .. AVG_BUFFER_SIZE - 1
      BY <1>1, <1>2, <2>2, SizeAssumption
    <3>2. b[Nth(r, k)] = s[k + 1]
      BY <3>1 DEF FifoHolds
    <3>3. Nth(r, k) # Nth(r, Len(s)) /\ Nth(r, k) \in Slot
      BY <1>1, <2>2, <3>1, NthDiffers, NthInSlot
    <3> QED BY <1>2, <1>5, <3>1, <3>2, <3>3
  <2> QED BY <2>1, <2>2
<1>7. Len(t) <= AVG_BUFFER_SIZE
  BY <1>1, <1>2, SizeAssumption
<1>8. FifoHolds(c, r, Masked(w + 1), t)
  BY <1>1, <1>2, <1>3, <1>5, <1>6, <1>7 DEF FifoHolds
<1> QED BY <1>3, <1>8 DEF c, t

(* The slots in use.                                                       *)
Filled(r, n) == {Nth(r, k) : k \in 0 .. n - 1}

(* The sum over the slots in use is that of the samples taken.             *)
LEMMA FilledSum ==
    ASSUME NEW b, NEW r, NEW w, NEW s, FifoHolds(b, r, w, s)
    PROVE  SumFunctionOnSet(b, Filled(r, Len(s))) = Sum(s)
<1> DEFINE Same(n) == SumFunctionOnSet(b, Filled(r, n)) = SumFunctionOnSet(s, 1 .. n)
           B == {n \in 0 .. Len(s) : ~ Same(n)}
<1>1. /\ b \in [Slot -> Nat] /\ r \in Int /\ s \in Seq(Nat) /\ Len(s) \in Nat
      /\ Len(s) <= AVG_BUFFER_SIZE
      /\ \A k \in 0 .. Len(s) - 1 : b[Nth(r, k)] = s[k + 1]
  BY DEF FifoHolds, Index
<1>2. B = {}
  <2> SUFFICES ASSUME B # {} PROVE FALSE
    OBVIOUS
  <2>1. PICK n \in B : \A k \in B : n <= k
    <3>1. B \in SUBSET Nat
      OBVIOUS
    <3> HIDE DEF B
    <3> QED BY <3>1, SmallestNumber
  <2>2. n # 0
    <3>1. 1 .. 0 = {} /\ Filled(r, 0) = {}
      BY DEF Filled
    <3> QED BY <2>1, <3>1, SumEmpty
  <2> DEFINE k == n - 1
  <2>3. k \in 0 .. Len(s) - 1 /\ k \in 0 .. Len(s) /\ k \notin B /\ n = k + 1
    BY <1>1, <2>1, <2>2
  <2>4. Same(k)
    BY <2>3
  <2> HIDE DEF k
  <2>5. 1 .. n = (1 .. k) \cup {n} /\ n \notin 1 .. k
    BY <1>1, <2>3
  <2>6. IsFiniteSet(1 .. k) /\ \A i \in (1 .. k) \cup {n} : s[i] \in Int
    <3>1. IsFiniteSet(1 .. k)
      BY <2>3, FS_Interval
    <3>2. ASSUME NEW i \in (1 .. k) \cup {n} PROVE s[i] \in Int
      <4>1. i \in 1 .. Len(s)
        BY <1>1, <2>3
      <4> QED BY <1>1, <4>1
    <3> QED BY <3>1, <3>2
  <2>7. /\ Filled(r, n) = Filled(r, k) \cup {Nth(r, k)}
        /\ Nth(r, k) \notin Filled(r, k)
    <3>1. 0 .. n - 1 = (0 .. k - 1) \cup {k}
      BY <1>1, <2>3
    <3>2. ASSUME NEW j \in 0 .. k - 1 PROVE Nth(r, j) # Nth(r, k)
      <4>1. j \in 0 .. AVG_BUFFER_SIZE - 1 /\ k \in 0 .. AVG_BUFFER_SIZE - 1 /\ j # k
        BY <1>1, <2>3, SizeAssumption
      <4> QED BY <1>1, <4>1, NthDiffers
    <3> QED BY <3>1, <3>2 DEF Filled
  <2>8. /\ IsFiniteSet(Filled(r, k))
        /\ \A i \in Filled(r, k) \cup {Nth(r, k)} : b[i] \in Int
    <3>1. Filled(r, k) \cup {Nth(r, k)} \subseteq Slot
      <4>1. \A j \in 0 .. k - 1 : Nth(r, j) \in Slot
        BY <1>1, NthInSlot
      <4>2. Nth(r, k) \in Slot
        BY <1>1, <2>3, NthInSlot
      <4> QED BY <4>1, <4>2 DEF Filled
    <3>2. IsFiniteSet(Slot)
      BY SizeAssumption, FS_Interval DEF Slot
    <3>3. IsFiniteSet(Filled(r, k))
      BY <3>1, <3>2, FS_Subset
    <3> QED BY <1>1, <3>1, <3>3
  <2>9. SumFunctionOnSet(s, (1 .. k) \cup {n}) = s[n] + SumFunctionOnSet(s, 1 .. k)
    BY <2>5, <2>6, SumAdds
  <2>10. SumFunctionOnSet(b, Filled(r, k) \cup {Nth(r, k)})
             = b[Nth(r, k)] + SumFunctionOnSet(b, Filled(r, k))
    BY <2>7, <2>8, SumAdds
  <2>11. b[Nth(r, k)] = s[n]
    BY <1>1, <2>3
  <2> QED BY <2>1, <2>4, <2>5, <2>7, <2>9, <2>10, <2>11
<1>3. Same(Len(s)) /\ DOMAIN s = 1 .. Len(s)
  BY <1>1, <1>2
<1> QED BY <1>3 DEF Sum

-------------------------------------------------------------------------------
(* The buffer never holds anything but the samples taken, from read_index  *)
(* on, and the zeros it began with or what a flush left behind.            *)
DustInv ==
    /\ FifoHolds(buffer, read_index, write_index, taken)
    /\ \/ flushed
       \/ \A i \in Slot \ Filled(read_index, Len(taken)) : buffer[i] = 0
    /\ taken # <<>> => tmp_value = Average(buffer, Len(taken))

(* The buffer is empty at first, and its slots are zero.                   *)
LEMMA InitDustInv == InitDust => DustInv
<1> SUFFICES ASSUME InitDust PROVE DustInv
  OBVIOUS
<1>1. Masked(0) = 0
  <2>1. 0 = 2 * AVG_BUFFER_SIZE * 0 + 0 /\ 0 \in 0 .. 2 * AVG_BUFFER_SIZE - 1
    BY SizeAssumption
  <2> QED BY <2>1, MaskedWhen
<1>2. UsedSize(0, 0) = 0
  BY <1>1 DEF UsedSize
<1>3. 0 \in Index
  BY SizeAssumption DEF Index
<1> QED BY <1>2, <1>3, SizeAssumption DEF InitDust, DustInv, FifoHolds

(* A measurement pulls from a full fifo, pushes, and averages.             *)
LEMMA CalculateHolds ==
    ASSUME DustInv, NEW s \in Samples, Calculate(s)
    PROVE  DustInv'
<1> DEFINE kept == IF Len(taken) = AVG_BUFFER_SIZE THEN Tail(taken) ELSE taken
<1>1. /\ FifoHolds(buffer, read_index, write_index, taken) /\ s \in Nat
      /\ Len(taken) \in Nat /\ Len(taken) <= AVG_BUFFER_SIZE /\ taken \in Seq(Nat)
      /\ UsedSize(read_index, write_index) = Len(taken)
  BY SamplesAssumption DEF DustInv, FifoHolds
<1>2. read_index' = Pulled /\ taken' = Append(kept, s)
  BY DEF Calculate
<1>3. FifoHolds(buffer, read_index', write_index, kept) /\ Len(kept) < AVG_BUFFER_SIZE
  <2>1. CASE Len(taken) = AVG_BUFFER_SIZE
    <3>1. FifoHolds(buffer, Masked(read_index + 1), write_index, Tail(taken))
      BY <1>1, <2>1, PullHolds, SizeAssumption
    <3>2. Len(Tail(taken)) < AVG_BUFFER_SIZE
      BY <1>1, <2>1, SizeAssumption
    <3> QED BY <1>1, <1>2, <2>1, <3>1, <3>2 DEF Pulled
  <2>2. CASE Len(taken) # AVG_BUFFER_SIZE
    BY <1>1, <1>2, <2>2, SizeAssumption DEF Pulled
  <2> QED BY <2>1, <2>2
<1>4. UsedSize(read_index', write_index) # AVG_BUFFER_SIZE
  <2>1. UsedSize(read_index', write_index) = Len(kept) /\ Len(kept) \in Nat
    BY <1>3 DEF FifoHolds
  <2> QED BY <1>3, <2>1, SizeAssumption
<1>5. /\ buffer' = [buffer EXCEPT ![write_index % AVG_BUFFER_SIZE] = s]
      /\ write_index' = Masked(write_index + 1)
  BY <1>4 DEF Calculate, Push
<1> HIDE DEF kept
<1>6. /\ FifoHolds(buffer', read_index', write_index', taken')
      /\ write_index % AVG_BUFFER_SIZE = Nth(read_index', Len(kept))
  <2>1. /\ FifoHolds([buffer EXCEPT ![write_index % AVG_BUFFER_SIZE] = s],
                     read_index', Masked(write_index + 1), Append(kept, s))
        /\ write_index % AVG_BUFFER_SIZE = Nth(read_index', Len(kept))
    BY <1>1, <1>3, PushHolds
  <2> QED BY <1>2, <1>5, <2>1
<1>7. ASSUME ~flushed
      PROVE  \A i \in Slot \ Filled(read_index', Len(taken')) : buffer'[i] = 0
  <2> SUFFICES ASSUME NEW i \in Slot, i \notin Filled(read_index', Len(taken'))
               PROVE  buffer'[i] = 0
    OBVIOUS
  <2>0. Len(taken') = Len(kept) + 1 /\ Len(kept) \in Nat
    <3>1. kept \in Seq(Nat)
      BY <1>3 DEF FifoHolds
    <3> QED BY <1>1, <1>2, <3>1
  <2>1. CASE Len(taken) = AVG_BUFFER_SIZE
    <3>1. Len(taken') = AVG_BUFFER_SIZE
      <4>1. kept = Tail(taken) /\ Len(Tail(taken)) = Len(taken) - 1
        BY <1>1, <2>1, SizeAssumption DEF kept
      <4> QED BY <2>0, <2>1, <4>1, SizeAssumption
    <3>2. read_index' \in Int
      BY <1>6 DEF FifoHolds, Index
    <3>3. \E k \in 0 .. AVG_BUFFER_SIZE - 1 : i = Nth(read_index', k)
      BY <3>2, NthAll
    <3> QED BY <3>1, <3>3 DEF Filled
  <2>2. CASE Len(taken) # AVG_BUFFER_SIZE
    <3>1. kept = taken /\ read_index' = read_index
      BY <1>1, <1>2, <2>2 DEF kept, Pulled
    <3>2. Len(taken) \in 0 .. Len(taken') - 1
      BY <1>1, <2>0, <3>1
    <3>3. i # Nth(read_index, Len(taken))
      BY <3>1, <3>2 DEF Filled
    <3>4. 0 .. Len(taken) - 1 \subseteq 0 .. Len(taken') - 1
      BY <1>1, <2>0, <3>1
    <3>5. i \notin Filled(read_index, Len(taken))
      BY <3>1, <3>4 DEF Filled
    <3>6. buffer[i] = 0
      BY <1>7, <3>5 DEF DustInv
    <3>7. buffer \in [Slot -> Nat]
      BY <1>1 DEF FifoHolds
    <3> QED BY <1>5, <1>6, <3>1, <3>3, <3>6, <3>7
  <2> QED BY <2>1, <2>2
<1>8. tmp_value' = Average(buffer', Len(taken')) /\ flushed' = flushed
  BY <1>6 DEF Calculate, FifoHolds
<1> QED BY <1>6, <1>7, <1>8 DEF DustInv

(* So does every call of algorithm_calculate, one with preclear included.  *)
LEMMA NextDustInv == DustInv /\ [NextDust]_dustVars => DustInv'
<1> SUFFICES ASSUME DustInv, [NextDust]_dustVars PROVE DustInv'
  OBVIOUS
<1>1. CASE Measure
  BY <1>1, CalculateHolds DEF Measure
<1>2. CASE Preclear
  <2>1. Masked(0) = 0
    <3>1. 0 = 2 * AVG_BUFFER_SIZE * 0 + 0 /\ 0 \in 0 .. 2 * AVG_BUFFER_SIZE - 1
      BY SizeAssumption
    <3> QED BY <3>1, MaskedWhen
  <2>2. UsedSize(0, 0) = 0
    BY <2>1 DEF UsedSize
  <2>3. 0 \in Index
    BY SizeAssumption DEF Index
  <2> QED BY <1>2, <2>2, <2>3, SizeAssumption DEF Preclear, DustInv, FifoHolds
<1>3. CASE UNCHANGED dustVars
  BY <1>3 DEF dustVars, DustInv, FifoHolds
<1> QED BY <1>1, <1>2, <1>3 DEF NextDust

(* The sum over the whole buffer is that of the slots in use and of what   *)
(* a flush left in the others.                                             *)
LEMMA InvAverage == DustInv => AverageOfTaken
<1> SUFFICES ASSUME DustInv, taken # <<>>
             PROVE  /\ tmp_value >= Weighted(Sum(taken), Len(taken))
                    /\ ~flushed \/ Len(taken) = AVG_BUFFER_SIZE
                           => tmp_value = Weighted(Sum(taken), Len(taken))
  BY DEF AverageOfTaken
<1> DEFINE filled == Filled(read_index, Len(taken))
<1>1. /\ FifoHolds(buffer, read_index, write_index, taken)
      /\ buffer \in [Slot -> Nat] /\ read_index \in Int
      /\ Len(taken) \in Nat /\ Len(taken) > 0
      /\ tmp_value = Average(buffer, Len(taken))
  BY DEF DustInv, FifoHolds, Index
<1>2. SumFunctionOnSet(buffer, filled) = Sum(taken)
  BY <1>1, FilledSum
<1>3. filled \subseteq Slot /\ IsFiniteSet(Slot) /\ IsFiniteSet(filled)
  <2>1. \A k \in 0 .. Len(taken) - 1 : Nth(read_index, k) \in Slot
    BY <1>1, NthInSlot
  <2>2. IsFiniteSet(Slot)
    BY SizeAssumption, FS_Interval DEF Slot
  <2>3. filled \subseteq Slot
    BY <2>1 DEF Filled
  <2> QED BY <2>2, <2>3, FS_Subset
<1> PICK part : part = SumFunctionOnSet(buffer, filled)
  OBVIOUS
<1> PICK whole : whole = SumFunctionOnSet(buffer, Slot)
  OBVIOUS
<1> HIDE DEF filled
<1>4. part \in Nat /\ whole \in Nat
  BY <1>1, <1>3, SumIn
<1>5. part <= whole /\ ((\A i \in Slot \ filled : buffer[i] = 0) => part = whole)
  BY <1>1, <1>3, SumGrows
<1>6. ASSUME ~flushed \/ Len(taken) = AVG_BUFFER_SIZE PROVE part = whole
  <2>1. CASE ~flushed
    BY <1>5, <2>1 DEF DustInv, filled
  <2>2. CASE Len(taken) = AVG_BUFFER_SIZE
    <3>1. \A i \in Slot : i \in filled
      BY <1>1, <2>2, NthAll DEF Filled, filled
    <3> QED BY <1>5, <3>1
  <2> QED BY <1>6, <2>1, <2>2
<1>7. /\ 6 * part <= 6 * whole /\ 5 * Len(taken) \in Nat /\ 5 * Len(taken) > 0
      /\ 6 * part \in Int /\ 6 * whole \in Int
  BY <1>1, <1>4, <1>5
<1>8. (6 * part) \div (5 * Len(taken)) <= (6 * whole) \div (5 * Len(taken))
  BY <1>7, DivMonotone
<1>9. /\ (6 * part) \div (5 * Len(taken)) \in Int
      /\ (6 * whole) \div (5 * Len(taken)) \in Int
  BY <1>7, DivMod
<1>10. /\ tmp_value = (6 * whole) \div (5 * Len(taken))
       /\ Weighted(Sum(taken), Len(taken)) = (6 * part) \div (5 * Len(taken))
  BY <1>1, <1>2 DEF Average, Weighted
<1>11. tmp_value >= Weighted(Sum(taken), Len(taken))
  BY <1>8, <1>9, <1>10
<1> QED BY <1>6, <1>10, <1>11

(* algorithm_calculate: the average is that of the samples taken, or       *)
(* higher while flushed ones remain in the buffer, however many            *)
(* measurements there were and for every size of the buffer.               *)
THEOREM AveragesTaken == SpecDust => []AverageOfTaken
<1>1. SpecDust => []DustInv
  BY InitDustInv, NextDustInv, PTL DEF SpecDust
<1> QED BY <1>1, InvAverage, PTL

(* Adding the light to the dust changes nothing of the averaging: what is  *)
(* proved of Dust holds of Reading.                                        *)
THEOREM ReadingMeasures == FairReading => SpecDust
<1>1. InitReading => InitDust
  BY DEF InitReading
<1>2. [NextReading]_readingVars => [NextDust]_dustVars
  BY DEF NextReading, CalculateLit, PreclearLit, NextDust, Measure, readingVars
<1> QED BY <1>1, <1>2, PTL DEF FairReading, SpecDust

-------------------------------------------------------------------------------
(* The smoothing.                                                          *)

(* A quotient stays between whole numbers, ...                             *)
LEMMA QuotientBetween ==
    ASSUME NEW m \in Nat, m > 0, NEW n \in Int, NEW k \in Int, NEW l \in Int,
           NEW r \in 0 .. m - 1, m * k <= n, n <= m * l + r
    PROVE  n \div m \in k .. l
<1>1. PICK q \in Int, s \in 0 .. m - 1 : q = n \div m /\ n = m * q + s
  BY DivMod
<1>2. k <= q
  BY <1>1, ProductOrder
<1>3. PICK x \in Int, y \in Int : x = m * q /\ y = m * l
  OBVIOUS
<1>4. m * q <= m * l + r
  <2>1. x + s <= y + r
    BY <1>1, <1>3
  <2> QED BY <1>3, <2>1
<1>5. q <= l
  BY <1>4, ProductOrder
<1> QED BY <1>1, <1>2, <1>5

(* ... whatever parts of one it is rounded to: there is at least one, ...  *)
LEMMA PartsIs == ASSUME NEW v \in Nat PROVE Parts(v) \in Nat /\ Parts(v) > 0
<1> PICK B : B = {e \in 1 .. BITS - 1 : Power[e] <= v}
  OBVIOUS
<1>1. BITS \in Nat /\ BITS > 0 /\ Power \in [0 .. BITS -> Nat \ {0}]
  BY FloatAssumption
<1>2. IsFiniteSet(1 .. BITS - 1) /\ Cardinality(1 .. BITS - 1) = BITS - 1
  <2> PICK k \in Nat : k = BITS - 1
    BY <1>1
  <2>1. PICK a \in Int : a = 1
    OBVIOUS
  <2>2. IsFiniteSet(a .. k) /\ Cardinality(a .. k) = IF a > k THEN 0 ELSE k - a + 1
    BY k \in Int, FS_Interval, Zenon
  <2>3. (IF a > k THEN 0 ELSE k - a + 1) = k
    BY <2>1
  <2> QED BY <2>1, <2>2, <2>3
<1>3. B \in SUBSET (1 .. BITS - 1)
  OBVIOUS
<1>4. Cardinality(B) \in Nat /\ Cardinality(B) <= BITS - 1
  <2>1. IsFiniteSet(B) /\ Cardinality(B) <= Cardinality(1 .. BITS - 1)
    BY <1>2, <1>3, FS_Subset
  <2>2. Cardinality(B) \in Nat
    BY <2>1, FS_CardinalityType
  <2> QED BY <1>2, <2>1, <2>2
<1>5. Exponent(v) = Cardinality(B)
  BY DEF Exponent
<1>6. BITS - 1 - Exponent(v) \in 0 .. BITS
  BY <1>1, <1>4, <1>5
<1> QED BY <1>1, <1>6 DEF Parts

(* ... and the nearest number of them is not beyond a whole number.        *)
LEMMA WholeBetween ==
    ASSUME NEW n \in Nat, NEW k \in Int, NEW l \in Int,
           SLOWNESS * k <= n, n <= SLOWNESS * l
    PROVE  Whole(n) \in k .. l
<1> PICK m : m = SLOWNESS
  OBVIOUS
<1>1. m \in Nat /\ m > 0 /\ m * k <= n /\ n <= m * l
  BY SmoothingAssumption
<1>2. PICK p \in Nat : p > 0 /\ p = Parts(n \div m)
  BY <1>1, QuotientNatural, PartsIs
<1>3. PICK a \in Nat : a = n * p
  BY <1>2
<1>4. PICK kp \in Int, lp \in Int : kp = p * k /\ lp = p * l
  BY <1>2
<1>5. m * kp <= a /\ a <= m * lp
  <2>1. PICK mk \in Int, ml \in Int : mk = m * k /\ ml = m * l
    BY <1>1
  <2>2. p * mk <= p * n /\ p * n <= p * ml
    BY <1>1, <1>2, <2>1, ProductGrows
  <2>3. p * mk = m * kp /\ p * ml = m * lp /\ p * n = a
    BY <1>1, <1>2, <1>3, <1>4, <2>1
  <2> QED BY <2>2, <2>3
<1>6. PICK t \in Nat : t = 2 * m /\ t > 0 /\ m \in 0 .. t - 1
  <2>1. 2 * m \in Nat /\ 2 * m > 0 /\ m \in 0 .. 2 * m - 1
    BY <1>1
  <2> QED BY <2>1
<1>7. t * kp <= 2 * a + m /\ 2 * a + m <= t * lp + m
  <2>1. PICK x \in Int, y \in Int : x = m * kp /\ y = m * lp
    BY <1>1
  <2>2. t * kp = 2 * x /\ t * lp = 2 * y
    BY <1>1, <1>6, <2>1
  <2> QED BY <1>1, <1>5, <2>1, <2>2
<1>8. (2 * a + m) \div t \in kp .. lp
  <2>1. 2 * a + m \in Int
    BY <1>1
  <2> QED BY <1>6, <1>7, <2>1, QuotientBetween
<1>9. PICK q \in Int : q = (2 * a + m) \div t /\ q \in kp .. lp
  BY <1>8
<1>10. q \div p \in k .. l
  <2>1. p * k <= q /\ q <= p * l + 0 /\ 0 \in 0 .. p - 1
    <3>1. kp <= q /\ q <= lp
      BY <1>9
    <3> QED BY <1>2, <1>4, <3>1
  <2> QED BY <1>2, <2>1, QuotientBetween
<1> QED BY <1>2, <1>3, <1>6, <1>9, <1>10 DEF Whole, Nearest

(* Cutting off towards zero does not change that, ...                      *)
LEMMA CutBetween ==
    ASSUME NEW n \in Int, NEW k \in Int, NEW l \in Int,
           SLOWNESS * k <= n, n <= SLOWNESS * l
    PROVE  ToZero(n) \in k .. l
<1>1. CASE n >= 0
  <2>1. n \in Nat
    BY <1>1
  <2> QED BY <1>1, <2>1, WholeBetween DEF ToZero
<1>2. CASE ~(n >= 0)
  <2>1. PICK a \in Nat, k1 \in Int, l1 \in Int : a = -n /\ k1 = -k /\ l1 = -l
    BY <1>2
  <2>2. PICK x \in Int, y \in Int : x = SLOWNESS * k /\ y = SLOWNESS * l
    BY SmoothingAssumption
  <2>3. SLOWNESS * k1 = -x /\ SLOWNESS * l1 = -y
    BY <2>1, <2>2, SmoothingAssumption
  <2>4. SLOWNESS * l1 <= a /\ a <= SLOWNESS * k1
    BY <2>1, <2>2, <2>3
  <2>5. Whole(a) \in l1 .. k1
    BY <2>4, WholeBetween
  <2>6. PICK b \in Int : b = Whole(a) /\ b \in l1 .. k1
    BY <2>5
  <2>7. ToZero(n) = -b
    BY <1>2, <2>1, <2>6 DEF ToZero
  <2> QED BY <2>1, <2>6, <2>7
<1> QED BY <1>1, <1>2

(* ... so that what is made of an integer is one; ...                      *)
LEMMA CutIsInt == ASSUME NEW n \in Int PROVE ToZero(n) \in Int
<1>1. PICK m \in Nat : m = SLOWNESS /\ m > 0
  BY SmoothingAssumption
<1>2. PICK q \in Int, r \in 0 .. m - 1 : n = m * q + r
  BY <1>1, DivMod
<1>3. PICK x \in Int : x = m * q
  BY <1>1
<1>4. m * q <= n /\ n <= m * (q + 1)
  <2>1. m * (q + 1) = x + m
    BY <1>1, <1>3
  <2> QED BY <1>1, <1>2, <1>3, <2>1
<1>5. q + 1 \in Int
  OBVIOUS
<1>6. ToZero(n) \in q .. q + 1
  BY <1>1, <1>4, <1>5, CutBetween
<1> QED BY <1>6

(* 16 bits make an integer of one too, ...                                 *)
LEMMA Int16IsInt == ASSUME NEW n \in Int PROVE Int16(n) \in Int
<1>1. n + HALF \in Int /\ 2 * HALF \in Nat /\ 2 * HALF > 0 /\ HALF \in Int
  BY SmoothingAssumption
<1>2. (n + HALF) % (2 * HALF) \in Int
  BY <1>1, DivMod
<1> QED BY <1>1, <1>2 DEF Int16

(* ... which leave alone what fits them.                                   *)
LEMMA Int16Is ==
    ASSUME NEW n \in 0 .. HALF - 1
    PROVE  Int16(n) = n
<1> PICK m : m = 2 * HALF
  OBVIOUS
<1>1. /\ m \in Nat /\ m > 0 /\ HALF \in Int /\ n + HALF \in 0 .. m - 1
      /\ n + HALF = m * 0 + (n + HALF) /\ n \in Int
  BY SmoothingAssumption
<1>2. (n + HALF) % m = n + HALF
  <2> PICK a \in Int : a = n + HALF
    BY <1>1
  <2>1. a = m * 0 + a /\ a \in 0 .. m - 1
    BY <1>1
  <2>2. a % m = a
    BY <1>1, <2>1, ModIs
  <2> QED BY <2>2
<1> QED BY <1>1, <1>2 DEF Int16

(* A factor that fits its 16 bits is positive, ...                         *)
LEMMA FactorIs ==
    ASSUME NEW last \in Int, 1 + MVALUE * Max2(0, last) < HALF
    PROVE  Factor(last) \in Nat \ {0}
<1> PICK x : x = MVALUE * Max2(0, last)
  OBVIOUS
<1>1. x \in Nat
  <2>1. Max2(0, last) \in Nat /\ MVALUE \in Nat
    BY SmoothingAssumption DEF Max2
  <2> QED BY <2>1
<1>2. Max2(0, last) * MVALUE = x
  <2>1. Max2(0, last) \in Nat /\ MVALUE \in Nat
    BY SmoothingAssumption DEF Max2
  <2> QED BY <2>1
<1>3. 1 + x \in 0 .. HALF - 1
  BY <1>1, SmoothingAssumption
<1>4. Int16(1 + x) = 1 + x
  BY <1>3, Int16Is
<1> QED BY <1>1, <1>2, <1>4 DEF Factor

(* ... a step an integer in any case, ...                                  *)
LEMMA StepIsInt ==
    ASSUME NEW d \in Int, NEW last \in Int
    PROVE  Step(d, last) \in Int
<1>1. Factor(last) \in Int
  <2>1. 1 + Max2(0, last) * MVALUE \in Int
    BY SmoothingAssumption DEF Max2
  <2> QED BY <2>1, Int16IsInt DEF Factor
<1>2. d * Factor(last) \in Int
  BY <1>1
<1>3. SLOWNESS * ((d + 1) \div 2) \in Int
  <2>1. (d + 1) \div 2 \in Int /\ SLOWNESS \in Int
    BY SmoothingAssumption
  <2> QED BY <2>1
<1> QED BY <1>2, <1>3 DEF Step, Min2

(* ... and with such a factor it is not backwards, and at most half the    *)
(* distance rounded up.                                                    *)
LEMMA StepLimited ==
    ASSUME NEW d \in Nat, NEW last \in Int, 1 + MVALUE * Max2(0, last) < HALF
    PROVE  Step(d, last) \in 0 .. SLOWNESS * ((d + 1) \div 2)
<1> PICK half \in Nat : half = (d + 1) \div 2
  OBVIOUS
<1> PICK far : far = SLOWNESS * half
  OBVIOUS
<1>1. far \in Nat
  BY SmoothingAssumption
<1> PICK f \in Nat : f = Factor(last)
  BY FactorIs
<1> PICK quick : quick = d * f
  OBVIOUS
<1>2. quick \in Nat
  OBVIOUS
<1>3. Step(d, last) = Min2(far, quick)
  BY DEF Step
<1> QED BY <1>1, <1>2, <1>3 DEF Min2

(* What is left of y when some of it is taken away.                        *)
LEMMA LessBetween ==
    ASSUME NEW x \in Int, NEW y \in Int, NEW z \in Int, NEW n \in Int,
           NEW less \in 0 .. y, x = z + y, n = x - less
    PROVE  z <= n /\ n <= x
OBVIOUS

(* A step up goes to the average at the most, and not all the way from     *)
(* two or more away ...                                                    *)
LEMMA RiseTowards ==
    ASSUME NEW old \in Int, NEW average \in Int, old < average,
           NEW last \in Int, 1 + MVALUE * Max2(0, last) < HALF
    PROVE  /\ Rise(old, Step(average - old, last)) \in old .. average
           /\ old \notin average - 1 .. average + 1
                  => Rise(old, Step(average - old, last)) # average
<1> PICK S : S = SLOWNESS
  OBVIOUS
<1> PICK d \in Nat : d = average - old
  OBVIOUS
<1> PICK half \in Nat : half = (d + 1) \div 2
  OBVIOUS
<1> PICK step : step = Step(d, last)
  OBVIOUS
<1>1. S \in Nat /\ S > 0 /\ half <= d /\ (d > 1 => half <= d - 1)
  BY SmoothingAssumption
<1>2. step \in 0 .. S * half
  BY StepLimited
<1> PICK high \in Int : high = old + half
  OBVIOUS
<1>3. S * high = S * old + S * half
  BY <1>1
<1> PICK n \in Int : n = S * old + step
  BY <1>1, <1>2
<1>4. S * old <= n /\ n <= S * high
  <2> PICK x \in Int : x = S * old
    BY <1>1
  <2> PICK y \in Int : y = S * half
    BY <1>1
  <2>1. x <= n /\ n <= x + y
    BY <1>2
  <2>2. S * high = x + y
    BY <1>3
  <2> QED BY <2>1, <2>2
<1>5. ToZero(n) \in old .. high
  BY <1>4, CutBetween
<1>6. Rise(old, Step(average - old, last)) = ToZero(n)
  BY DEF Rise
<1> QED BY <1>1, <1>5, <1>6

(* ... and so does one down.                                               *)
LEMMA FallTowards ==
    ASSUME NEW old \in Int, NEW average \in Int, average <= old,
           NEW last \in Int, 1 + MVALUE * Max2(0, last) < HALF
    PROVE  /\ Fall(old, Step(old - average, last)) \in average .. old
           /\ old \notin average - 1 .. average + 1
                  => Fall(old, Step(old - average, last)) # average
<1> PICK S : S = SLOWNESS
  OBVIOUS
<1> PICK d \in Nat : d = old - average
  OBVIOUS
<1> PICK half \in Nat : half = (d + 1) \div 2
  OBVIOUS
<1> PICK step : step = Step(d, last)
  OBVIOUS
<1>1. S \in Nat /\ S > 0 /\ half <= d /\ (d > 1 => half <= d - 1)
  BY SmoothingAssumption
<1>2. step \in 0 .. S * half
  BY StepLimited
<1> PICK low \in Int : old = low + half
  <2>1. old = (old - half) + half /\ old - half \in Int
    OBVIOUS
  <2> QED BY <2>1
<1>3. S * old = S * low + S * half
  BY <1>1
<1>7. PICK n \in Int : n = S * old - step
  BY <1>1, <1>2
<1>4. S * low <= n /\ n <= S * old
  <2>1. PICK x \in Int : x = S * old
    BY <1>1
  <2>2. PICK y \in Int : y = S * half
    BY <1>1
  <2>3. PICK z \in Int : z = S * low
    BY <1>1
  <2>4. x = z + y
    BY <1>3, <2>1, <2>2, <2>3
  <2>5. n = x - step /\ step \in 0 .. y
    BY <1>2, <1>7, <2>1, <2>2
  <2>6. z <= n /\ n <= x
    BY <2>4, <2>5, LessBetween
  <2> QED BY <2>1, <2>3, <2>6
<1>5. ToZero(n) \in low .. old
  BY <1>4, CutBetween
<1>6. Fall(old, Step(old - average, last)) = ToZero(n)
  BY <1>7 DEF Fall
<1> QED BY <1>1, <1>5, <1>6

-------------------------------------------------------------------------------
(* The smoothed value and the counts of its steps are numbers.             *)
SmoothType ==
    /\ dust_value \in Int
    /\ bigger_last \in Int /\ smaller_last \in Int

(* A count stays one when it wraps.                                        *)
LEMMA CountedIsInt == ASSUME NEW c \in Int PROVE Counted(c) \in Int
<1>1. c + 1 \in Int
  OBVIOUS
<1> QED BY <1>1, Int16IsInt DEF Counted

(* The average is one, once something was measured, ...                    *)
LEMMA AverageIsInt ==
    ASSUME DustInv, taken # <<>>
    PROVE  tmp_value \in Int
<1>1. /\ buffer \in [Slot -> Nat] /\ Len(taken) \in Nat /\ Len(taken) > 0
      /\ tmp_value = Average(buffer, Len(taken))
  BY DEF DustInv, FifoHolds
<1>2. IsFiniteSet(Slot)
  BY SizeAssumption, FS_Interval DEF Slot
<1>3. SumFunctionOnSet(buffer, Slot) \in Nat
  BY <1>1, <1>2, SumIn
<1> PICK whole \in Nat : whole = SumFunctionOnSet(buffer, Slot)
  BY <1>3
<1>4. 6 * whole \in Int /\ 5 * Len(taken) \in Nat /\ 5 * Len(taken) > 0
  BY <1>1
<1>5. (6 * whole) \div (5 * Len(taken)) \in Int
  BY <1>4, DivMod
<1> QED BY <1>1, <1>5 DEF Average, Weighted

(* ... as an invariant of its own, to be used of the next state.           *)
AverageOK == taken # <<>> => tmp_value \in Int

LEMMA InvAverageOK == DustInv => AverageOK
BY AverageIsInt DEF AverageOK

(* A measurement leaves an average.                                        *)
LEMMA CalculateAverages ==
    ASSUME DustInv, AverageOK', NEW s \in Samples, Calculate(s)
    PROVE  tmp_value' \in Int
<1>1. taken' # <<>>
  <2>1. taken \in Seq(Nat) /\ s \in Nat
    BY SamplesAssumption DEF DustInv, FifoHolds
  <2> PICK t : t = IF Len(taken) = AVG_BUFFER_SIZE THEN Tail(taken) ELSE taken
    OBVIOUS
  <2>2. taken' = Append(t, s)
    BY DEF Calculate
  <2>3. t \in Seq(Nat)
    <3>1. CASE Len(taken) = AVG_BUFFER_SIZE
      <4>1. taken # <<>>
        BY <2>1, <3>1, SizeAssumption
      <4> QED BY <2>1, <3>1, <4>1
    <3>2. CASE Len(taken) # AVG_BUFFER_SIZE
      BY <2>1, <3>2
    <3> QED BY <3>1, <3>2
  <2>4. Append(t, s) # <<>>
    BY <2>1, <2>3
  <2> QED BY <2>2, <2>4
<1> QED BY <1>1 DEF AverageOK

(* What StepsTowards says of a step.                                       *)
Towards ==
    /\ dust_value <= tmp_value' => dust_value' \in dust_value .. tmp_value'
    /\ dust_value >= tmp_value' => dust_value' \in tmp_value' .. dust_value
    /\ dust_value \notin tmp_value' - 1 .. tmp_value' + 1
           => dust_value' # tmp_value'

(* One call of the smoothing, whichever way it goes.                       *)
LEMMA SmoothSteps ==
    ASSUME SmoothType, tmp_value' \in Int, Smooth(tmp_value')
    PROVE  SmoothType' /\ (~Wrapped => Towards)
<1> PICK average \in Int : average = tmp_value'
  OBVIOUS
<1> PICK old \in Int : old = dust_value
  BY DEF SmoothType
<1>1. CASE average > old
  <2>1. /\ bigger_last' = Counted(bigger_last) /\ smaller_last' = 0
        /\ dust_value' = Rise(old, Step(average - old, bigger_last'))
    BY <1>1 DEF Smooth
  <2> PICK last \in Int : last = bigger_last'
    BY <2>1, CountedIsInt DEF SmoothType
  <2>2. dust_value' \in Int
    <3>1. average - old \in Int
      OBVIOUS
    <3>2. Step(average - old, last) \in Int
      BY <3>1, StepIsInt
    <3>3. SLOWNESS * old + Step(average - old, last) \in Int
      BY <3>2, SmoothingAssumption
    <3> QED BY <2>1, <3>3, CutIsInt DEF Rise
  <2>3. ASSUME ~Wrapped PROVE Towards
    <3>1. 1 + MVALUE * Max2(0, last) < HALF
      <4>1. Max2(last, 0) = Max2(0, last) /\ Max2(0, last) \in Nat
        BY DEF Max2
      <4>2. ~(1 + MVALUE * Max2(0, last) >= HALF)
        BY <2>1, <2>3, <4>1 DEF Wrapped
      <4>3. MVALUE * Max2(0, last) \in Nat /\ HALF \in Nat
        BY <4>1, SmoothingAssumption
      <4> QED BY <4>2, <4>3
    <3>2. /\ dust_value' \in old .. average
          /\ old \notin average - 1 .. average + 1 => dust_value' # average
      BY <1>1, <2>1, <3>1, RiseTowards
    <3>3. /\ old <= average => dust_value' \in old .. average
          /\ old >= average => dust_value' \in average .. old
          /\ old \notin average - 1 .. average + 1 => dust_value' # average
      <4> PICK new \in Int : new = dust_value'
        BY <2>2
      <4>1. new \in old .. average
        BY <3>2
      <4>2. /\ old <= average => new \in old .. average
            /\ old >= average => new \in average .. old
        BY <1>1, <4>1
      <4>3. old \notin average - 1 .. average + 1 => new # average
        BY <3>2
      <4> QED BY <4>2, <4>3
    <3> QED BY <3>3 DEF Towards
  <2> QED BY <2>1, <2>2, <2>3, CountedIsInt DEF SmoothType
<1>2. CASE ~(average > old)
  <2>1. /\ smaller_last' = Counted(smaller_last) /\ bigger_last' = 0
        /\ dust_value' = Fall(old, Step(old - average, smaller_last'))
    BY <1>2 DEF Smooth
  <2> PICK last \in Int : last = smaller_last'
    BY <2>1, CountedIsInt DEF SmoothType
  <2>2. dust_value' \in Int
    <3>1. old - average \in Int
      OBVIOUS
    <3>2. Step(old - average, last) \in Int
      BY <3>1, StepIsInt
    <3>3. SLOWNESS * old - Step(old - average, last) \in Int
      BY <3>2, SmoothingAssumption
    <3> QED BY <2>1, <3>3, CutIsInt DEF Fall
  <2>3. ASSUME ~Wrapped PROVE Towards
    <3>1. 1 + MVALUE * Max2(0, last) < HALF
      <4>1. Max2(0, last) \in Nat
        BY DEF Max2
      <4>2. ~(1 + MVALUE * Max2(0, last) >= HALF)
        BY <2>1, <2>3 DEF Wrapped
      <4>3. MVALUE * Max2(0, last) \in Nat /\ HALF \in Nat
        BY <4>1, SmoothingAssumption
      <4> QED BY <4>2, <4>3
    <3>2. /\ dust_value' \in average .. old
          /\ old \notin average - 1 .. average + 1 => dust_value' # average
      <4>1. average <= old
        BY <1>2
      <4> QED BY <2>1, <3>1, <4>1, FallTowards
    <3>3. /\ old <= average => dust_value' \in old .. average
          /\ old >= average => dust_value' \in average .. old
          /\ old \notin average - 1 .. average + 1 => dust_value' # average
      <4> PICK new \in Int : new = dust_value'
        BY <2>2
      <4>1. new \in average .. old
        BY <3>2
      <4>2. /\ old <= average => new \in old .. average
            /\ old >= average => new \in average .. old
        BY <1>2, <4>1
      <4>3. old \notin average - 1 .. average + 1 => new # average
        BY <3>2
      <4> QED BY <4>2, <4>3
    <3> QED BY <3>3 DEF Towards
  <2> QED BY <2>1, <2>2, <2>3, CountedIsInt DEF SmoothType
<1> QED BY <1>1, <1>2

(* Every call of algorithm_calculate keeps the smoothed value a number.    *)
LEMMA NextSmoothType ==
    DustInv /\ AverageOK' /\ SmoothType /\ [NextDust]_dustVars => SmoothType'
<1> SUFFICES ASSUME DustInv, AverageOK', SmoothType, [NextDust]_dustVars
             PROVE  SmoothType'
  OBVIOUS
<1>1. ASSUME NEW s \in Samples, Calculate(s) PROVE SmoothType'
  <2>1. tmp_value' \in Int /\ Smooth(tmp_value')
    BY <1>1, CalculateAverages DEF Calculate
  <2> QED BY <2>1, SmoothSteps
<1>2. CASE Preclear
  BY <1>2 DEF Preclear, SmoothType
<1>3. CASE UNCHANGED dustVars
  BY <1>3 DEF dustVars, SmoothType
<1> QED BY <1>1, <1>2, <1>3 DEF NextDust, Measure

(* The invariants of the averaging together.                               *)
LEMMA SmoothsTyped == SpecDust => [](DustInv /\ AverageOK /\ SmoothType)
<1>1. SpecDust => []DustInv
  BY InitDustInv, NextDustInv, PTL DEF SpecDust
<1>2. SpecDust => [](DustInv /\ AverageOK)
  BY <1>1, InvAverageOK, PTL
<1>3. InitDust => SmoothType
  BY DEF InitDust, SmoothType
<1> QED BY <1>2, <1>3, NextSmoothType, PTL DEF SpecDust

(* algorithm_calculate: the smoothed value goes towards the average and    *)
(* not past it, unless the factor of the step has wrapped, for every width *)
(* of the integers and every SLOWNESS.                                     *)
THEOREM Smooths == SpecDust => StepsTowards
<1>1. DustInv /\ AverageOK' /\ SmoothType /\ [NextDust]_dustVars
          => [Measure /\ ~Wrapped => Towards]_dustVars
  <2> SUFFICES ASSUME DustInv, AverageOK', SmoothType, Measure, ~Wrapped
               PROVE  Towards
    OBVIOUS
  <2> PICK s \in Samples : Calculate(s)
    BY DEF Measure
  <2>1. tmp_value' \in Int /\ Smooth(tmp_value')
    BY CalculateAverages DEF Calculate
  <2> QED BY <2>1, SmoothSteps
<1>2. SpecDust => [][Measure /\ ~Wrapped => Towards]_dustVars
  BY <1>1, SmoothsTyped, PTL DEF SpecDust
<1> QED BY <1>2 DEF StepsTowards, Towards

-------------------------------------------------------------------------------
(* The segments of the curve: where they begin, and which one a value is   *)
(* in.                                                                     *)

(* All widths of a table are positive.                                     *)
IsTable(t) == \A i \in 0 .. Last : t[i] \in Nat /\ t[i] > 0

(* The two tables are such.                                                *)
LEMMA Tables == IsTable(dx) /\ IsTable(dy) /\ Last \in Nat
BY TableAssumption DEF IsTable

(* A segment begins where the one before it ends.                          *)
LEMMA StartIs ==
    ASSUME NEW t, IsTable(t), NEW i \in 0 .. Last
    PROVE  /\ Start(t, i) \in Nat
           /\ Start(t, i + 1) = Start(t, i) + t[i]
           /\ Start(t, 0) = 0
<1>1. /\ Last \in Nat /\ i \in Nat /\ 0 .. (i + 1) - 1 = 0 .. i
      /\ 0 .. i = (0 .. i - 1) \cup {i} /\ i \notin 0 .. i - 1
      /\ 0 .. i \subseteq 0 .. Last
      /\ 0 .. 0 - 1 = {}
  BY Tables
<1>2. IsFiniteSet(0 .. i - 1)
  BY <1>1, FS_Interval
<1>3. /\ \A j \in (0 .. i - 1) \cup {i} : t[j] \in Int
      /\ \A j \in 0 .. i - 1 : t[j] \in Nat
  BY <1>1 DEF IsTable
<1>4. SumFunctionOnSet(t, (0 .. i - 1) \cup {i}) = t[i] + SumFunctionOnSet(t, 0 .. i - 1)
  BY <1>1, <1>2, <1>3, SumAdds
<1>5. SumFunctionOnSet(t, 0 .. i - 1) \in Nat
  BY <1>2, <1>3, SumIn
<1>6. Start(t, i) = SumFunctionOnSet(t, 0 .. i - 1)
  BY DEF Start
<1>7. Start(t, i + 1) = SumFunctionOnSet(t, (0 .. i - 1) \cup {i})
  <2>1. Start(t, i + 1) = SumFunctionOnSet(t, 0 .. (i + 1) - 1)
    BY DEF Start
  <2> QED BY <1>1, <2>1
<1>8. Start(t, 0) = 0
  BY <1>1, SumEmpty DEF Start
<1>9. t[i] \in Nat
  BY DEF IsTable
<1> QED BY <1>4, <1>5, <1>6, <1>7, <1>8, <1>9

(* Later segments begin later.                                             *)
LEMMA StartGrows ==
    ASSUME NEW t, IsTable(t), NEW i \in 0 .. Last + 1, NEW j \in 0 .. Last + 1, i <= j
    PROVE  Start(t, i) \in Nat /\ Start(t, j) \in Nat /\ Start(t, i) <= Start(t, j)
<1>1. /\ Last \in Nat /\ i \in Nat /\ j \in Nat
      /\ 0 .. i - 1 \subseteq 0 .. j - 1 /\ 0 .. j - 1 \subseteq 0 .. Last
      /\ j - 1 \in Int /\ i - 1 \in Int
  BY Tables
<1>2. IsFiniteSet(0 .. j - 1) /\ IsFiniteSet(0 .. i - 1)
  BY <1>1, FS_Interval
<1>3. \A k \in 0 .. j - 1 : t[k] \in Nat
  BY <1>1 DEF IsTable
<1>4. \A k \in 0 .. i - 1 : t[k] \in Nat
  BY <1>1, <1>3
<1>5. SumFunctionOnSet(t, 0 .. i - 1) <= SumFunctionOnSet(t, 0 .. j - 1)
  BY <1>1, <1>2, <1>3, SumGrows
<1>6. SumFunctionOnSet(t, 0 .. i - 1) \in Nat /\ SumFunctionOnSet(t, 0 .. j - 1) \in Nat
  BY <1>2, <1>3, <1>4, SumIn
<1> QED BY <1>5, <1>6 DEF Start

(* Segment i of a table holds x.                                           *)
Within(t, i, x) ==
    /\ i \in 0 .. Last
    /\ Start(t, i) \in Nat /\ Start(t, i) <= x
    /\ i = Last \/ x < Start(t, i + 1)

(* A larger value is in no earlier a segment.                              *)
LEMMA WithinOrder ==
    ASSUME NEW t, IsTable(t), NEW x \in Int, NEW y \in Int, x <= y,
           NEW i, NEW j, Within(t, i, x), Within(t, j, y)
    PROVE  i <= j
<1> SUFFICES ASSUME j < i PROVE FALSE
  BY Tables DEF Within
<1>1. i \in 0 .. Last /\ j \in 0 .. Last /\ Last \in Nat /\ Start(t, i) <= x
  BY Tables DEF Within
<1>2. j # Last /\ j + 1 \in 0 .. Last + 1 /\ i \in 0 .. Last + 1 /\ j + 1 <= i
  BY <1>1
<1>3. y < Start(t, j + 1)
  BY <1>2 DEF Within
<1>4. Start(t, j + 1) <= Start(t, i) /\ Start(t, j + 1) \in Nat /\ Start(t, i) \in Nat
  BY <1>2, StartGrows
<1> QED BY <1>1, <1>3, <1>4

(* The segment the code finds holds the value ...                          *)
LEMMA SegmentWithin ==
    ASSUME NEW t, IsTable(t), NEW x \in Nat
    PROVE  Within(t, SegmentOf(t, x), x)
<1> DEFINE B == {n \in 1 .. Last + 1 : n = Last + 1 \/ x < Start(t, n)}
<1>1. Last \in Nat /\ Last + 1 \in B
  BY Tables
<1>2. PICK m \in B : \A n \in B : m <= n
  <2>1. B \in SUBSET Nat /\ B # {}
    BY <1>1
  <2> HIDE DEF B
  <2> QED BY <2>1, SmallestNumber
<1> PICK i \in 0 .. Last : m = i + 1
  <2>1. m - 1 \in 0 .. Last /\ m = (m - 1) + 1
    BY <1>1, <1>2
  <2> QED BY <2>1
<1>3. i = Last \/ x < Start(t, i + 1)
  <2>1. m = Last + 1 \/ x < Start(t, m)
    BY <1>2
  <2>2. i + 1 = Last + 1 => i = Last
    BY <1>1
  <2> QED BY <2>1, <2>2
<1>4. ASSUME NEW n \in 1 .. i PROVE Start(t, n) <= x
  <2>1. n \notin B /\ n \in 1 .. Last + 1 /\ n # Last + 1 /\ n \in 0 .. Last
    BY <1>1, <1>2
  <2>2. ~(x < Start(t, n))
    BY <2>1
  <2>3. Start(t, n) \in Nat
    BY <2>1, StartIs
  <2> QED BY <2>2, <2>3
<1>5. ASSUME NEW n \in 1 .. Last, i < n PROVE ~(Start(t, n) <= x)
  <2>1. i # Last /\ i + 1 \in 0 .. Last + 1 /\ n \in 0 .. Last + 1 /\ i + 1 <= n
    BY <1>1, <1>5
  <2>2. /\ Start(t, i + 1) \in Nat /\ Start(t, n) \in Nat
        /\ Start(t, i + 1) <= Start(t, n)
    BY <2>1, StartGrows
  <2> QED BY <1>3, <2>1, <2>2
<1>6. {n \in 1 .. Last : Start(t, n) <= x} = 1 .. i
  <2>1. \A n \in 1 .. Last : n \in 1 .. i <=> ~(i < n)
    BY <1>1
  <2>2. 1 .. i \subseteq 1 .. Last
    BY <1>1
  <2> QED BY <1>4, <1>5, <2>1, <2>2
<1>7. Cardinality(1 .. i) = i
  BY FS_Interval
<1>8. SegmentOf(t, x) = i
  BY <1>6, <1>7 DEF SegmentOf
<1>9. Start(t, i) \in Nat /\ Start(t, i) <= x
  <2>1. Start(t, i) \in Nat /\ Start(t, 0) = 0
    BY StartIs
  <2>2. CASE i = 0
    BY <2>1, <2>2
  <2>3. CASE i # 0
    <3>1. i \in 1 .. i
      BY <2>3
    <3> QED BY <1>4, <2>1, <3>1
  <2> QED BY <2>2, <2>3
<1> QED BY <1>3, <1>8, <1>9 DEF Within

(* ... and is the only one.                                                *)
LEMMA SegmentIs ==
    ASSUME NEW t, IsTable(t), NEW x \in Nat, NEW i, Within(t, i, x)
    PROVE  SegmentOf(t, x) = i
<1>1. Within(t, SegmentOf(t, x), x) /\ x \in Int
  BY SegmentWithin
<1>2. SegmentOf(t, x) <= i /\ i <= SegmentOf(t, x)
  BY <1>1, WithinOrder
<1> QED BY <1>1, <1>2, Tables DEF Within

-------------------------------------------------------------------------------
(* What the curve makes of a value in segment i, before it is cut to MOST. *)
Micrograms(x, i) ==
    Start(dy, i) + (((x - Start(dx, i)) * dy[i]) % WORD) \div dx[i]

(* It is at least what the segment begins with, even if its product wraps. *)
LEMMA Data2Pm25Is ==
    ASSUME NEW x \in Nat, NEW i, Within(dx, i, x)
    PROVE  /\ Data2Pm25(x) = AtMost(Micrograms(x, i))
           /\ Micrograms(x, i) \in Nat /\ Start(dy, i) \in Nat
           /\ Start(dy, i) <= Micrograms(x, i)
<1>1. SegmentOf(dx, x) = i /\ i \in 0 .. Last
  BY Tables, SegmentIs DEF Within
<1>2. Start(dx, i) \in Nat /\ Start(dy, i) \in Nat
  BY <1>1, Tables, StartIs
<1>3. dx[i] \in Nat /\ dx[i] > 0 /\ dy[i] \in Nat /\ WORD \in Nat /\ WORD > 0
  BY <1>1, TableAssumption, WordAssumption
<1>4. PICK a : a = (x - Start(dx, i)) * dy[i]
  OBVIOUS
<1>5. a \in Int
  BY <1>2, <1>3, <1>4
<1>6. a % WORD \in Nat
  BY <1>3, <1>5, DivMod
<1>7. PICK b \in Nat : b = a % WORD
  BY <1>6
<1>8. b \div dx[i] \in Nat
  BY <1>3
<1>9. Micrograms(x, i) = Start(dy, i) + b \div dx[i]
  BY <1>4, <1>7 DEF Micrograms
<1>10. Data2Pm25(x) = AtMost(Micrograms(x, i))
  BY <1>1 DEF Data2Pm25, Micrograms
<1> QED BY <1>2, <1>8, <1>9, <1>10

(* A segment before the last does not reach beyond its end: its products   *)
(* fit a word.                                                             *)
LEMMA ProductFits ==
    ASSUME NEW i \in 0 .. Last, NEW x \in 0 .. dx[i] - 1
    PROVE  x * dy[i] \in 0 .. WORD - 1 /\ (x * dy[i]) \div dx[i] \in 0 .. dy[i]
<1>1. PICK m : m = dx[i]
  OBVIOUS
<1>2. PICK h : h = dy[i]
  OBVIOUS
<1>3. m \in Nat /\ m > 0 /\ h \in Nat /\ h > 0 /\ WORD \in Nat /\ m * h <= WORD
  BY <1>1, <1>2, TableAssumption, WordAssumption
<1>4. PICK c \in Nat : m = x + 1 + c /\ x \in Nat
  <2>1. m - x - 1 \in Nat /\ m = x + 1 + (m - x - 1) /\ x \in Nat
    BY <1>1, <1>3
  <2> QED BY <2>1
<1>5. m * h = x * h + h + c * h /\ x * h \in Nat /\ c * h \in Nat
  BY <1>3, <1>4
<1>6. PICK y \in Nat : y = x * h
  BY <1>5
<1>7. PICK mh \in Nat : mh = m * h
  BY <1>3
<1>8. PICK ch \in Nat : ch = c * h
  BY <1>5
<1>9. mh = y + h + ch /\ mh <= WORD
  BY <1>3, <1>5, <1>6, <1>7, <1>8
<1>10. y \in 0 .. WORD - 1 /\ y <= mh
  BY <1>3, <1>9
<1>11. y \div m \in Int /\ y % m \in 0 .. m - 1 /\ y = m * (y \div m) + (y % m)
  BY <1>3, DivMod
<1>12. y \div m \in Nat
  BY <1>3
<1>13. PICK q \in Nat : q = y \div m
  BY <1>12
<1>14. m * q <= m * h + 0 /\ 0 \in 0 .. m - 1
  <2>1. PICK z \in Int : z = m * q
    BY <1>3
  <2>2. y = z + (y % m)
    BY <1>11, <1>13, <2>1
  <2>3. z <= mh
    BY <1>10, <1>11, <2>2
  <2> QED BY <1>3, <1>7, <2>1, <2>3
<1>15. q <= h
  BY <1>3, <1>14, ProductOrder
<1>16. q \in 0 .. h
  BY <1>3, <1>15
<1> QED BY <1>1, <1>2, <1>6, <1>10, <1>13, <1>16

(* A word holds what fits it.                                              *)
LEMMA WordIs == ASSUME NEW a \in 0 .. WORD - 1 PROVE a % WORD = a
<1>1. WORD \in Nat /\ WORD > 0 /\ a \in Int /\ a = WORD * 0 + a
  BY WordAssumption
<1> QED BY <1>1, ModIs

(* So the curve is exact, unless the product of the last segment wraps.    *)
LEMMA ExactIs ==
    ASSUME NEW x \in Nat, ~ProductWraps(x)
    PROVE  Data2Pm25(x) = Exact(x)
<1> PICK i : i = SegmentOf(dx, x)
  OBVIOUS
<1>1. Within(dx, i, x) /\ i \in 0 .. Last
  BY Tables, SegmentWithin DEF Within
<1>2. Start(dx, i) \in Nat /\ Start(dx, i) <= x /\ dx[i] \in Nat /\ dy[i] \in Nat
      /\ WORD \in Nat
  BY <1>1, TableAssumption, WordAssumption DEF Within
<1>3. PICK a \in Nat : a = x - Start(dx, i)
  BY <1>2
<1>4. a * dy[i] \in 0 .. WORD - 1
  <2>1. CASE i = Last
    <3>1. PICK b \in Nat : b = a * dy[i]
      BY <1>2
    <3>2. ~(b >= WORD)
      BY <1>3, <2>1, <3>1 DEF ProductWraps
    <3> QED BY <1>2, <3>1, <3>2
  <2>2. CASE i # Last
    <3>1. x < Start(dx, i + 1) /\ Start(dx, i + 1) = Start(dx, i) + dx[i]
      BY <1>1, <2>2, Tables, StartIs DEF Within
    <3>2. a \in 0 .. dx[i] - 1
      BY <1>2, <1>3, <3>1
    <3> QED BY <1>1, <3>2, ProductFits
  <2> QED BY <2>1, <2>2
<1>5. (a * dy[i]) % WORD = a * dy[i]
  BY <1>4, WordIs
<1> QED BY <1>3, <1>5 DEF Data2Pm25, Exact

(* A product that wraps is one of the last segment, and a smaller value    *)
(* has no larger a product.                                                *)
LEMMA WrapsLate ==
    ASSUME NEW x \in Nat
    PROVE  /\ ProductWraps(x) => Start(dx, Last) < x
           /\ ~ProductWraps(x) /\ x > 0 => ~ProductWraps(x - 1)
<1>1. PICK s \in Nat, h \in Nat : s = Start(dx, Last) /\ h = dy[Last]
  <2>1. Last \in 0 .. Last
    BY Tables
  <2> QED BY <2>1, Tables, StartIs, TableAssumption
<1>2. WORD \in Nat /\ WORD > 0
  BY WordAssumption
<1>3. PICK a \in Int : a = x - s
  OBVIOUS
<1>4. PICK b \in Int : b = a * h
  OBVIOUS
<1>5. ProductWraps(x) <=> b >= WORD
  BY <1>1, <1>3, <1>4 DEF ProductWraps
<1>6. ASSUME ~(s < x) PROVE ~ProductWraps(x)
  <2>1. PICK e \in Nat : a = 0 - e
    <3>1. 0 - a \in Nat /\ a = 0 - (0 - a)
      BY <1>1, <1>3, <1>6
    <3> QED BY <3>1
  <2>2. PICK f \in Nat : f = e * h
    BY <1>1
  <2>3. b = 0 - f
    BY <1>1, <1>4, <2>1, <2>2
  <2> QED BY <1>2, <1>5, <2>3
<1>7. ASSUME ~ProductWraps(x), x > 0 PROVE ~ProductWraps(x - 1)
  <2>1. (x - 1) - s = a - 1 /\ (a - 1) * h = b - h
    BY <1>1, <1>3, <1>4
  <2>2. ProductWraps(x - 1) <=> b - h >= WORD
    BY <1>1, <2>1 DEF ProductWraps
  <2> QED BY <1>1, <1>2, <1>5, <1>7, <2>2
<1> QED BY <1>1, <1>6, <1>7

(* So such a segment makes at most what the next one begins with.          *)
LEMMA SegmentEnds ==
    ASSUME NEW x \in Nat, NEW i, Within(dx, i, x), i # Last
    PROVE  Micrograms(x, i) <= Start(dy, i + 1)
<1>1. /\ i \in 0 .. Last /\ Start(dx, i) \in Nat /\ Start(dx, i) <= x
      /\ x < Start(dx, i + 1)
  BY DEF Within
<1>2. /\ Start(dx, i + 1) = Start(dx, i) + dx[i]
      /\ Start(dy, i + 1) = Start(dy, i) + dy[i] /\ Start(dy, i) \in Nat
  BY <1>1, Tables, StartIs
<1>3. dx[i] \in Nat /\ dy[i] \in Nat
  BY <1>1, TableAssumption
<1>4. PICK a : a = x - Start(dx, i)
  OBVIOUS
<1>5. a \in 0 .. dx[i] - 1
  BY <1>1, <1>2, <1>3, <1>4
<1>6. a * dy[i] \in 0 .. WORD - 1 /\ (a * dy[i]) \div dx[i] \in 0 .. dy[i]
  BY <1>1, <1>5, ProductFits
<1>7. (a * dy[i]) % WORD = a * dy[i]
  BY <1>6, WordIs
<1>8. Micrograms(x, i) = Start(dy, i) + (a * dy[i]) \div dx[i]
  BY <1>4, <1>7 DEF Micrograms
<1> PICK b : b = (a * dy[i]) \div dx[i]
  OBVIOUS
<1>9. b \in 0 .. dy[i] /\ Micrograms(x, i) = Start(dy, i) + b
  BY <1>6, <1>8
<1> QED BY <1>2, <1>3, <1>9

(* The cut to MOST keeps the order.                                        *)
LEMMA AtMostOrder ==
    ASSUME NEW a \in Int, NEW b \in Int, a <= b
    PROVE  AtMost(a) \in Int /\ AtMost(b) \in Int /\ AtMost(a) <= AtMost(b)
BY WordAssumption DEF AtMost

(* A value in a later segment shows as at least as much, whether its       *)
(* product fits a word or not.                                             *)
LEMMA LaterSegment ==
    ASSUME NEW x \in Nat, NEW y \in Nat, NEW i, NEW j,
           Within(dx, i, x), Within(dx, j, y), i < j
    PROVE  Data2Pm25(x) <= Data2Pm25(y)
<1>1. i \in 0 .. Last /\ j \in 0 .. Last /\ Last \in Nat
  BY Tables DEF Within
<1>2. i # Last /\ i + 1 \in 0 .. Last + 1 /\ j \in 0 .. Last + 1 /\ i + 1 <= j
  BY <1>1
<1>3. Micrograms(x, i) <= Start(dy, i + 1)
  BY <1>2, SegmentEnds
<1>4. /\ Start(dy, i + 1) \in Nat /\ Start(dy, j) \in Nat
      /\ Start(dy, i + 1) <= Start(dy, j)
  BY <1>2, Tables, StartGrows
<1>5. /\ Data2Pm25(x) = AtMost(Micrograms(x, i)) /\ Micrograms(x, i) \in Nat
  BY Data2Pm25Is
<1>6. /\ Data2Pm25(y) = AtMost(Micrograms(y, j)) /\ Micrograms(y, j) \in Nat
      /\ Start(dy, j) <= Micrograms(y, j)
  BY Data2Pm25Is
<1>7. Micrograms(x, i) <= Micrograms(y, j)
  BY <1>3, <1>4, <1>5, <1>6
<1> QED BY <1>5, <1>6, <1>7, AtMostOrder

-------------------------------------------------------------------------------
(* The number shown is true or one of the last segment.                    *)

(* dust_value fits the int32_t it is declared as.                          *)
InRange == dust_value \in -(WORD \div 2) .. (WORD \div 2) - 1

(* The dust is a number, and the light a natural one.                      *)
ReadingType == dust_value \in Int /\ toohigh_value \in Nat

(* In the last segment at least its beginning is shown.                    *)
LEMMA LastSegment ==
    ASSUME NEW x \in Nat, Start(dx, Last) <= x
    PROVE  Within(dx, Last, x) /\ Data2Pm25(x) >= AtMost(Start(dy, Last))
<1>1. Within(dx, Last, x)
  <2>1. Last \in 0 .. Last /\ Last \in Nat
    BY Tables
  <2>2. Start(dx, Last) \in Nat
    BY <2>1, Tables, StartIs
  <2> QED BY <2>1, <2>2 DEF Within
<1>2. /\ Data2Pm25(x) = AtMost(Micrograms(x, Last))
      /\ Micrograms(x, Last) \in Nat /\ Start(dy, Last) \in Nat
      /\ Start(dy, Last) <= Micrograms(x, Last)
  BY <1>1, Data2Pm25Is
<1>3. AtMost(Start(dy, Last)) <= AtMost(Micrograms(x, Last))
      /\ AtMost(Start(dy, Last)) \in Int /\ AtMost(Micrograms(x, Last)) \in Int
  BY <1>2, AtMostOrder
<1> QED BY <1>1, <1>2, <1>3

(* A quarter of the difference and one of the light make a quarter of the  *)
(* sum, or one less.                                                       *)
LEMMA Quarters ==
    ASSUME NEW a \in Nat, NEW b \in Nat
    PROVE  /\ a \div 4 + b \div 4 \in {(a + b) \div 4, (a + b) \div 4 - 1}
           /\ a \div 4 + b \div 4 \in Nat /\ (a + b) \div 4 \in Nat
OBVIOUS

(* If the light is stronger than the dust, what goes on the curve is in    *)
(* the last segment; otherwise the quarters lose one at the most.          *)
LEMMA TrueOrLate ==
    ASSUME ReadingType, InRange
    PROVE  ReadingTrueOrTop
<1> PICK v \in Int : v = dust_value
  BY DEF ReadingType
<1> PICK l \in Nat : l = toohigh_value
  BY DEF ReadingType
<1> PICK s : s = Start(dx, Last)
  OBVIOUS
<1> PICK d : d = Max2(0, v) \div 4
  OBVIOUS
<1>1. s \in Nat /\ WORD \in Nat /\ WORD > 0 /\ 8 * (s + 2) <= WORD
  <2>1. Last \in 0 .. Last
    BY Tables
  <2>2. s \in Nat
    BY <2>1, Tables, StartIs
  <2> QED BY <2>2, WordAssumption, WideAssumption
<1>2. v >= -(WORD \div 2) /\ v < WORD \div 2
  BY <1>1 DEF InRange
<1>3. d \in Nat
  <2>1. Max2(0, v) \in Nat
    BY DEF Max2
  <2> QED BY <2>1
<1> PICK a : a = (v - l) % WORD
  OBVIOUS
<1> PICK given : given = a \div 4 + l \div 4
  OBVIOUS
<1>4. a \in 0 .. WORD - 1 /\ a \in Nat
  <2>1. v - l \in Int
    OBVIOUS
  <2>2. a \in 0 .. WORD - 1
    BY <1>1, <2>1, DivMod
  <2> QED BY <1>1, <2>2
<1>5. given \in Nat /\ ShownNow = Data2Pm25(given)
  <2>1. Data = given
    BY DEF Data, Unlit
  <2> QED BY <1>4, <2>1, Quarters DEF ShownNow
<1>6. ASSUME l <= v PROVE given \in {d, d - 1}
  <2>1. v - l \in 0 .. WORD - 1
    <3>1. WORD \div 2 <= WORD /\ WORD \div 2 \in Int
      BY <1>1
    <3> QED BY <1>1, <1>2, <1>6, <3>1
  <2>2. a = v - l
    BY <2>1, WordIs
  <2>3. a + l = v /\ v \in Nat
    BY <1>6, <2>2
  <2>4. given \in {(a + l) \div 4, (a + l) \div 4 - 1}
    BY <1>4, Quarters
  <2>5. d = v \div 4
    BY <2>3 DEF Max2
  <2> QED BY <2>3, <2>4, <2>5
<1>7. ASSUME l > v PROVE s <= given
  <2>1. CASE l >= 4 * s
    <3>1. l \div 4 >= s /\ a \div 4 >= 0
      BY <1>1, <1>4, <2>1
    <3>2. l \div 4 \in Int /\ a \div 4 \in Int
      BY <1>4
    <3> QED BY <1>1, <3>1, <3>2
  <2>2. CASE l < 4 * s
    <3>1. PICK b \in Int : b = (v - l) + WORD
      BY <1>1
    <3>2. 2 * v >= -WORD
      <4>1. 2 * (WORD \div 2) <= WORD /\ WORD \div 2 \in Int
        BY <1>1
      <4> QED BY <1>1, <1>2, <4>1
    <3>3. b \in 0 .. WORD - 1 /\ 2 * (b + l) >= WORD
      BY <1>1, <1>7, <2>2, <3>1, <3>2
    <3>4. a = b
      <4>1. PICK c \in Int : c = v - l
        OBVIOUS
      <4>2. PICK n \in Int : n = -1
        OBVIOUS
      <4>3. WORD * n = 0 - WORD
        BY <1>1, <4>2
      <4>4. c = WORD * n + b
        BY <1>1, <3>1, <4>1, <4>3
      <4>5. c % WORD = b
        BY <1>1, <3>3, <4>4, ModIs
      <4> QED BY <4>1, <4>5
    <3>5. a + l >= 4 * (s + 2)
      BY <1>1, <3>1, <3>3, <3>4
    <3>6. (a + l) \div 4 >= s + 2
      BY <1>1, <1>4, <3>5
    <3>7. given \in {(a + l) \div 4, (a + l) \div 4 - 1} /\ (a + l) \div 4 \in Nat
      BY <1>4, Quarters
    <3> QED BY <1>1, <3>6, <3>7
  <2> QED BY <1>1, <2>1, <2>2
<1>8. CASE l > v \/ ProductWraps(d)
  <2>1. s <= given
    <3>1. CASE l > v
      BY <1>7, <3>1
    <3>2. CASE ~(l > v)
      <4>1. s < d
        BY <1>3, <1>8, <3>2, WrapsLate
      <4>2. given \in {d, d - 1}
        BY <1>6, <3>2
      <4> QED BY <1>1, <1>3, <4>1, <4>2
    <3> QED BY <3>1, <3>2
  <2>2. ShownNow >= AtMost(Start(dy, Last))
    BY <1>5, <2>1, LastSegment
  <2> QED BY <1>8, <2>2 DEF ReadingTrueOrTop
<1>9. CASE ~(l > v \/ ProductWraps(d))
  <2>1. given \in {d, Max2(0, d - 1)}
    <3>1. given \in {d, d - 1}
      BY <1>6, <1>9
    <3> QED BY <1>3, <1>5, <3>1 DEF Max2
  <2>2. ~ProductWraps(given)
    <3>1. given = d \/ (given = d - 1 /\ d > 0)
      BY <1>3, <1>5, <2>1 DEF Max2
    <3> QED BY <1>3, <1>9, <3>1, WrapsLate
  <2>3. ShownNow = Exact(given)
    BY <1>5, <2>2, ExactIs
  <2>4. ShownNow \in {Exact(d), Exact(Max2(0, d - 1))}
    BY <2>1, <2>3
  <2> QED BY <1>9, <2>4 DEF ReadingTrueOrTop
<1> QED BY <1>8, <1>9

(* There is no light at first, ...                                         *)
LEMMA InitReadingType == InitReading => ReadingType
BY DEF InitReading, InitDust, ReadingType

(* ... and every measurement keeps light and dust numbers.                 *)
LEMMA NextReadingType ==
    ReadingType /\ SmoothType' /\ [NextReading]_readingVars => ReadingType'
BY LightsAssumption
   DEF SmoothType, ReadingType, NextReading, CalculateLit, PreclearLit, readingVars

(* Whatever the light does, the number shown is that of the smoothed dust, *)
(* and where the difference or the product wraps, one of the last segment, *)
(* for as long as the smoothed dust fits its int32_t.                      *)
THEOREM ReadsTrueOrTop == FairReading => [](InRange => ReadingTrueOrTop)
<1>1. FairReading => SpecDust
  BY ReadingMeasures
<1>2. SpecDust => []SmoothType
  BY SmoothsTyped, PTL
<1>3. FairReading => []ReadingType
  BY <1>1, <1>2, InitReadingType, NextReadingType, PTL DEF FairReading
<1> QED BY <1>3, TrueOrLate, PTL

-------------------------------------------------------------------------------
(* The correction, behind the curve.                                       *)

(* More shows as more on the curve, as long as the product fits a word.    *)
LEMMA CurveOrder ==
    ASSUME NEW x \in Nat, NEW y \in Nat, x <= y,
           (y - Start(dx, Last)) * dy[Last] < WORD
    PROVE  Data2Pm25(x) <= Data2Pm25(y)
<1> PICK i : i = SegmentOf(dx, x)
  OBVIOUS
<1> PICK j : j = SegmentOf(dx, y)
  OBVIOUS
<1>1. Within(dx, i, x) /\ Within(dx, j, y)
  BY Tables, SegmentWithin
<1>2. i <= j /\ i \in 0 .. Last /\ j \in 0 .. Last /\ Last \in Nat
  <2>1. i <= j
    BY <1>1, Tables, WithinOrder
  <2> QED BY <1>1, <2>1, Tables DEF Within
<1>3. CASE i < j
  BY <1>1, <1>3, LaterSegment
<1>4. CASE i = j
  <2> PICK m : m = dx[i]
    OBVIOUS
  <2> PICK h : h = dy[i]
    OBVIOUS
  <2>1. m \in Nat /\ m > 0 /\ h \in Nat /\ h > 0 /\ WORD \in Nat
    BY <1>2, TableAssumption, WordAssumption
  <2>2. Start(dx, i) \in Nat /\ Start(dx, i) <= x /\ Start(dy, i) \in Nat
    BY <1>1, <1>2, Tables, StartIs DEF Within
  <2>3. PICK a \in Nat : a = x - Start(dx, i)
    BY <2>2
  <2>4. PICK b \in Nat : b = y - Start(dx, i) /\ a <= b
    BY <2>2, <2>3
  <2>5. b * h < WORD
    <3>1. CASE i = Last
      BY <2>4, <3>1
    <3>2. CASE i # Last
      <4>1. y < Start(dx, i + 1) /\ Start(dx, i + 1) = Start(dx, i) + m
        <5>1. y < Start(dx, i + 1)
          BY <1>1, <1>4, <3>2 DEF Within
        <5> QED BY <1>2, <5>1, Tables, StartIs
      <4>2. b \in 0 .. m - 1
        BY <2>1, <2>2, <2>4, <4>1
      <4>3. b * h \in 0 .. WORD - 1
        BY <1>2, <4>2, ProductFits
      <4> QED BY <2>1, <4>3
    <3> QED BY <3>1, <3>2
  <2>6. PICK p \in Nat : p = a * h
    BY <2>1
  <2>7. PICK q \in Nat : q = b * h
    BY <2>1
  <2>8. p <= q
    <3>1. h * a <= h * b
      BY <2>1, <2>4, ProductGrows
    <3>2. h * a = a * h /\ h * b = b * h
      BY <2>1
    <3> QED BY <2>6, <2>7, <3>1, <3>2
  <2>9. p % WORD = p /\ q % WORD = q
    <3>1. p \in 0 .. WORD - 1 /\ q \in 0 .. WORD - 1
      BY <2>1, <2>5, <2>7, <2>8
    <3> QED BY <3>1, WordIs
  <2>10. p \div m <= q \div m
    <3>1. p \in Int /\ q \in Int /\ m \in Nat /\ m > 0
      BY <2>1
    <3> QED BY <2>8, <3>1, DivMonotone
  <2>11. /\ Micrograms(x, i) = Start(dy, i) + p \div m
         /\ Micrograms(y, i) = Start(dy, i) + q \div m
    BY <2>3, <2>4, <2>6, <2>7, <2>9 DEF Micrograms
  <2>12. p \div m \in Int /\ q \div m \in Int
    <3>1. p \in Int /\ q \in Int /\ m \in Nat /\ m > 0
      BY <2>1
    <3> QED BY <3>1, QuotientIs
  <2>13. Micrograms(x, i) <= Micrograms(y, i)
    BY <2>2, <2>10, <2>11, <2>12
  <2>14. /\ Data2Pm25(x) = AtMost(Micrograms(x, i)) /\ Micrograms(x, i) \in Nat
         /\ Data2Pm25(y) = AtMost(Micrograms(y, i)) /\ Micrograms(y, i) \in Nat
    BY <1>1, <1>4, Data2Pm25Is
  <2> QED BY <2>13, <2>14, AtMostOrder
<1> QED BY <1>2, <1>3, <1>4

(* pm252data makes a value of every target.                                *)
LEMMA Pm252DataIs ==
    ASSUME NEW y \in Nat
    PROVE  Pm252Data(y) \in Nat
<1> PICK i : i = SegmentOf(dy, y)
  OBVIOUS
<1>1. i \in 0 .. Last /\ Start(dy, i) \in Nat /\ Start(dy, i) <= y
  BY Tables, SegmentWithin DEF Within
<1>2. dx[i] \in Nat /\ dy[i] \in Nat /\ dy[i] > 0 /\ Start(dx, i) \in Nat
  BY <1>1, Tables, TableAssumption, StartIs
<1>3. PICK a \in Nat : a = (y - Start(dy, i)) * dx[i]
  <2>1. PICK b \in Nat : b = y - Start(dy, i)
    BY <1>1
  <2>2. b * dx[i] \in Nat
    BY <1>2
  <2> QED BY <2>1, <2>2
<1>4. a \div dy[i] \in Nat
  BY <1>2
<1> QED BY <1>2, <1>3, <1>4 DEF Pm252Data

(* A calibration in effect whose factor is a number.                       *)
Factored ==
    /\ MasterData \in Nat /\ SelfCalibrationData \in Nat
    /\ MasterData # 0 \/ SelfCalibrationData # 0

(* The dwords of the pair, and what is about to be written to them.        *)
StoreType ==
    /\ master \in Dword /\ self \in Dword
    /\ pc \in {"write_master", "write_self"} => data \in Reading

(* Every write and erase, cut or not, keeps them such.                     *)
LEMMA NextStoreType == StoreType /\ [NextStore]_storeVars => StoreType'
<1> SUFFICES ASSUME StoreType, [NextStore]_storeVars PROVE StoreType'
  OBVIOUS
<1> USE DEF StoreType, Dword
<1>1. ASSUME NEW reading \in Reading, WriteGasParameter(reading) PROVE StoreType'
  BY <1>1 DEF WriteGasParameter
<1>2. CASE WriteMaster
  BY <1>2 DEF WriteMaster
<1>3. CASE WriteSelf
  BY <1>3 DEF WriteSelf
<1>4. CASE ErasePm25Clibration
  BY <1>4 DEF ErasePm25Clibration
<1>5. CASE EraseMaster
  BY <1>5 DEF EraseMaster
<1>6. CASE EraseSelf
  BY <1>6 DEF EraseSelf
<1>7. CASE ResetStore
  BY <1>7 DEF ResetStore, Cut, CutInside, Mix, New
<1>8. CASE UNCHANGED storeVars
  BY <1>8 DEF storeVars
<1> QED BY <1>1, <1>2, <1>3, <1>4, <1>5, <1>6, <1>7, <1>8 DEF NextStore

(* A pair that is in effect and has a ratio is such.                       *)
LEMMA InEffectFactored ==
    ASSUME StoreType, HasRatio, InEffect # Uncorrected
    PROVE  Factored /\ master \in Reading /\ self \in Reading
<1>1. master # UINT32_MAX /\ self # UINT32_MAX
  BY DEF InEffect
<1>2. master \in Reading /\ self \in Reading
  BY <1>1 DEF StoreType, Dword, HasRatio
<1> QED BY <1>2, ReadingAssumption
       DEF Factored, HasRatio, MasterData, SelfCalibrationData

(* The device's own reading then is never above the threshold.             *)
LEMMA HighThresholdIs ==
    ASSUME Factored
    PROVE  HighThreshold \in Nat /\ SelfCalibrationData <= HighThreshold
<1> PICK half \in Nat : half = Pm252Data(HALFWAY)
  BY HeldAssumption, Pm252DataIs
<1> QED BY DEF HighThreshold, Factored

(* The correction of a factor within the limits does not fall.             *)
LEMMA CorrectedOrder ==
    ASSUME Factored, InEffect # Uncorrected, ~TooSmall, ~TooLarge, NEW d \in Nat
    PROVE  /\ Corrected(d) \in Nat /\ Corrected(d + 1) \in Nat
           /\ Corrected(d) <= Corrected(d + 1)
<1> PICK M : M = MasterData
  OBVIOUS
<1> PICK S : S = SelfCalibrationData
  OBVIOUS
<1> PICK H : H = HighThreshold
  OBVIOUS
<1>1. M \in Nat /\ S \in Nat /\ S > 0 /\ H \in Nat
  <2>1. M \in Nat /\ S \in Nat /\ (M # 0 \/ S # 0) /\ ~(M > 3 * S)
    BY DEF Factored, TooLarge
  <2>2. S > 0
    BY <2>1
  <2> QED BY <2>1, <2>2, HighThresholdIs
<1> DEFINE Low(x) == (x * M) \div S
           High(x) == ((x - H) * (S + M) + 2 * H * M) \div (2 * S)
<1>2. ASSUME NEW x \in Nat
      PROVE  Corrected(x) = IF x > H THEN High(x) ELSE Low(x)
  <2>1. CorrectedHigh(x) = (((x - H) * (S + M) + 2 * H * M) * 1) \div (2 * S)
    BY DEF CorrectedHigh, Times
  <2>2. ((x - H) * (S + M) + 2 * H * M) \in Int
    BY <1>1
  <2>3. CorrectedHigh(x) = High(x)
    BY <2>1, <2>2
  <2>4. Times(x, M, S) = Low(x)
    BY DEF Times
  <2> QED BY <2>3, <2>4 DEF Corrected
<1>3. PICK hm \in Nat : hm = H * M
  BY <1>1
<1>4. 2 * H * M = 2 * hm
  BY <1>1, <1>3
<1>5. PICK T \in Nat : T = 2 * S /\ T > 0
  BY <1>1
<1>6. PICK U \in Nat : U = S + M
  BY <1>1
<1>7. CASE d + 1 <= H
  <2>1. Corrected(d) = Low(d) /\ Corrected(d + 1) = Low(d + 1)
    BY <1>1, <1>2, <1>7
  <2>2. PICK a \in Nat : a = d * M
    BY <1>1
  <2>3. (d + 1) * M = a + M
    BY <1>1, <2>2
  <2>4. a \div S <= (a + M) \div S
    BY <1>1, DivMonotone
  <2>5. a \div S \in Nat /\ (a + M) \div S \in Nat
    BY <1>1
  <2> QED BY <2>1, <2>2, <2>3, <2>4, <2>5
<1>8. CASE d = H
  <2>1. Corrected(d) = Low(d) /\ Corrected(d + 1) = High(d + 1)
    BY <1>1, <1>2, <1>8
  <2>2. Low(d) = hm \div S
    BY <1>3, <1>8
  <2>3. High(d + 1) = (U + 2 * hm) \div T
    <3>1. (d + 1) - H = 1 /\ 1 * (S + M) = U
      BY <1>1, <1>6, <1>8
    <3> QED BY <1>4, <1>5, <3>1
  <2>4. hm \div S <= (U + 2 * hm) \div T
    <3>1. hm \div S \in Nat /\ (U + 2 * hm) \div T \in Nat
      BY <1>1, <1>5
    <3>2. PICK q \in Nat : q = hm \div S
      BY <3>1
    <3>3. PICK z \in Nat : z = S * q
      BY <1>1
    <3>4. z <= hm
      <4>1. hm = S * (hm \div S) + (hm % S) /\ hm % S \in 0 .. S - 1
        BY <1>1, DivMod
      <4> QED BY <1>1, <3>2, <3>3, <4>1
    <3>5. PICK p \in Nat : p = (U + 2 * hm) \div T
      BY <3>1
    <3>6. PICK r \in 0 .. T - 1 : U + 2 * hm = T * p + r
      <4>1. U + 2 * hm \in Int
        OBVIOUS
      <4> QED BY <1>5, <3>5, <4>1, DivMod
    <3>7. T * q = 2 * z
      BY <1>1, <1>5, <3>3
    <3>8. T * q <= T * p + r
      BY <3>4, <3>6, <3>7
    <3>9. q <= p
      BY <1>5, <3>8, ProductOrder
    <3> QED BY <3>2, <3>5, <3>9
  <2>5. hm \div S \in Nat /\ (U + 2 * hm) \div T \in Nat
    BY <1>1, <1>5
  <2> QED BY <2>1, <2>2, <2>3, <2>4, <2>5
<1>9. CASE d > H
  <2>1. Corrected(d) = High(d) /\ Corrected(d + 1) = High(d + 1)
    BY <1>1, <1>2, <1>9
  <2>2. PICK e \in Nat : e = d - H
    BY <1>1, <1>9
  <2>3. PICK a \in Nat : a = e * U
    OBVIOUS
  <2>4. (d + 1) - H = e + 1 /\ (e + 1) * U = a + U
    BY <1>1, <2>2, <2>3
  <2>5. High(d) = (a + 2 * hm) \div T
    BY <1>4, <1>5, <1>6, <2>2, <2>3
  <2>6. High(d + 1) = ((a + U) + 2 * hm) \div T
    BY <1>4, <1>5, <1>6, <2>4
  <2>7. (a + 2 * hm) \div T <= ((a + U) + 2 * hm) \div T
    BY <1>5, DivMonotone
  <2>8. (a + 2 * hm) \div T \in Nat /\ ((a + U) + 2 * hm) \div T \in Nat
    BY <1>5
  <2> QED BY <2>1, <2>5, <2>6, <2>7, <2>8
<1> QED BY <1>1, <1>7, <1>8, <1>9

(* The correction does not fall, nor does the curve behind it.             *)
LEMMA Monotone ==
    ASSUME StoreType
    PROVE  ShownMonotone
<1> SUFFICES ASSUME HasRatio, NEW d \in Sensed, d + 1 \in Sensed
             PROVE  IF ProductWraps(Corrected(d + 1))
                    THEN Shown(d + 1) >= AtMost(Start(dy, Last))
                    ELSE Shown(d) <= Shown(d + 1)
  BY DEF ShownMonotone
<1>1. d \in Nat /\ d + 1 \in Nat
  BY SensedAssumption
<1>2. /\ Corrected(d) \in Nat /\ Corrected(d + 1) \in Nat
      /\ Corrected(d) <= Corrected(d + 1)
  <2>1. CASE InEffect = Uncorrected
    BY <1>1, <2>1 DEF Corrected
  <2>2. CASE InEffect # Uncorrected /\ (TooSmall \/ TooLarge)
    BY <2>2 DEF Corrected
  <2>3. CASE InEffect # Uncorrected /\ ~TooSmall /\ ~TooLarge
    BY <1>1, <2>3, InEffectFactored, CorrectedOrder
  <2> QED BY <2>1, <2>2, <2>3
<1> PICK x \in Nat : x = Corrected(d + 1)
  BY <1>2
<1>3. PICK s \in Nat, h \in Nat : s = Start(dx, Last) /\ h = dy[Last]
  <2>1. Last \in 0 .. Last
    BY Tables
  <2> QED BY <2>1, Tables, StartIs, TableAssumption
<1>4. CASE ProductWraps(x)
  <2>1. Start(dx, Last) <= x
    BY <1>3, <1>4, WrapsLate
  <2> QED BY <1>4, <2>1, LastSegment DEF Shown
<1>5. CASE ~ProductWraps(x)
  <2>1. PICK p \in Int : p = (x - s) * h
    OBVIOUS
  <2>2. p < WORD
    BY <1>3, <1>5, <2>1, WordAssumption DEF ProductWraps
  <2>3. (x - Start(dx, Last)) * dy[Last] < WORD
    BY <1>3, <2>1, <2>2
  <2> QED BY <1>2, <1>5, <2>3, CurveOrder DEF Shown
<1> QED BY <1>4, <1>5

(* A target the tables hold goes to a value and back within its segment:   *)
(* the two quotients lose less than what the widths of the segment add up  *)
(* to.                                                                     *)
LEMMA ThereAndBack ==
    ASSUME NEW y \in Nat, InTable(y), NEW i, i = SegmentOf(dy, y)
    PROVE  /\ i \in 0 .. Last
           /\ y - Data2Pm25(Pm252Data(y)) \in Nat
           /\ (y - Data2Pm25(Pm252Data(y))) * dx[i] <= dx[i] + dy[i]
<1>1. Within(dy, i, y) /\ i \in 0 .. Last /\ Last \in Nat
  BY Tables, SegmentWithin DEF Within
<1> PICK m : m = dx[i]
  OBVIOUS
<1> PICK h : h = dy[i]
  OBVIOUS
<1> PICK s : s = Start(dx, i)
  OBVIOUS
<1> PICK b : b = Start(dy, i)
  OBVIOUS
<1>2. m \in Nat /\ m > 0 /\ h \in Nat /\ h > 0
  BY <1>1, TableAssumption
<1>3. /\ s \in Nat /\ b \in Nat /\ b <= y
      /\ Start(dx, i + 1) = s + m /\ Start(dy, i + 1) = b + h
  BY <1>1, Tables, StartIs DEF Within
<1>4. y < b + h
  <2>1. CASE i = Last
    BY <1>3, <2>1 DEF InTable
  <2>2. CASE i # Last
    BY <1>1, <1>3, <2>2 DEF Within
  <2> QED BY <2>1, <2>2
<1>5. PICK a \in Nat : a = y - b /\ a < h
  BY <1>2, <1>3, <1>4
<1>6. PICK am \in Nat : am = a * m
  BY <1>2
<1>7. PICK x \in Nat : x = am \div h
  BY <1>2
<1>8. PICK r \in 0 .. h - 1 : am = h * x + r
  <2>1. am \div h \in Int /\ am % h \in 0 .. h - 1 /\ am = h * (am \div h) + (am % h)
    <3>1. am \in Int
      OBVIOUS
    <3> QED BY <1>2, <3>1, DivMod
  <2> QED BY <1>7, <2>1
<1>9. PICK xh \in Nat : xh = x * h
  BY <1>2
<1>10. am = xh + r
  <2>1. h * x = x * h
    BY <1>2
  <2> QED BY <1>8, <1>9, <2>1
<1>11. x < m
  <2> SUFFICES ASSUME m <= x PROVE FALSE
    BY <1>2
  <2>1. h * m <= h * x
    BY <1>2, ProductGrows
  <2>2. m * (a + 1) <= m * h
    <3>1. a + 1 <= h /\ a + 1 \in Int
      BY <1>2, <1>5
    <3> QED BY <1>2, <3>1, ProductGrows
  <2>3. m * (a + 1) = am + m /\ m * h = h * m /\ h * m \in Nat
    BY <1>2, <1>6
  <2>4. PICK hm \in Nat : hm = h * m
    BY <2>3
  <2>5. hm <= xh /\ am + m <= hm
    <3>1. h * x = x * h
      BY <1>2
    <3> QED BY <1>9, <2>1, <2>2, <2>3, <2>4, <3>1
  <2> QED BY <1>2, <1>10, <2>4, <2>5
<1>12. Pm252Data(y) = s + x
  BY <1>5, <1>6, <1>7 DEF Pm252Data
<1>13. Within(dx, i, s + x)
  BY <1>1, <1>2, <1>3, <1>11 DEF Within
<1>14. Data2Pm25(s + x) = AtMost(Micrograms(s + x, i))
  BY <1>3, <1>13, Data2Pm25Is
<1>15. PICK z \in Nat : z = xh \div m
  BY <1>2
<1>16. PICK t \in 0 .. m - 1 : xh = m * z + t
  <2>1. xh \div m \in Int /\ xh % m \in 0 .. m - 1 /\ xh = m * (xh \div m) + (xh % m)
    <3>1. xh \in Int
      OBVIOUS
    <3> QED BY <1>2, <3>1, DivMod
  <2> QED BY <1>15, <2>1
<1>17. PICK zm \in Nat : zm = z * m /\ xh = zm + t
  <2>1. m * z = z * m /\ z * m \in Nat
    BY <1>2
  <2> QED BY <1>16, <2>1
<1>18. Micrograms(s + x, i) = b + z
  <2>1. x \in 0 .. m - 1
    BY <1>2, <1>11
  <2>2. x * h \in 0 .. WORD - 1
    BY <1>1, <2>1, ProductFits
  <2>3. (x * h) % WORD = x * h
    BY <2>2, WordIs
  <2>4. (s + x) - s = x
    BY <1>3
  <2> QED BY <1>9, <1>15, <2>3, <2>4 DEF Micrograms
<1>19. z <= a
  <2>1. m * z <= m * a + 0 /\ 0 \in 0 .. m - 1
    <3>1. m * z = zm /\ m * a = am
      BY <1>2, <1>6, <1>17
    <3>2. zm <= am
      BY <1>10, <1>17
    <3> QED BY <1>2, <3>1, <3>2
  <2> QED BY <1>2, <2>1, ProductOrder
<1>20. AtMost(b + z) = b + z
  <2>1. b + z <= y
    BY <1>3, <1>5, <1>19
  <2>2. /\ Start(dy, i + 1) <= Start(dy, Last + 1)
        /\ Start(dy, Last + 1) \in Nat
    <3>1. i + 1 \in 0 .. Last + 1 /\ Last + 1 \in 0 .. Last + 1 /\ i + 1 <= Last + 1
      BY <1>1
    <3> QED BY <3>1, Tables, StartGrows
  <2>3. b + z <= MOST
    BY <1>2, <1>3, <1>4, <2>1, <2>2, HeldAssumption, WordAssumption
  <2> QED BY <1>3, <2>3, WordAssumption DEF AtMost
<1>21. PICK off \in Nat : off = a - z
  BY <1>19
<1>22. y - Data2Pm25(Pm252Data(y)) = off
  BY <1>3, <1>5, <1>12, <1>14, <1>18, <1>20, <1>21
<1>23. off * m <= m + h
  <2>1. a = off + z
    BY <1>21
  <2>2. am = off * m + zm /\ off * m \in Nat
    BY <1>2, <1>6, <1>17, <2>1
  <2>3. PICK om \in Nat : om = off * m
    BY <2>2
  <2>4. am = om + zm
    BY <2>2, <2>3
  <2>5. om <= m + h
    BY <1>2, <1>10, <1>17, <2>4
  <2> QED BY <2>3, <2>5
<1> QED BY <1>1, <1>22, <1>23

(* The correction takes the device's reading then to the target's value.   *)
LEMMA ReadsMaster == StoreType => CalibratedReadsMaster
<1> SUFFICES ASSUME StoreType, InEffect # Uncorrected, HasRatio, master = self,
                    ~TooSmall, ~TooLarge, InTable(master[1]),
                    NEW i, i = SegmentOf(dy, master[1])
             PROVE  LET off == master[1] - Shown(SelfCalibrationData)
                    IN  off >= 0 /\ off * dx[i] <= dx[i] + dy[i]
  BY DEF CalibratedReadsMaster
<1> PICK y : y = master[1]
  OBVIOUS
<1> PICK M : M = MasterData
  OBVIOUS
<1> PICK S : S = SelfCalibrationData
  OBVIOUS
<1>1. Factored /\ master \in Reading
  BY InEffectFactored
<1>2. y \in Nat /\ M = Pm252Data(y) /\ InTable(y)
  BY <1>1, ReadingAssumption DEF MasterData
<1>3. M \in Nat /\ S \in Nat /\ S > 0
  <2>1. M \in Nat /\ S \in Nat /\ (M # 0 \/ S # 0) /\ ~(M > 3 * S)
    BY <1>1 DEF Factored, TooLarge
  <2>2. S > 0
    BY <2>1
  <2> QED BY <2>1, <2>2
<1>4. ~(S > HighThreshold)
  BY <1>1, <1>3, HighThresholdIs
<1>5. (S * M) \div S = M
  <2>1. PICK p \in Nat : p = S * M
    BY <1>3
  <2>2. p \div S \in Int /\ p % S \in 0 .. S - 1 /\ p = S * (p \div S) + (p % S)
    BY <1>3, DivMod
  <2>3. S * M + 0 = S * (p \div S) + (p % S) /\ 0 \in 0 .. S - 1
    BY <1>3, <2>1, <2>2
  <2>4. M = p \div S
    BY <1>3, <2>2, <2>3, RemainderUnique
  <2> QED BY <2>1, <2>4
<1>6. Corrected(S) = M
  BY <1>4, <1>5 DEF Corrected, Times
<1>7. /\ y - Data2Pm25(M) \in Nat
      /\ (y - Data2Pm25(M)) * dx[i] <= dx[i] + dy[i]
  BY <1>2, ThereAndBack
<1>8. Shown(SelfCalibrationData) = Data2Pm25(M)
  BY <1>6 DEF Shown
<1> QED BY <1>7, <1>8

(* The pair keeps its type, whatever resets cut.                           *)
LEMMA StoreTyped == SpecStore => []StoreType
<1>1. InitStore => StoreType
  BY DEF InitStore, StoreType, Dword
<1> QED BY <1>1, NextStoreType, PTL DEF SpecStore

(* pm25_set_correction: with a calibration in effect, what the device read *)
(* then is shown as what the master showed, short of it by the widths of   *)
(* the segment at most, for all tables the assumptions allow and every     *)
(* set of calibrations.                                                    *)
THEOREM ReadsAsMaster == SpecStore => []CalibratedReadsMaster
BY StoreTyped, ReadsMaster, PTL

(* Whatever pair interrupted writes left in the EEPROM, more dust is shown *)
(* as less only where data2pm25 wraps, and there as no less than the last  *)
(* segment begins with.                                                    *)
THEOREM MoreShowsAsMore == SpecStore => []ShownMonotone
BY StoreTyped, Monotone, PTL
===============================================================================
