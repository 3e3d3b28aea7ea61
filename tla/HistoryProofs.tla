---------------------------- MODULE HistoryProofs ----------------------------
(***************************************************************************)
(* Proofs about History for every number of slots, every byte width that   *)
(* the ring divides and every set of measurements.                         *)
(***************************************************************************)
EXTENDS History, Sequences, Arithmetic

-------------------------------------------------------------------------------
(* The index arithmetic of the ring.                                       *)

(* The ring is not empty and its indices are bytes.                        *)
LEMMA RingFacts == /\ RING \in Nat /\ RING > 0 /\ RING = 2 * SIZE
                   /\ SIZE \in Nat /\ SIZE > 0
                   /\ BYTE \in Nat /\ BYTE >= RING
<1>1. RING \in Nat /\ RING > 0 /\ RING = 2 * SIZE
  BY SizeAssumption DEF RING
<1>2. BYTE \in Nat /\ BYTE > 0 /\ BYTE % RING = 0
  BY ByteAssumption DEF RING
<1>3. BYTE >= RING
  <2>1. SUFFICES ASSUME BYTE < RING PROVE FALSE
    BY <1>1, <1>2
  <2>2. BYTE \in 0 .. RING - 1 /\ BYTE = RING * 0 + BYTE /\ 0 \in Int /\ BYTE \in Int
    BY <1>1, <1>2, <2>1
  <2>3. BYTE % RING = BYTE
    <3>1. RING \in Nat /\ RING > 0 /\ 0 \in Int
      BY <1>1
    <3> QED BY <2>2, <3>1, ModIs
  <2> QED BY <1>2, <2>3
<1> QED BY <1>1, <1>2, <1>3, SizeAssumption

(* size is at most the mask.                                               *)
LEMMA SizeType ==
    ASSUME NEW w \in Int, NEW r \in Int
    PROVE  Size(w, r) \in 0 .. RING - 1
<1>1. w - r \in Int
  OBVIOUS
<1> QED BY <1>1, RingFacts, DivMod DEF Size

(* Advancing the write index of a ring that is not full adds one entry.    *)
LEMMA SizeAfterCommit ==
    ASSUME NEW w \in Int, NEW r \in Int, Size(w, r) < SIZE
    PROVE  Size((w + 1) % RING, r) = Size(w, r) + 1
<1> DEFINE q == (w + 1) \div RING
           p == (w - r) \div RING
           s == (w - r) % RING
<1>1. w + 1 \in Int /\ w - r \in Int /\ w + 1 - r \in Int
  OBVIOUS
<1>2. /\ q \in Int /\ (w + 1) % RING \in Int
      /\ w + 1 = RING * q + ((w + 1) % RING)
  BY <1>1, RingFacts, DivMod
<1>3. /\ p \in Int /\ s \in 0 .. RING - 1
      /\ w - r = RING * p + s
  BY <1>1, RingFacts, DivMod
<1>4. s + 1 \in 0 .. RING - 1
  BY <1>3, RingFacts DEF Size
<1> HIDE DEF q, p, s
<1>5. RING * (p - q) = RING * p - RING * q
  BY <1>2, <1>3, RingFacts
<1>6. ((w + 1) % RING) - r = RING * (p - q) + (s + 1)
  BY <1>2, <1>3, <1>5, RingFacts
<1>7. (((w + 1) % RING) - r) % RING = s + 1
  <2>1. p - q \in Int /\ ((w + 1) % RING) - r \in Int
    BY <1>2, <1>3
  <2> QED BY <2>1, <1>4, <1>6, RingFacts, ModIs
<1> QED BY <1>7 DEF s, Size

(* Advancing the read index of a ring with entries takes the oldest out.   *)
LEMMA SizeAfterDrop ==
    ASSUME NEW w \in Int, NEW r \in Int, Size(w, r) > 0
    PROVE  Size(w, (r + 1) % RING) = Size(w, r) - 1
<1> DEFINE q == (r + 1) \div RING
           p == (w - r) \div RING
           s == (w - r) % RING
<1>1. r + 1 \in Int /\ w - r \in Int
  OBVIOUS
<1>2. /\ q \in Int /\ (r + 1) % RING \in Int
      /\ r + 1 = RING * q + ((r + 1) % RING)
  BY <1>1, RingFacts, DivMod
<1>3. /\ p \in Int /\ s \in 0 .. RING - 1
      /\ w - r = RING * p + s
  BY <1>1, RingFacts, DivMod
<1>4. s - 1 \in 0 .. RING - 1
  BY <1>3, RingFacts DEF Size
<1> HIDE DEF q, p, s
<1>5. RING * (p + q) = RING * p + RING * q
  BY <1>2, <1>3, RingFacts
<1>6. w - ((r + 1) % RING) = RING * (p + q) + (s - 1)
  BY <1>2, <1>3, <1>5, RingFacts
<1>7. (w - ((r + 1) % RING)) % RING = s - 1
  <2>1. p + q \in Int /\ w - ((r + 1) % RING) \in Int
    BY <1>2, <1>3
  <2> QED BY <2>1, <1>4, <1>6, RingFacts, ModIs
<1> QED BY <1>7 DEF s, Size

(* Reducing an index does not change what it selects, nor the size.        *)
LEMMA SizeReduced ==
    ASSUME NEW w \in Int
    PROVE  Size(w % RING, w) = 0
<1> DEFINE q == w \div RING
<1>1. q \in Int /\ w % RING \in Int /\ w = RING * q + (w % RING)
  BY RingFacts, DivMod
<1> HIDE DEF q
<1>2. RING * (-q) = -(RING * q)
  BY <1>1, RingFacts
<1>3. (w % RING) - w = RING * (-q) + 0
  BY <1>1, <1>2, RingFacts
<1>4. -q \in Int /\ (w % RING) - w \in Int /\ 0 \in 0 .. RING - 1
  BY <1>1, RingFacts
<1> QED BY <1>3, <1>4, RingFacts, ModIs DEF Size

(* Reducing an index to the ring first does not change its slot.           *)
LEMMA SlotReduced ==
    ASSUME NEW w \in Int, NEW d \in Int
    PROVE  SlotOf((w % RING) - d) = SlotOf(w - d)
<1> DEFINE q == w \div RING
<1>1. q \in Int /\ w % RING \in Int /\ w = RING * q + (w % RING)
  BY RingFacts, DivMod
<1> HIDE DEF q
<1>2. SIZE * (2 * q) = RING * q
  BY <1>1, RingFacts
<1>3. w - d = ((w % RING) - d) + SIZE * (2 * q)
  BY <1>1, <1>2, RingFacts
<1>4. 2 * q \in Int /\ (w % RING) - d \in Int
  BY <1>1
<1>5. (((w % RING) - d) + SIZE * (2 * q)) % SIZE = ((w % RING) - d) % SIZE
  BY <1>4, RingFacts, ModShift
<1> QED BY <1>3, <1>5 DEF SlotOf

(* An index selects a slot, and the SIZE - 1 indices before it others.     *)
LEMMA SlotType ==
    ASSUME NEW w \in Int
    PROVE  SlotOf(w) \in Slot
BY RingFacts, DivMod DEF SlotOf, Slot

(* Indices less than a ring's slots apart, and different, select different *)
(* slots.                                                                  *)
LEMMA SlotDiffers ==
    ASSUME NEW w \in Int, NEW d \in 1 .. SIZE - 1
    PROVE  SlotOf(w - d) # SlotOf(w)
BY RingFacts, ModDiffers DEF SlotOf

-------------------------------------------------------------------------------
(* Types.  What history_write writes is the measurement it was called      *)
(* with, and its copies of the indices stay current: nothing else writes   *)
(* them while it runs.                                                     *)

Writing == pc \in {"drop", "time", "data", "commit"}

TypeInv == /\ TypeOK
           /\ Writing => /\ local.rec \in Record
                         /\ local.w = write_index
           /\ pc = "drop" => local.r = read_index

(* The values an index is set to are bytes.                                *)
LEMMA IndexType ==
    ASSUME NEW i \in Int
    PROVE  i % RING \in Byte
<1>1. i % RING \in 0 .. RING - 1
  BY RingFacts, DivMod
<1> QED BY <1>1, RingFacts DEF Byte

(* An entry is read from one of the slots.                                 *)
LEMMA EntryType ==
    ASSUME TypeOK, NEW index \in Int
    PROVE  EntryAt(index) \in Entry
<1>1. write_index - index - 1 \in Int
  BY RingFacts DEF TypeOK, Byte
<1> QED BY <1>1, SlotType DEF TypeOK, EntryAt

(* The EEPROM of a new device and the cleared memory are well typed.       *)
LEMMA InitTypeInv == Init => TypeInv
<1>1. BYTE - 1 \in Byte /\ 0 \in Byte
  BY RingFacts DEF Byte
<1> SUFFICES ASSUME Init PROVE TypeInv
  OBVIOUS
<1>2. slot \in [Slot -> Entry]
  BY DEF Init, Entry, Dword
<1>3. local \in Local
  BY <1>1 DEF Init, Local, NoLocal
<1> QED BY <1>1, <1>2, <1>3 DEF Init, TypeInv, Writing, TypeOK, PC

(* Every EEPROM write, read and reset keeps the types.                     *)
LEMMA NextTypeInv == TypeInv /\ [Next]_vars => TypeInv'
<1> SUFFICES ASSUME TypeInv, [Next]_vars PROVE TypeInv'
  OBVIOUS
<1> USE DEF TypeInv, TypeOK, Writing
<1> Byte \subseteq Int /\ 0 \in Byte /\ BYTE - 1 \in Byte
  BY RingFacts DEF Byte
<1>1. CASE StartClean
  BY <1>1 DEF StartClean, PC, eeprom, ram
<1>2. CASE EraseWriteIndex
  <2>1. (BYTE - 1) % RING \in Byte
    BY IndexType
  <2> QED BY <1>2, <2>1 DEF EraseWriteIndex, PC, ram
<1>3. CASE EraseReadIndex
  BY <1>3 DEF EraseReadIndex, PC, ram
<1>4. ASSUME NEW rec \in Record, WriteBegin(rec) PROVE TypeInv'
  BY <1>4 DEF WriteBegin, PC, Local, eeprom
<1>5. CASE WriteDrop
  <2>1. (local.r + 1) % RING \in Byte
    <3>1. local.r + 1 \in Int
      BY RingFacts DEF Local, Byte
    <3> QED BY <3>1, IndexType
  <2> QED BY <1>5, <2>1 DEF WriteDrop, PC, ram
<1>6. CASE WriteTime
  <2>1. slot' \in [Slot -> Entry]
    BY <1>6 DEF WriteTime, Entry, Dword
  <2> QED BY <1>6, <2>1 DEF WriteTime, PC, ram
<1>7. CASE WriteData
  <2>1. slot' \in [Slot -> Entry]
    BY <1>7 DEF WriteData, Entry, Dword
  <2> QED BY <1>7, <2>1 DEF WriteData, PC, ram
<1>8. CASE WriteCommit
  <2>1. (local.w + 1) % RING \in Byte
    <3>1. local.w + 1 \in Int
      BY RingFacts DEF Local, Byte
    <3> QED BY <3>1, IndexType
  <2> QED BY <1>8, <2>1 DEF WriteCommit, PC, ram
<1>9. ASSUME NEW isfirst \in BOOLEAN, ReadNext(isfirst) PROVE TypeInv'
  <2> DEFINE index == IF isfirst THEN 0 ELSE read_offset
             at    == IF Readable(index) THEN index ELSE 0
  <2>1. at \in Int
    OBVIOUS
  <2>2. EntryAt(at) \in Entry
    BY <2>1, EntryType
  <2>3. (at + 1) % BYTE \in Byte
    <3>1. at + 1 \in Int /\ BYTE > 0
      BY <2>1, RingFacts
    <3> HIDE DEF at
    <3> QED BY <3>1, RingFacts, DivMod DEF Byte
  <2> HIDE DEF at, index
  <2>4. history' \in Entry \cup {NoEntry} /\ read_offset' \in Byte
    BY <1>9, <2>2, <2>3 DEF ReadNext, at, index
  <2> QED BY <1>9, <2>4 DEF ReadNext, eeprom
<1>10. ASSUME NEW by_pin \in BOOLEAN, Reset(by_pin) PROVE TypeInv'
  <2>1. slot' \in [Slot -> Entry]
    BY <1>10 DEF Reset, TornSlots, Entry, Dword
  <2> QED BY <1>10, <2>1 DEF Reset, PC, Local, NoLocal
<1>11. CASE UNCHANGED vars
  BY <1>11 DEF vars
<1> QED BY <1>1, <1>2, <1>3, <1>4, <1>5, <1>6, <1>7, <1>8, <1>9, <1>10, <1>11
        DEF Next

(* The variables of History keep their types, for every ring size, byte    *)
(* width and set of measurements.                                          *)
THEOREM TypeCorrect == Spec => []TypeOK
<1>1. TypeInv => TypeOK
  BY DEF TypeInv
<1> QED BY <1>1, InitTypeInv, NextTypeInv, PTL DEF Spec

-------------------------------------------------------------------------------
(* The ring.  SizeBounded and ReadableWhole are not inductive: they rest on *)
(* the room history_write has made before it touches a slot, and on what it *)
(* has put there before it advances the write index.                        *)

RoomInv ==
    /\ pc = "drop" => CurrentSize = SIZE
    /\ pc \in {"time", "data", "commit"} => CurrentSize < SIZE

NextSlotInv ==
    /\ pc \in {"data", "commit"} => slot[SlotOf(write_index)].time = local.rec
    /\ pc = "commit" => slot[SlotOf(write_index)].data = local.rec

EraseInv ==
    pc = "erase" => cut_erase /\ write_index = (BYTE - 1) % RING

RingInv == /\ SizeBounded
           /\ ReadableWhole
           /\ cut_erase \/ (RoomInv /\ NextSlotInv)
           /\ EraseInv

(* Indices and sizes are numbers.                                          *)
LEMMA Numbers == TypeInv => /\ write_index \in Int
                            /\ read_index \in Int
                            /\ CurrentSize \in 0 .. RING - 1
BY RingFacts, SizeType DEF TypeInv, TypeOK, Byte, CurrentSize

(* A change of the slot that is written next is not readable.              *)
LEMMA NextSlotHidden ==
    ASSUME TypeInv, CurrentSize < SIZE,
           write_index' = write_index, read_index' = read_index,
           \A s \in Slot \ {SlotOf(write_index)} : slot'[s] = slot[s]
    PROVE  \A index \in 0 .. CurrentSize - 1 : EntryAt(index)' = EntryAt(index)
<1> TAKE index \in 0 .. CurrentSize - 1
<1>1. write_index \in Int /\ CurrentSize \in Int
  BY Numbers
<1>2. /\ index + 1 \in 1 .. SIZE - 1
      /\ write_index - index - 1 = write_index - (index + 1)
      /\ write_index - (index + 1) \in Int
  BY <1>1, RingFacts
<1>3. SlotOf(write_index - (index + 1)) \in Slot \ {SlotOf(write_index)}
  BY <1>1, <1>2, SlotDiffers, SlotType
<1> QED BY <1>2, <1>3 DEF EntryAt

(* An EEPROM that was never written holds equal indices.                   *)
LEMMA InitSize == Init => CurrentSize = 0
<1> SUFFICES ASSUME Init PROVE CurrentSize = 0
  OBVIOUS
<1>1. BYTE - 1 \in Int /\ BYTE - 1 - (BYTE - 1) = RING * 0 + 0
  BY RingFacts
<1>2. 0 \in Int /\ 0 \in 0 .. RING - 1 /\ BYTE - 1 - (BYTE - 1) \in Int
  BY RingFacts
<1>3. (BYTE - 1 - (BYTE - 1)) % RING = 0
  BY <1>1, <1>2, RingFacts, ModIs
<1> QED BY <1>3 DEF Init, CurrentSize, Size

(* An EEPROM that was never written is an empty ring.                      *)
LEMMA InitRingInv == Init => RingInv
<1> SUFFICES ASSUME Init PROVE RingInv
  OBVIOUS
<1>1. CurrentSize = 0
  BY InitSize
<1> QED BY <1>1, RingFacts DEF Init, RingInv, SizeBounded, ReadableWhole,
                              RoomInv, NextSlotInv, EraseInv

(* Every step keeps the ring: only history_write moves its indices, in an  *)
(* order that never makes a slot readable before it is whole.              *)
LEMMA NextRingInv == TypeInv /\ RingInv /\ [Next]_vars => RingInv'
<1> SUFFICES ASSUME TypeInv, RingInv, [Next]_vars PROVE RingInv'
  OBVIOUS
<1> DEFINE Room == RoomInv /\ NextSlotInv
<1> USE DEF RingInv
<1>0. /\ write_index \in Int /\ read_index \in Int /\ CurrentSize \in 0 .. RING - 1
      /\ RING \in Nat /\ RING > 0 /\ SIZE \in Nat /\ SIZE > 0
      /\ cut_erase \in BOOLEAN
  BY Numbers, RingFacts DEF TypeInv, TypeOK
(* Steps that touch neither the ring nor the write in progress.            *)
<1>a. ASSUME UNCHANGED <<eeprom, cut_erase>>,
             pc' \in {"boot", "idle"}
      PROVE  RingInv'
  BY <1>a DEF eeprom, SizeBounded, ReadableWhole, CurrentSize, EntryAt,
              RoomInv, NextSlotInv, EraseInv
(* Steps of history_write, or a reset in one, that change the next slot.   *)
<1>b. ASSUME UNCHANGED <<write_index, read_index, cut_erase>>,
             pc \in {"time", "data"}, pc' \in {"data", "commit", "boot"},
             \A s \in Slot \ {SlotOf(write_index)} : slot'[s] = slot[s],
             cut_erase \/ NextSlotInv'
      PROVE  RingInv'
  <2>1. CurrentSize' = CurrentSize
    BY <1>b DEF CurrentSize
  <2>2. CASE cut_erase
    BY <1>b, <2>2 DEF SizeBounded, ReadableWhole, EraseInv
  <2>3. CASE ~cut_erase
    <3>1. CurrentSize < SIZE
      BY <1>b, <2>3 DEF RoomInv
    <3>2. \A index \in 0 .. CurrentSize - 1 : EntryAt(index)' = EntryAt(index)
      BY <1>b, <3>1, NextSlotHidden
    <3> QED BY <1>0, <1>b, <2>1, <2>3, <3>1, <3>2
            DEF SizeBounded, ReadableWhole, RoomInv, EraseInv
  <2> QED BY <2>2, <2>3
<1>1. CASE StartClean
  BY <1>1, <1>a DEF StartClean
<1>2. CASE EraseWriteIndex
  BY <1>2 DEF EraseWriteIndex, SizeBounded, ReadableWhole, EraseInv
<1>3. CASE EraseReadIndex
  <2>1. CurrentSize' = 0
    <3>1. BYTE - 1 \in Int
      BY RingFacts
    <3> QED BY <1>3, <3>1, SizeReduced DEF EraseReadIndex, EraseInv, CurrentSize
  <2> QED BY <1>0, <1>3, <2>1 DEF EraseReadIndex, SizeBounded, ReadableWhole,
                                  RoomInv, NextSlotInv, EraseInv
<1>4. ASSUME NEW rec \in Record, WriteBegin(rec) PROVE RingInv'
  <2>1. CurrentSize' = CurrentSize /\ \A index : EntryAt(index)' = EntryAt(index)
    BY <1>4 DEF WriteBegin, eeprom, CurrentSize, EntryAt
  <2>2. cut_erase \/ (RoomInv /\ NextSlotInv)'
    BY <1>0, <1>4, <2>1 DEF WriteBegin, CurrentSize, RoomInv, NextSlotInv, SizeBounded
  <2> QED BY <1>4, <2>1, <2>2 DEF WriteBegin, SizeBounded, ReadableWhole, EraseInv
<1>5. CASE WriteDrop
  <2>1. CASE cut_erase
    BY <1>5, <2>1 DEF WriteDrop, SizeBounded, ReadableWhole, EraseInv
  <2>2. CASE ~cut_erase
    <3>1. CurrentSize = SIZE /\ CurrentSize' = SIZE - 1
      <4>1. CurrentSize = SIZE
        BY <1>5, <2>2 DEF WriteDrop, RoomInv
      <4>2. local.r = read_index
        BY <1>5 DEF WriteDrop, TypeInv
      <4> QED BY <1>0, <1>5, <4>1, <4>2, SizeAfterDrop DEF WriteDrop, CurrentSize
    <3>2. \A index : EntryAt(index)' = EntryAt(index)
      BY <1>5 DEF WriteDrop, EntryAt
    <3> QED BY <1>0, <1>5, <2>2, <3>1, <3>2
            DEF WriteDrop, SizeBounded, ReadableWhole, RoomInv, NextSlotInv, EraseInv
  <2> QED BY <2>1, <2>2
<1>6. CASE WriteTime
  <2>1. /\ write_index' = write_index /\ read_index' = read_index
        /\ \A s \in Slot \ {SlotOf(write_index)} : slot'[s] = slot[s]
    BY <1>6 DEF WriteTime, TypeInv, TypeOK, Writing
  <2>2. slot'[SlotOf(write_index)].time = local.rec
    BY <1>0, <1>6, SlotType DEF WriteTime, TypeInv, TypeOK, Writing, Entry
  <2>3. NextSlotInv'
    BY <1>6, <2>1, <2>2 DEF WriteTime, NextSlotInv, ram
  <2> QED BY <1>6, <2>1, <2>3, <1>b DEF WriteTime
<1>7. CASE WriteData
  <2>1. /\ write_index' = write_index /\ read_index' = read_index
        /\ \A s \in Slot \ {SlotOf(write_index)} : slot'[s] = slot[s]
    BY <1>7 DEF WriteData, TypeInv, TypeOK, Writing
  <2>2. /\ slot'[SlotOf(write_index)].time = slot[SlotOf(write_index)].time
        /\ slot'[SlotOf(write_index)].data = local.rec
    BY <1>0, <1>7, SlotType DEF WriteData, TypeInv, TypeOK, Writing, Entry
  <2>3. ~cut_erase => slot[SlotOf(write_index)].time = local.rec
    BY <1>7 DEF WriteData, NextSlotInv
  <2>4. cut_erase \/ NextSlotInv'
    BY <1>7, <2>1, <2>2, <2>3 DEF WriteData, NextSlotInv, ram
  <2> QED BY <1>7, <2>1, <2>4, <1>b DEF WriteData
<1>8. CASE WriteCommit
  <2>1. CASE cut_erase
    BY <1>8, <2>1 DEF WriteCommit, SizeBounded, ReadableWhole, EraseInv
  <2>2. CASE ~cut_erase
    <3> DEFINE w == write_index
    <3>1. /\ write_index' = (w + 1) % RING /\ slot' = slot
          /\ CurrentSize < SIZE
          /\ local.rec \in Record
          /\ slot[SlotOf(w)].time = local.rec
          /\ slot[SlotOf(w)].data = local.rec
      BY <1>8, <2>2 DEF WriteCommit, RoomInv, NextSlotInv, TypeInv, Writing
    <3>2. CurrentSize' = CurrentSize + 1
      BY <1>0, <1>8, <3>1, SizeAfterCommit DEF WriteCommit, CurrentSize
    <3>3. ASSUME NEW index \in 0 .. CurrentSize PROVE Whole(EntryAt(index)')
      <4>1. EntryAt(index)' = slot[SlotOf(w - index)]
        <5>1. w + 1 \in Int /\ index + 1 \in Int /\ (w + 1) % RING \in Int
          BY <1>0, DivMod
        <5>2. SlotOf(((w + 1) % RING) - (index + 1)) = SlotOf((w + 1) - (index + 1))
          BY <5>1, SlotReduced
        <5>3. /\ ((w + 1) % RING) - index - 1 = ((w + 1) % RING) - (index + 1)
              /\ (w + 1) - (index + 1) = w - index
          BY <1>0, <5>1
        <5> QED BY <3>1, <5>2, <5>3 DEF EntryAt
      <4>2. CASE index = 0
        <5>1. w - index = w
          BY <1>0, <4>2
        <5> QED BY <3>1, <4>1, <5>1 DEF Whole
      <4>3. CASE index # 0
        <5>1. index - 1 \in 0 .. CurrentSize - 1 /\ w - (index - 1) - 1 = w - index
          BY <1>0, <4>3
        <5>2. Whole(EntryAt(index - 1))
          BY <2>2, <5>1 DEF ReadableWhole
        <5> QED BY <4>1, <5>1, <5>2 DEF EntryAt
      <4> QED BY <4>2, <4>3
    <3>4. ReadableWhole'
      BY <1>0, <3>2, <3>3 DEF ReadableWhole, Whole
    <3> QED BY <1>0, <1>8, <3>1, <3>2, <3>4
            DEF WriteCommit, SizeBounded, RoomInv, NextSlotInv, EraseInv
  <2> QED BY <2>1, <2>2
<1>9. ASSUME NEW isfirst \in BOOLEAN, ReadNext(isfirst) PROVE RingInv'
  BY <1>9, <1>a DEF ReadNext
<1>10. ASSUME NEW by_pin \in BOOLEAN, Reset(by_pin) PROVE RingInv'
  <2>1. CASE pc \in {"time", "data"}
    <3>1. \A s \in Slot \ {SlotOf(write_index)} : slot'[s] = slot[s]
      BY <1>10, <2>1 DEF Reset, TornSlots, TypeInv, TypeOK, Writing
    <3>2. NextSlotInv'
      BY <1>10 DEF Reset, NextSlotInv
    <3> QED BY <1>10, <2>1, <3>1, <3>2, <1>b DEF Reset
  <2>2. CASE pc \notin {"time", "data"}
    <3>1. UNCHANGED <<eeprom, cut_erase>>
      BY <1>10, <2>2 DEF Reset, TornSlots, eeprom
    <3> QED BY <1>10, <3>1, <1>a DEF Reset
  <2> QED BY <2>1, <2>2
<1>11. CASE UNCHANGED vars
  BY <1>11 DEF vars, SizeBounded, ReadableWhole, CurrentSize, EntryAt,
               RoomInv, NextSlotInv, EraseInv
<1> QED BY <1>1, <1>2, <1>3, <1>4, <1>5, <1>6, <1>7, <1>8, <1>9, <1>10, <1>11
        DEF Next

(* The ring never describes more entries than it has slots, wherever       *)
(* resets and power losses fall, until an erase is cut short.              *)
THEOREM RingBounded == Spec => []SizeBounded
<1>1. RingInv => SizeBounded
  BY DEF RingInv
<1> QED BY <1>1, InitTypeInv, NextTypeInv, InitRingInv, NextRingInv, PTL DEF Spec

(* And every entry that can be read back is one that history_write was     *)
(* given, time and data.                                                   *)
THEOREM EntriesWhole == Spec => []ReadableWhole
<1>1. RingInv => ReadableWhole
  BY DEF RingInv
<1> QED BY <1>1, InitTypeInv, NextTypeInv, InitRingInv, NextRingInv, PTL DEF Spec

(* The number of saved entries shrinks only when a full ring gives up its  *)
(* oldest one to make room, and then by that one.                          *)
THEOREM LosesOnlyOldest == Spec => DropsOnlyWhenFull
<1> DEFINE A == (CurrentSize' < CurrentSize /\ ~cut_erase /\ ~cut_erase') =>
                   /\ pc = "drop"
                   /\ CurrentSize = SIZE
                   /\ CurrentSize' = SIZE - 1
<1>1. TypeInv /\ RingInv /\ [Next]_vars => [A]_vars
  <2> SUFFICES ASSUME TypeInv, RingInv, Next, ~cut_erase, ~cut_erase',
                      CurrentSize' < CurrentSize
               PROVE  A
    BY DEF vars
  <2>0. /\ write_index \in Int /\ read_index \in Int /\ CurrentSize \in 0 .. RING - 1
        /\ RING \in Nat /\ SIZE \in Nat /\ SIZE > 0
    BY Numbers, RingFacts
  <2>a. ASSUME UNCHANGED <<write_index, read_index>> PROVE FALSE
    BY <2>0, <2>a DEF CurrentSize
  <2>1. CASE StartClean
    BY <2>1, <2>a DEF StartClean, eeprom
  <2>2. CASE EraseWriteIndex
    BY <2>2 DEF EraseWriteIndex
  <2>3. CASE EraseReadIndex
    BY <2>3 DEF EraseReadIndex, RingInv, EraseInv
  <2>4. ASSUME NEW rec \in Record, WriteBegin(rec) PROVE A
    BY <2>4, <2>a DEF WriteBegin, eeprom
  <2>5. CASE WriteDrop
    <3>1. CurrentSize = SIZE /\ local.r = read_index /\ pc = "drop"
      BY <2>5 DEF WriteDrop, RingInv, RoomInv, TypeInv
    <3>2. CurrentSize' = SIZE - 1
      BY <2>0, <2>5, <3>1, SizeAfterDrop DEF WriteDrop, CurrentSize
    <3> QED BY <3>1, <3>2
  <2>6. CASE WriteTime
    BY <2>6, <2>a DEF WriteTime
  <2>7. CASE WriteData
    BY <2>7, <2>a DEF WriteData
  <2>8. CASE WriteCommit
    <3>1. CurrentSize < SIZE /\ local.w = write_index
      BY <2>8 DEF WriteCommit, RingInv, RoomInv, TypeInv, Writing
    <3>2. CurrentSize' = CurrentSize + 1
      BY <2>0, <2>8, <3>1, SizeAfterCommit DEF WriteCommit, CurrentSize
    <3> QED BY <2>0, <3>2
  <2>9. ASSUME NEW isfirst \in BOOLEAN, ReadNext(isfirst) PROVE A
    BY <2>9, <2>a DEF ReadNext, eeprom
  <2>10. ASSUME NEW by_pin \in BOOLEAN, Reset(by_pin) PROVE A
    BY <2>10, <2>a DEF Reset
  <2> QED BY <2>1, <2>2, <2>3, <2>4, <2>5, <2>6, <2>7, <2>8, <2>9, <2>10 DEF Next
<1> QED BY <1>1, InitTypeInv, NextTypeInv, InitRingInv, NextRingInv, PTL
        DEF Spec, DropsOnlyWhenFull

-------------------------------------------------------------------------------
(* Refinement.                                                             *)

(* Sequences of the same length with the same elements are the same.       *)
LEMMA SeqEqual ==
    ASSUME NEW S, NEW s \in Seq(S), NEW t \in Seq(S), Len(s) = Len(t),
           \A n \in 1 .. Len(s) : s[n] = t[n]
    PROVE  s = t
OBVIOUS

(* The log the ring stands for is a sequence of entries, its size long.    *)
StoredOK == /\ Stored \in Seq(Entry)
            /\ Len(Stored) = CurrentSize
            /\ CurrentSize \in Nat
            /\ \A n \in 1 .. CurrentSize : Stored[n] = EntryAt(CurrentSize - n)

LEMMA StoredType == TypeInv => StoredOK
<1> SUFFICES ASSUME TypeInv PROVE StoredOK
  OBVIOUS
<1>1. CurrentSize \in Nat
  BY Numbers, RingFacts
<1>2. \A n \in 1 .. CurrentSize : EntryAt(CurrentSize - n) \in Entry
  BY <1>1, EntryType DEF TypeInv
<1> QED BY <1>1, <1>2 DEF Stored, StoredOK

(* A step that changes neither the size nor an entry that can be read back *)
(* leaves the log as it is.                                                *)
LEMMA StoredSame ==
    ASSUME TypeInv, TypeInv', CurrentSize' = CurrentSize,
           \A index \in 0 .. CurrentSize - 1 : EntryAt(index)' = EntryAt(index)
    PROVE  Stored' = Stored
<1>1. StoredOK /\ StoredOK'
  BY StoredType, PTL
<1>2. \A n \in 1 .. CurrentSize : Stored'[n] = Stored[n]
  <2> TAKE n \in 1 .. CurrentSize
  <2>1. CurrentSize - n \in 0 .. CurrentSize - 1
    BY <1>1 DEF StoredOK
  <2>2. EntryAt(CurrentSize - n)' = EntryAt(CurrentSize - n)
    BY <2>1
  <2> QED BY <1>1, <2>2 DEF StoredOK
<1> QED BY <1>1, <1>2, SeqEqual DEF StoredOK

(* An empty ring is an empty log.                                          *)
LEMMA StoredEmpty == CurrentSize = 0 => Stored = <<>>
BY DEF Stored

(* Before the write index is advanced nothing that is written shows.       *)
LEMMA WriteHidden ==
    ASSUME TypeInv, TypeInv', RingInv, ~cut_erase,
           write_index' = write_index, read_index' = read_index,
           slot' = slot \/
               (pc \in {"time", "data"}
                   /\ \A s \in Slot \ {SlotOf(write_index)} : slot'[s] = slot[s])
    PROVE  Stored' = Stored
<1>1. CurrentSize' = CurrentSize
  BY DEF CurrentSize
<1>2. CASE slot' = slot
  <2>1. \A index : EntryAt(index)' = EntryAt(index)
    BY <1>2 DEF EntryAt
  <2> QED BY <1>1, <2>1, StoredSame
<1>3. CASE /\ pc \in {"time", "data"}
           /\ \A s \in Slot \ {SlotOf(write_index)} : slot'[s] = slot[s]
  <2>1. CurrentSize < SIZE
    BY <1>3 DEF RingInv, RoomInv
  <2>2. \A index \in 0 .. CurrentSize - 1 : EntryAt(index)' = EntryAt(index)
    BY <1>3, <2>1, NextSlotHidden
  <2> QED BY <1>1, <2>2, StoredSame
<1> QED BY <1>2, <1>3

(* Giving the oldest entry up takes the head of the log.                   *)
LEMMA DropIsTail ==
    ASSUME TypeInv, TypeInv', RingInv, ~cut_erase, WriteDrop
    PROVE  Len(Stored) = SIZE /\ Stored' = Tail(Stored)
<1>1. StoredOK /\ StoredOK'
  BY StoredType, PTL
<1>2. CurrentSize = SIZE /\ local.r = read_index
  BY DEF WriteDrop, RingInv, RoomInv, TypeInv
<1>3. CurrentSize' = SIZE - 1
  <2>1. write_index \in Int /\ read_index \in Int /\ SIZE \in Nat /\ SIZE > 0
    BY Numbers, RingFacts
  <2> QED BY <1>2, <2>1, SizeAfterDrop DEF WriteDrop, CurrentSize
<1>4. \A index : EntryAt(index)' = EntryAt(index)
  BY DEF WriteDrop, EntryAt
<1>5. /\ Tail(Stored) \in Seq(Entry)
      /\ Len(Tail(Stored)) = SIZE - 1
      /\ \A n \in 1 .. SIZE - 1 : Tail(Stored)[n] = Stored[n + 1]
  BY <1>1, <1>2, RingFacts DEF StoredOK
<1>6. \A n \in 1 .. SIZE - 1 : Stored'[n] = Stored[n + 1]
  <2> TAKE n \in 1 .. SIZE - 1
  <2>1. /\ n + 1 \in 1 .. SIZE /\ SIZE - (n + 1) = SIZE - 1 - n
    BY RingFacts
  <2>2. Stored[n + 1] = EntryAt(SIZE - 1 - n)
    BY <1>1, <1>2, <2>1 DEF StoredOK
  <2>3. Stored'[n] = EntryAt(CurrentSize - n)'
    BY <1>1, <1>3 DEF StoredOK
  <2>4. EntryAt(CurrentSize - n)' = EntryAt(SIZE - 1 - n)
    BY <1>3 DEF WriteDrop, EntryAt
  <2> QED BY <2>2, <2>3, <2>4
<1>7. Stored' \in Seq(Entry) /\ Len(Stored') = SIZE - 1
  BY <1>1, <1>3 DEF StoredOK
<1>8. Stored' = Tail(Stored)
  BY <1>5, <1>6, <1>7, SeqEqual
<1> QED BY <1>1, <1>2, <1>8 DEF StoredOK

(* Advancing the write index appends the measurement that was written.     *)
LEMMA CommitAppends ==
    ASSUME TypeInv, TypeInv', RingInv, ~cut_erase, WriteCommit
    PROVE  /\ Len(Stored) < SIZE
           /\ local.rec \in Record
           /\ Stored' = Append(Stored, [time |-> local.rec, data |-> local.rec])
<1> DEFINE w == write_index
           e == [time |-> local.rec, data |-> local.rec]
<1>1. StoredOK /\ StoredOK'
  BY StoredType, PTL
<1>2. /\ w \in Int /\ read_index \in Int /\ CurrentSize \in Nat
      /\ RING \in Nat /\ RING > 0
  BY Numbers, RingFacts
<1>3. /\ write_index' = (w + 1) % RING /\ slot' = slot
      /\ CurrentSize < SIZE
      /\ local.rec \in Record
      /\ slot[SlotOf(w)].time = local.rec
      /\ slot[SlotOf(w)].data = local.rec
  BY DEF WriteCommit, RingInv, RoomInv, NextSlotInv, TypeInv, Writing
<1>4. CurrentSize' = CurrentSize + 1
  BY <1>2, <1>3, SizeAfterCommit DEF WriteCommit, CurrentSize
<1>5. slot[SlotOf(w)] = e /\ e \in Entry
  <2>1. slot[SlotOf(w)] \in Entry
    BY <1>2, SlotType DEF TypeInv, TypeOK
  <2> QED BY <1>3, <2>1 DEF Entry, Dword
<1>6. /\ Append(Stored, e) \in Seq(Entry)
      /\ Len(Append(Stored, e)) = CurrentSize + 1
      /\ Append(Stored, e)[CurrentSize + 1] = e
      /\ \A n \in 1 .. CurrentSize : Append(Stored, e)[n] = Stored[n]
  <2> HIDE DEF e
  <2> QED BY <1>1, <1>5 DEF StoredOK
<1>7. Stored' \in Seq(Entry) /\ Len(Stored') = CurrentSize + 1
  BY <1>1, <1>4 DEF StoredOK
<1>8. ASSUME NEW n \in 1 .. CurrentSize + 1
      PROVE  Stored'[n] = slot[SlotOf(w - (CurrentSize + 1 - n))]
  <2> DEFINE index == CurrentSize + 1 - n
  <2>1. Stored'[n] = EntryAt(CurrentSize - n)'
    BY <1>1, <1>4 DEF StoredOK
  <2>2. EntryAt(CurrentSize - n)' = slot[SlotOf(((w + 1) % RING) - index - 1)]
    BY <1>2, <1>3, <1>4 DEF EntryAt
  <2>3. index \in Int /\ index + 1 \in Int /\ (w + 1) % RING \in Int /\ w + 1 \in Int
    BY <1>2, DivMod
  <2>4. SlotOf(((w + 1) % RING) - (index + 1)) = SlotOf((w + 1) - (index + 1))
    BY <2>3, SlotReduced
  <2> HIDE DEF index
  <2>5. /\ ((w + 1) % RING) - index - 1 = ((w + 1) % RING) - (index + 1)
        /\ (w + 1) - (index + 1) = w - index
    BY <1>2, <2>3
  <2>6. Stored'[n] = slot[SlotOf(w - index)]
    BY <2>1, <2>2, <2>4, <2>5
  <2> QED BY <2>6 DEF index
<1>9. \A n \in 1 .. CurrentSize + 1 : Stored'[n] = Append(Stored, e)[n]
  <2> TAKE n \in 1 .. CurrentSize + 1
  <2>1. CASE n = CurrentSize + 1
    <3>1. w - (CurrentSize + 1 - n) = w
      BY <1>2, <2>1
    <3> HIDE DEF e
    <3> QED BY <1>5, <1>6, <1>8, <2>1, <3>1
  <2>2. CASE n # CurrentSize + 1
    <3>1. /\ n \in 1 .. CurrentSize
          /\ w - (CurrentSize + 1 - n) = w - (CurrentSize - n) - 1
      BY <1>2, <2>2
    <3>2. Stored[n] = slot[SlotOf(w - (CurrentSize - n) - 1)]
      BY <1>1, <3>1 DEF StoredOK, EntryAt
    <3> HIDE DEF e
    <3> QED BY <1>6, <1>8, <3>1, <3>2
  <2> QED BY <2>1, <2>2
<1> HIDE DEF e
<1>10. Stored' = Append(Stored, e)
  BY <1>6, <1>7, <1>9, SeqEqual
<1> QED BY <1>1, <1>3, <1>10 DEF StoredOK, e

(* Showing the next entry shows what the log says, and counts it.          *)
LEMMA ReadIsLogRead ==
    ASSUME TypeInv, RingInv, ~cut_erase,
           NEW isfirst \in BOOLEAN, ReadNext(isfirst)
    PROVE  LET at == IF isfirst THEN 0 ELSE read_offset
               k  == IF at < Len(Stored) THEN at ELSE 0
           IN  \/ Stored = <<>> /\ read_offset' = 0 /\ history' = history
               \/ /\ Stored # <<>>
                  /\ history' = Stored[Len(Stored) - k]
                  /\ read_offset' = k + 1
<1>1. StoredOK
  BY StoredType
<1>2. /\ CurrentSize \in Nat /\ CurrentSize <= SIZE /\ SIZE \in Nat
      /\ SIZE < BYTE /\ BYTE \in Nat /\ read_offset \in Nat
  BY <1>1, RingFacts DEF StoredOK, RingInv, SizeBounded, TypeInv, TypeOK, Byte
<1>3. PICK at \in Nat : at = IF isfirst THEN 0 ELSE read_offset
  BY <1>2
<1>4. PICK k \in Nat : k = IF at < CurrentSize THEN at ELSE 0
  BY <1>3
<1>5. \A i \in Nat : Readable(i) <=> i < CurrentSize
  BY DEF Readable, CurrentSize
<1>6. \/ /\ k < CurrentSize
         /\ history' = EntryAt(k)
         /\ read_offset' = (k + 1) % BYTE
      \/ /\ ~(k < CurrentSize)
         /\ read_offset' = 0
         /\ history' = history
  BY <1>3, <1>4, <1>5 DEF ReadNext
<1>7. CASE k < CurrentSize
  <2>1. (k + 1) % BYTE = k + 1
    <3>1. k + 1 \in 0 .. BYTE - 1 /\ k + 1 = BYTE * 0 + (k + 1) /\ BYTE > 0
      BY <1>2, <1>7
    <3> QED BY <1>2, <3>1, ModIs
  <2>2. /\ CurrentSize - k \in 1 .. CurrentSize
        /\ CurrentSize - (CurrentSize - k) = k
    BY <1>2, <1>7
  <2>3. Stored[CurrentSize - k] = EntryAt(k)
    BY <1>1, <2>2 DEF StoredOK
  <2>4. Stored # <<>>
    BY <1>1, <1>7 DEF StoredOK
  <2> QED BY <1>1, <1>3, <1>4, <1>6, <1>7, <2>1, <2>3, <2>4 DEF StoredOK
<1>8. CASE ~(k < CurrentSize)
  <2>1. CurrentSize = 0
    BY <1>2, <1>4, <1>8
  <2> QED BY <1>6, <1>8, <2>1, StoredEmpty
<1> QED BY <1>7, <1>8

(* Every step of the ring is a step of the log or changes nothing of it.   *)
LEMMA StepOfRing ==
    /\ TypeInv /\ RingInv /\ TypeInv' /\ RingInv'
    /\ [Next]_vars
    => [Log!Next]_(Log!vars)
<1> SUFFICES ASSUME TypeInv, RingInv, TypeInv', RingInv', [Next]_vars
             PROVE  [Log!Next]_(Log!vars)
  OBVIOUS
<1> USE DEF Log!Next, Log!vars
<1>0. cut_erase \in BOOLEAN
  BY DEF TypeInv, TypeOK
(* Steps that nobody sees.                                                 *)
<1>a. ASSUME UNCHANGED <<cut_erase, read_offset, history>>,
             pc # "erase", pc' # "erase",
             ~cut_erase => Stored' = Stored
      PROVE  UNCHANGED Log!vars
  BY <1>0, <1>a
<1>b. ASSUME UNCHANGED <<eeprom, cut_erase, read_offset, history>>,
             pc # "erase", pc' # "erase"
      PROVE  UNCHANGED Log!vars
  <2>1. ~cut_erase => Stored' = Stored
    BY <1>b, WriteHidden DEF eeprom
  <2> QED BY <1>a, <1>b, <2>1
<1>1. CASE StartClean
  BY <1>1, <1>b DEF StartClean, ram
<1>2. CASE EraseWriteIndex
  <2>1. Log!Erase
    BY <1>2 DEF EraseWriteIndex, ram, Log!Erase
  <2> QED BY <2>1
<1>3. CASE EraseReadIndex
  <2>1. CurrentSize' = 0
    <3>1. BYTE - 1 \in Int
      BY RingFacts
    <3> QED BY <1>3, <3>1, SizeReduced DEF EraseReadIndex, RingInv, EraseInv, CurrentSize
  <2>2. Stored' = <<>>
    BY <2>1 DEF Stored
  <2>3. cut_erase
    BY <1>3 DEF EraseReadIndex, RingInv, EraseInv
  <2> QED BY <1>3, <2>2, <2>3 DEF EraseReadIndex, ram
<1>4. ASSUME NEW rec \in Record, WriteBegin(rec) PROVE UNCHANGED Log!vars
  BY <1>4, <1>b DEF WriteBegin
<1>5. CASE WriteDrop
  <2>1. CASE cut_erase
    BY <1>5, <1>a, <2>1 DEF WriteDrop, ram
  <2>2. CASE ~cut_erase
    <3>1. Len(Stored) = SIZE /\ Stored' = Tail(Stored)
      BY <1>5, <2>2, DropIsTail
    <3>2. Log!GiveUpOldest
      BY <1>5, <2>2, <3>1 DEF WriteDrop, ram, Log!GiveUpOldest
    <3> QED BY <3>2
  <2> QED BY <2>1, <2>2
<1>6. CASE WriteTime
  <2>1. ~cut_erase => Stored' = Stored
    BY <1>6, WriteHidden DEF WriteTime, TypeInv, TypeOK, Writing
  <2> QED BY <1>6, <1>a, <2>1 DEF WriteTime, ram
<1>7. CASE WriteData
  <2>1. ~cut_erase => Stored' = Stored
    BY <1>7, WriteHidden DEF WriteData, TypeInv, TypeOK, Writing
  <2> QED BY <1>7, <1>a, <2>1 DEF WriteData, ram
<1>8. CASE WriteCommit
  <2>1. CASE cut_erase
    BY <1>8, <1>a, <2>1 DEF WriteCommit, ram
  <2>2. CASE ~cut_erase
    <3> DEFINE e == [time |-> local.rec, data |-> local.rec]
    <3>1. /\ Len(Stored) < SIZE
          /\ local.rec \in Record
          /\ Stored' = Append(Stored, e)
      BY <1>8, <2>2, CommitAppends
    <3>2. e \in {[time |-> rec, data |-> rec] : rec \in Record}
      BY <3>1
    <3> HIDE DEF e
    <3>3. Log!Save(e)
      BY <1>8, <2>2, <3>1 DEF WriteCommit, ram, Log!Save
    <3> QED BY <3>2, <3>3
  <2> QED BY <2>1, <2>2
<1>9. ASSUME NEW isfirst \in BOOLEAN, ReadNext(isfirst)
      PROVE  Log!Next
  <2>0. /\ pc = "idle" /\ pc' = pc /\ cut_erase' = cut_erase
        /\ UNCHANGED eeprom
    BY <1>9 DEF ReadNext
  <2>1. CASE cut_erase
    BY <2>0, <2>1 DEF Log!Unspecified
  <2>2. CASE ~cut_erase
    <3>1. Stored' = Stored
      BY <2>0, <2>2, WriteHidden DEF eeprom
    <3>2. Log!ReadNext(isfirst)
      BY <1>9, <2>0, <2>2, <3>1, ReadIsLogRead DEF Log!ReadNext, Log!Read
    <3> QED BY <3>2
  <2> QED BY <2>1, <2>2
<1>10. ASSUME NEW by_pin \in BOOLEAN, Reset(by_pin) PROVE Log!Next
  <2>1. /\ read_offset' = 0 /\ history' = NoEntry /\ pc' = "boot"
        /\ UNCHANGED <<write_index, read_index, cut_erase>>
    BY <1>10 DEF Reset
  <2>2. ~cut_erase => Stored' = Stored
    <3>1. slot' = slot \/
               (pc \in {"time", "data"}
                   /\ \A s \in Slot \ {SlotOf(write_index)} : slot'[s] = slot[s])
      BY <1>10 DEF Reset, TornSlots, TypeInv, TypeOK, Writing
    <3> QED BY <2>1, <3>1, WriteHidden
  <2>3. Log!Reset
    BY <1>0, <2>1, <2>2 DEF Log!Reset
  <2> QED BY <2>3
<1>11. CASE UNCHANGED vars
  <2>1. ~cut_erase => Stored' = Stored
    BY <1>11, WriteHidden DEF vars
  <2> QED BY <1>11, <2>1 DEF vars
<1> QED BY <1>1, <1>2, <1>3, <1>4, <1>5, <1>6, <1>7, <1>8, <1>9, <1>10, <1>11
        DEF Next

(* The two index bytes and the slots in the EEPROM, through every reset    *)
(* and every write that is cut short, are the bounded log that the rest of *)
(* the firmware may take the history for.                                  *)
THEOREM RingImplementsLog == Spec => ImplementsLog
<1>1. Init => Log!Init
  <2> SUFFICES ASSUME Init PROVE Log!Init
    OBVIOUS
  <2>1. CurrentSize = 0
    BY InitSize
  <2> QED BY <2>1, StoredEmpty DEF Init, Log!Init
<1> QED BY <1>1, InitTypeInv, NextTypeInv, InitRingInv, NextRingInv, StepOfRing, PTL
        DEF Spec, ImplementsLog, Log!Spec
===============================================================================
