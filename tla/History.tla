------------------------------- MODULE History -------------------------------
(***************************************************************************)
(* The measurement history kept in the EEPROM (history/history.c) and the  *)
(* code of main.c that writes, reads and erases it.                        *)
(*                                                                         *)
(* The two indices are single bytes that run over twice the number of      *)
(* slots, so that a full ring and an empty one differ.  history_write is   *)
(* modelled one EEPROM write at a time, because the device may lose power  *)
(* or be reset between any two of them, and inside a four-byte one.        *)
(*                                                                         *)
(* Assumed of the EEPROM (external): a one-byte write is done entirely or  *)
(* not at all; a four-byte write that is cut short leaves a mix of old and *)
(* new bytes, the value Torn.                                              *)
(***************************************************************************)
EXTENDS Integers

CONSTANTS SIZE,      \* HISTORY_EEPROM_SIZE, the number of slots (0x40)
          BYTE,      \* the number of values of an EEPROM byte (256)
          Record,    \* the measurements history_write is called with
          NoRecord,  \* the zeroed static history_t of circle_callback
          Blank,     \* a dword of an erased EEPROM
          Torn       \* a dword whose write was cut short

ASSUME SizeAssumption == SIZE \in Nat /\ SIZE > 0
\* HISTORY_EEPROM_MASK is one less than a power of two, so x & MASK is x % RING.
ASSUME ByteAssumption == BYTE \in Nat /\ BYTE > 0 /\ BYTE % (2 * SIZE) = 0
ASSUME ValueAssumption == /\ Torn \notin Record
                          /\ Blank \notin Record \cup {Torn}

RING == 2 * SIZE             \* HISTORY_EEPROM_MASK + 1
Byte == 0 .. BYTE - 1
Slot == 0 .. SIZE - 1
Dword == Record \cup {Blank, Torn}
Entry == [time : Dword, data : Dword]

VARIABLES
    slot,          \* the slots of the EEPROM, each a time and a data dword
    write_index,   \* EEPROM byte 0x200
    read_index,    \* EEPROM byte 0x201
    extrf,         \* the external reset flag of the reset controller
    pc,            \* where the main program is in an operation on the history
    local,         \* history_write's copy of its argument and of write_index
    read_offset,   \* static counter of history_read_next
    history,       \* the static history_t of circle_callback
    cut_erase      \* ghost: an erase was begun and not completed

eeprom == <<slot, write_index, read_index>>
ram    == <<local, read_offset, history>>
vars   == <<slot, write_index, read_index, extrf, pc, local, read_offset,
            history, cut_erase>>

PC == {"boot", "erase", "idle", "drop", "time", "data", "commit"}

NoEntry == [time |-> NoRecord, data |-> NoRecord]
Local   == [rec : Record \cup {NoRecord}, w : Byte, r : Byte]
NoLocal == [rec |-> NoRecord, w |-> 0, r |-> 0]

\* size = (write_index - read_index) & HISTORY_EEPROM_MASK
Size(w, r) == (w - r) % RING

\* The slot an index selects: index & (HISTORY_EEPROM_MASK >> 1)
SlotOf(index) == index % SIZE

-------------------------------------------------------------------------------
(* A device whose EEPROM was never written: every byte is 0xff.            *)
Init ==
    /\ slot = [s \in Slot |-> [time |-> Blank, data |-> Blank]]
    /\ write_index = BYTE - 1
    /\ read_index = BYTE - 1
    /\ extrf = FALSE
    /\ pc = "boot"
    /\ local = NoLocal
    /\ read_offset = 0
    /\ history = NoEntry
    /\ cut_erase = FALSE

(* The first circle after a reset: circle_callback erases the history when *)
(* the reset pin caused it, write index first.                             *)
StartClean ==
    /\ pc = "boot" /\ ~extrf
    /\ pc' = "idle"
    /\ UNCHANGED <<eeprom, extrf, ram, cut_erase>>

EraseWriteIndex ==
    /\ pc = "boot" /\ extrf
    /\ write_index' = (BYTE - 1) % RING
    /\ pc' = "erase"
    /\ cut_erase' = TRUE
    /\ UNCHANGED <<slot, read_index, extrf, ram>>

EraseReadIndex ==
    /\ pc = "erase"
    /\ read_index' = BYTE - 1
    /\ extrf' = FALSE
    /\ pc' = "idle"
    /\ cut_erase' = FALSE
    /\ UNCHANGED <<slot, write_index, ram>>

(* history_write, one EEPROM write per step.  A full ring gives up its     *)
(* oldest entry before anything else is written.                           *)
\* Mutant for SizeBounded: the full ring is noticed one entry too late.
WriteBeginLate(rec) ==
    /\ pc = "idle"
    /\ local' = [rec |-> rec, w |-> write_index, r |-> read_index]
    /\ pc' = IF Size(write_index, read_index) > SIZE THEN "drop" ELSE "time"
    /\ UNCHANGED <<eeprom, extrf, read_offset, history, cut_erase>>

\* Mutant for DropsOnlyWhenFull: and one entry too early.
WriteBeginEarly(rec) ==
    /\ pc = "idle"
    /\ local' = [rec |-> rec, w |-> write_index, r |-> read_index]
    /\ pc' = IF Size(write_index, read_index) >= SIZE - 1 THEN "drop" ELSE "time"
    /\ UNCHANGED <<eeprom, extrf, read_offset, history, cut_erase>>

WriteBegin(rec) ==
    /\ pc = "idle"
    /\ local' = [rec |-> rec, w |-> write_index, r |-> read_index]
    /\ pc' = IF Size(write_index, read_index) >= SIZE THEN "drop" ELSE "time"
    /\ UNCHANGED <<eeprom, extrf, read_offset, history, cut_erase>>

WriteDrop ==
    /\ pc = "drop"
    /\ read_index' = (local.r + 1) % RING
    /\ pc' = "time"
    /\ UNCHANGED <<slot, write_index, extrf, ram, cut_erase>>

\* Mutant for ReadableWhole: the index is advanced before the entry is written.
WriteTimeCommitted ==
    /\ pc = "time"
    /\ slot' = [slot EXCEPT ![SlotOf(local.w)].time = local.rec]
    /\ write_index' = (local.w + 1) % RING
    /\ pc' = "data"
    /\ UNCHANGED <<read_index, extrf, ram, cut_erase>>

WriteTime ==
    /\ pc = "time"
    /\ slot' = [slot EXCEPT ![SlotOf(local.w)].time = local.rec]
    /\ pc' = "data"
    /\ UNCHANGED <<write_index, read_index, extrf, ram, cut_erase>>

WriteData ==
    /\ pc = "data"
    /\ slot' = [slot EXCEPT ![SlotOf(local.w)].data = local.rec]
    /\ pc' = "commit"
    /\ UNCHANGED <<write_index, read_index, extrf, ram, cut_erase>>

WriteCommit ==
    /\ pc = "commit"
    /\ write_index' = (local.w + 1) % RING
    /\ pc' = "idle"
    /\ UNCHANGED <<slot, read_index, extrf, ram, cut_erase>>

(* history_read_with_index reads nothing when index is past the end.       *)
Readable(index) == index < Size(write_index, read_index)
EntryAt(index)  == slot[SlotOf(write_index - index - 1)]

(* history_read_next: the entry after the last one read, and the newest    *)
(* again (the recursive call) once the oldest was read.  When it returns   *)
(* false nothing was read and history keeps its value.                     *)
\* Mutant for ImplementsLog: the offset is not reset when it starts again.
ReadNextRunsOn(isfirst) ==
    LET index == IF isfirst THEN 0 ELSE read_offset
        at    == IF Readable(index) THEN index ELSE 0
    IN  /\ pc = "idle"
        /\ \/ /\ Readable(at)
              /\ history' = EntryAt(at)
              /\ read_offset' = (index + 1) % BYTE
           \/ /\ ~Readable(at)
              /\ UNCHANGED <<history, read_offset>>
        /\ UNCHANGED <<eeprom, extrf, pc, local, cut_erase>>

ReadNext(isfirst) ==
    LET index == IF isfirst THEN 0 ELSE read_offset
        at    == IF Readable(index) THEN index ELSE 0
    IN  /\ pc = "idle"
        /\ \/ /\ Readable(at)
              /\ history' = EntryAt(at)
              /\ read_offset' = (at + 1) % BYTE
           \/ /\ ~Readable(at)
              /\ read_offset' = 0
              /\ UNCHANGED history
        /\ UNCHANGED <<eeprom, extrf, pc, local, cut_erase>>

(* A reset at any point: by the reset pin, which sets the flag, or by      *)
(* power loss, which clears it.  A dword being written may be left torn.   *)
TornSlots ==
    {slot} \cup
    CASE pc = "time" -> {[slot EXCEPT ![SlotOf(local.w)].time = Torn]}
      [] pc = "data" -> {[slot EXCEPT ![SlotOf(local.w)].data = Torn]}
      [] OTHER       -> {}

Reset(by_pin) ==
    /\ extrf' = by_pin
    /\ slot' \in TornSlots
    /\ pc' = "boot"
    /\ local' = NoLocal
    /\ read_offset' = 0
    /\ history' = NoEntry
    /\ UNCHANGED <<write_index, read_index, cut_erase>>

Next ==
    \/ StartClean
    \/ EraseWriteIndex
    \/ EraseReadIndex
    \/ \E rec \in Record : WriteBegin(rec)
    \/ WriteDrop
    \/ WriteTime
    \/ WriteData
    \/ WriteCommit
    \/ \E isfirst \in BOOLEAN : ReadNext(isfirst)
    \/ \E by_pin \in BOOLEAN : Reset(by_pin)

Spec == Init /\ [][Next]_vars

-------------------------------------------------------------------------------
(* Properties.                                                             *)

(* Every variable keeps the type its declaration in the source gives it.   *)
TypeOK ==
    /\ slot \in [Slot -> Entry]
    /\ write_index \in Byte
    /\ read_index \in Byte
    /\ extrf \in BOOLEAN
    /\ pc \in PC
    /\ local \in Local
    /\ read_offset \in Byte
    /\ history \in Entry \cup {NoEntry}
    /\ cut_erase \in BOOLEAN

CurrentSize == Size(write_index, read_index)
Whole(e) == e.time \in Record /\ e.data = e.time

(* The indices never describe more entries than there are slots, whatever  *)
(* resets interrupt history_write; only an interrupted erase breaks this.  *)
SizeBounded == cut_erase \/ CurrentSize <= SIZE

(* Every entry history_read_with_index can return was written by one call  *)
(* of history_write, time and data: a reset in the middle of a write never *)
(* makes a half-written slot readable.                                     *)
ReadableWhole ==
    cut_erase \/ \A index \in 0 .. CurrentSize - 1 : Whole(EntryAt(index))

(* A save never costs more than the oldest entry: while a full ring is     *)
(* being written to, all the others stay readable.                         *)
DropsOnlyWhenFull ==
    [][(CurrentSize' < CurrentSize /\ ~cut_erase /\ ~cut_erase') =>
          /\ pc = "drop"
          /\ CurrentSize = SIZE
          /\ CurrentSize' = SIZE - 1]_vars

-------------------------------------------------------------------------------
(* The entries of the ring, oldest first, and the log they implement.      *)
Stored == [n \in 1 .. CurrentSize |-> EntryAt(CurrentSize - n)]

Log == INSTANCE HistoryLog WITH
           Record   <- {[time |-> rec, data |-> rec] : rec \in Record},
           NoRecord <- NoEntry,
           log      <- IF cut_erase THEN <<>> ELSE Stored,
           cursor   <- read_offset,
           shown    <- history,
           intact   <- ~cut_erase \/ pc = "erase"

(* The ring in the EEPROM implements the bounded log of HistoryLog.        *)
ImplementsLog == Log!Spec
===============================================================================
