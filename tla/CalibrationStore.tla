--------------------------- MODULE CalibrationStore ---------------------------
(***************************************************************************)
(* The calibration pair in the EEPROM: the reading of the master and that  *)
(* of the device itself, one dword each.  WriteGasParameter and            *)
(* erasePm25Clibration of serial.c write them one after the other, master  *)
(* first, and pm25_set_correction reads them; a power loss may fall        *)
(* between the two dwords or inside one of them.                           *)
(*                                                                         *)
(* A calibration is one value, the same in both dwords, so that a pair of  *)
(* two calibrations shows.  Assumed of the EEPROM (external): a dword      *)
(* whose write is cut short is a mix of old and new bytes, the value Torn. *)
(***************************************************************************)
CONSTANTS Reading,       \* the calibrations that can be made
          UINT32_MAX,    \* a dword of an erased EEPROM
          Torn,          \* a dword whose write was cut short
          Uncorrected    \* pm25_set_correction returns its argument

ASSUME DwordAssumption == /\ UINT32_MAX \notin Reading \cup {Torn}
                          /\ Torn \notin Reading
ASSUME UncorrectedAssumption == Uncorrected \notin Reading \X Reading

VARIABLES
    master,      \* the dword at PM25_ADDRESS
    self,        \* the dword after it
    pc,          \* the EEPROM write the main program is about to make
    data,        \* the calibration being written
    cut_inside,  \* ghost: a dword was torn since the pair was last completed
    cut_over     \* ghost: likewise, and a calibration was cut short between its
                 \* two dwords while the old second one was in place

storeVars == <<master, self, pc, data, cut_inside, cut_over>>

Dword == Reading \cup {UINT32_MAX, Torn}
PC == {"circle", "write_master", "write_self", "erase_master", "erase_self"}

\* What pm25_set_correction goes by.
InEffect == IF master = UINT32_MAX \/ self = UINT32_MAX
            THEN Uncorrected
            ELSE <<master, self>>

-------------------------------------------------------------------------------
InitStore ==
    /\ master = UINT32_MAX /\ self = UINT32_MAX
    /\ pc = "circle"
    /\ data = UINT32_MAX
    /\ cut_inside = FALSE /\ cut_over = FALSE

(* WriteGasParameter.                                                      *)
WriteGasParameter(reading) ==
    /\ pc = "circle"
    /\ data' = reading
    /\ pc' = "write_master"
    /\ UNCHANGED <<master, self, cut_inside, cut_over>>

WriteMaster ==
    /\ pc = "write_master"
    /\ master' = data
    /\ pc' = "write_self"
    /\ UNCHANGED <<self, data, cut_inside, cut_over>>

\* Mutant for PairOfOneCalibration: both dwords go to the first address.
WriteSelfAtMaster ==
    /\ pc = "write_self"
    /\ master' = data
    /\ pc' = "circle"
    /\ data' = UINT32_MAX
    /\ cut_inside' = FALSE /\ cut_over' = FALSE
    /\ UNCHANGED self

WriteSelf ==
    /\ pc = "write_self"
    /\ self' = data
    /\ pc' = "circle"
    /\ data' = UINT32_MAX
    /\ cut_inside' = FALSE /\ cut_over' = FALSE
    /\ UNCHANGED master

(* erasePm25Clibration.                                                    *)
ErasePm25Clibration ==
    /\ pc = "circle"
    /\ pc' = "erase_master"
    /\ UNCHANGED <<master, self, data, cut_inside, cut_over>>

EraseMaster ==
    /\ pc = "erase_master"
    /\ master' = UINT32_MAX
    /\ pc' = "erase_self"
    /\ UNCHANGED <<self, data, cut_inside, cut_over>>

EraseSelf ==
    /\ pc = "erase_self"
    /\ self' = UINT32_MAX
    /\ pc' = "circle"
    /\ cut_inside' = FALSE /\ cut_over' = FALSE
    /\ UNCHANGED <<master, data>>

(* A reset or power loss before, between or inside the writes.             *)
Cut ==
    /\ UNCHANGED <<master, self, cut_inside>>
    /\ cut_over' = (cut_over \/ (pc = "write_self" /\ self # UINT32_MAX))

New == IF pc \in {"write_master", "write_self"} THEN data ELSE UINT32_MAX
Mix(old) == IF old = New THEN old ELSE Torn

CutInside ==
    /\ \/ pc \in {"write_master", "erase_master"} /\ master' = Mix(master) /\ UNCHANGED self
       \/ pc \in {"write_self", "erase_self"} /\ self' = Mix(self) /\ UNCHANGED master
    /\ cut_inside' = TRUE
    /\ UNCHANGED cut_over

ResetStore ==
    /\ Cut \/ CutInside
    /\ pc' = "circle"
    /\ data' = UINT32_MAX

NextStore ==
    \/ \E reading \in Reading : WriteGasParameter(reading)
    \/ WriteMaster
    \/ WriteSelf
    \/ ErasePm25Clibration
    \/ EraseMaster
    \/ EraseSelf
    \/ ResetStore

SpecStore == InitStore /\ [][NextStore]_storeVars

-------------------------------------------------------------------------------
(* Properties.                                                             *)

(* A correction that is in effect between two operations always stems from *)
(* a single calibration, although it is stored as two dwords: a cut        *)
(* between the dwords of an erase or of a first calibration leaves the     *)
(* device uncorrected.  Only a calibration made over an old one, or a cut  *)
(* inside a dword, can leave a pair that was never measured.               *)
PairOfOneCalibration ==
    (pc = "circle" /\ ~cut_inside /\ ~cut_over) =>
        InEffect \in {Uncorrected} \cup {<<reading, reading>> : reading \in Reading}
===============================================================================
