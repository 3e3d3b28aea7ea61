-------------------------------- MODULE Serial --------------------------------
(***************************************************************************)
(* The serial port of serial/serial.c: the receive interrupt, which puts a *)
(* frame 'S' type digits 'E' together one byte at a time, and the calls of *)
(* the main program that take the command out, use its digits and drop it. *)
(*                                                                         *)
(* The interrupt may come between any two steps of the main program.  The  *)
(* steps are as long as the code makes them: CheckUART2Rev draws on the    *)
(* display between taking a command and returning it, for milliseconds,    *)
(* and a byte takes 87 microseconds.  The two assignments before that, and *)
(* the loop that adds the digits up, are one step each: less than a byte's *)
(* time long, they can meet one interrupt at most, which then commutes     *)
(* with a part of them.                                                    *)
(***************************************************************************)
EXTENDS Integers, Sequences

CONSTANTS Byte,                   \* the values of a received byte
          Zero,                   \* the byte 0x00
          START_CODE, END_CODE,   \* 'S' and 'E'
          PM25_CALIBRATION_CODE,  \* 'M'
          SIZE_FOR_UART_RX        \* the number of digits (4)

ASSUME ByteAssumption ==
    {Zero, START_CODE, END_CODE, PM25_CALIBRATION_CODE} \subseteq Byte
ASSUME SizeAssumption == SIZE_FOR_UART_RX \in Nat /\ SIZE_FOR_UART_RX > 0

VARIABLES
    step, pointer, command_type, buff,  \* g_receive_struct
    CommandType,    \* g_RevGasData.CommandType
    answer,         \* what CheckUART2Rev returned last
    pc,             \* the call the main program is in
    charging,       \* battery_is_charging()
    heard,          \* ghost: the bytes of the frame being received
    wiped           \* ghost: the digits were cleared since that frame began

receive == <<step, pointer, command_type, buff>>
main    == <<CommandType, answer, pc>>
ghost   == <<heard, wiped>>
serialVars == <<step, pointer, command_type, buff, CommandType, answer, pc,
                charging, heard, wiped>>

Step == {"SEARCH_START", "RECEIVE_TYPE", "RECEIVE_DATA", "SEARCH_END",
         "RECEIVE_END"}
Index == 0 .. SIZE_FOR_UART_RX - 1
Cleared == [i \in Index |-> Zero]

-------------------------------------------------------------------------------
InitSerial ==
    /\ step = "SEARCH_START" /\ pointer = 0
    /\ command_type = Zero /\ buff = Cleared
    /\ CommandType = Zero /\ answer = Zero
    /\ pc = "circle"
    /\ charging \in BOOLEAN
    /\ heard = <<>> /\ wiped = FALSE

(* The receive interrupt: Analyse_Receive_Char, one action per case.       *)
SearchStart(c) ==
    /\ step = "SEARCH_START"
    /\ c = START_CODE
    /\ pointer' = 0
    /\ step' = "RECEIVE_TYPE"
    /\ heard' = <<c>> /\ wiped' = FALSE
    /\ UNCHANGED <<command_type, buff>>

\* Mutant for ImplementsPort: a waiting frame is overwritten by the line.
ReceiveTypeAnyTime(c) ==
    /\ step \in {"RECEIVE_TYPE", "RECEIVE_END"}
    /\ command_type' = c
    /\ step' = IF step = "RECEIVE_END" THEN step ELSE "RECEIVE_DATA"
    /\ heard' = Append(heard, c)
    /\ UNCHANGED <<pointer, buff, wiped>>

ReceiveType(c) ==
    /\ step = "RECEIVE_TYPE"
    /\ command_type' = c
    /\ step' = "RECEIVE_DATA"
    /\ heard' = Append(heard, c)
    /\ UNCHANGED <<pointer, buff, wiped>>

\* Mutant for StoresInBounds: one digit too many.
ReceiveDataLong(c) ==
    /\ step = "RECEIVE_DATA"
    /\ buff' = [i \in Index \cup {pointer} |-> IF i = pointer THEN c ELSE buff[i]]
    /\ pointer' = pointer + 1
    /\ step' = IF pointer' > SIZE_FOR_UART_RX THEN "SEARCH_END" ELSE step
    /\ heard' = Append(heard, c)
    /\ UNCHANGED <<command_type, wiped>>

ReceiveData(c) ==
    /\ step = "RECEIVE_DATA"
    /\ buff' = [i \in Index \cup {pointer} |-> IF i = pointer THEN c ELSE buff[i]]
    /\ pointer' = pointer + 1
    /\ step' = IF pointer' = SIZE_FOR_UART_RX THEN "SEARCH_END" ELSE step
    /\ heard' = Append(heard, c)
    /\ UNCHANGED <<command_type, wiped>>

\* Mutant for WaitingFrameIntact: any byte ends the frame.
SearchEndAnyByte(c) ==
    /\ step = "SEARCH_END"
    /\ step' = "RECEIVE_END"
    /\ heard' = Append(heard, c)
    /\ UNCHANGED <<pointer, command_type, buff, wiped>>

SearchEnd(c) ==
    /\ step = "SEARCH_END"
    /\ step' = IF c = END_CODE THEN "RECEIVE_END" ELSE "SEARCH_START"
    /\ heard' = IF c = END_CODE THEN Append(heard, c) ELSE <<>>
    /\ UNCHANGED <<pointer, command_type, buff, wiped>>

\* A byte that is no 'S' before a frame, or any byte while one waits, is dropped.
Receive(c) == /\ \/ SearchStart(c)
                 \/ ReceiveType(c)
                 \/ ReceiveData(c)
                 \/ SearchEnd(c)
              /\ UNCHANGED <<main, charging>>

(* check_uart asks for a command only while the battery is charging.       *)
CheckNothing ==
    /\ pc = "circle" /\ charging
    /\ step # "RECEIVE_END"
    /\ answer' = Zero
    /\ UNCHANGED <<receive, CommandType, pc, charging, ghost>>

\* Mutant for FramesTaken: the search for the next frame is not restarted.
CheckTakeOnly ==
    /\ pc = "circle" /\ charging
    /\ step = "RECEIVE_END"
    /\ CommandType' = command_type
    /\ pc' = "inform"
    /\ UNCHANGED <<receive, answer, charging, ghost>>

CheckTake ==
    /\ pc = "circle" /\ charging
    /\ step = "RECEIVE_END"
    /\ step' = "SEARCH_START"
    /\ CommandType' = command_type
    /\ pc' = "inform"
    /\ heard' = <<>>
    /\ UNCHANGED <<pointer, command_type, buff, answer, charging, wiped>>

\* After oled_inform_check_result, command_type is read a second time.
CheckReturn ==
    /\ pc = "inform"
    /\ answer' = command_type
    /\ pc' = "circle"
    /\ UNCHANGED <<receive, CommandType, charging, ghost>>

(* pm25_get_correction finishes with a calibration command, by using its   *)
(* digits or by dropping it.  DealUART2Data adds the digits up, clears the *)
(* buffer and spends the time of two EEPROM writes before CommandType is   *)
(* cleared.                                                                *)
DealRead ==
    /\ pc = "circle"
    /\ CommandType = PM25_CALIBRATION_CODE
    /\ pc' = "deal"
    /\ UNCHANGED <<receive, CommandType, answer, charging, ghost>>

DealClear ==
    /\ pc = "deal"
    /\ buff' = Cleared
    /\ pc' = "write"
    /\ wiped' = TRUE
    /\ UNCHANGED <<step, pointer, command_type, CommandType, answer, charging,
                   heard>>

DealFinish ==
    /\ pc = "write"
    /\ CommandType' = Zero
    /\ pc' = "circle"
    /\ UNCHANGED <<receive, answer, charging, ghost>>

Drop ==
    /\ pc = "circle"
    /\ CommandType = PM25_CALIBRATION_CODE
    /\ CommandType' = Zero
    /\ UNCHANGED <<receive, answer, pc, charging, ghost>>

(* The charger is plugged in or out.                                       *)
Charger ==
    /\ charging' = ~charging
    /\ UNCHANGED <<receive, main, ghost>>

(* A reset clears the memory; bytes on the line then start mid-frame.      *)
Reset ==
    /\ step' = "SEARCH_START" /\ pointer' = 0
    /\ command_type' = Zero /\ buff' = Cleared
    /\ CommandType' = Zero /\ answer' = Zero
    /\ pc' = "circle"
    /\ heard' = <<>> /\ wiped' = FALSE
    /\ UNCHANGED charging

NextSerial ==
    \/ \E c \in Byte : Receive(c)
    \/ CheckNothing
    \/ CheckTake
    \/ CheckReturn
    \/ DealRead
    \/ DealClear
    \/ DealFinish
    \/ Drop
    \/ Charger
    \/ Reset

SpecSerial == InitSerial /\ [][NextSerial]_serialVars

(* The main loop never ends and none of its calls waits for anything, so   *)
(* it always returns to check_uart.  Nothing is assumed of the line.       *)
Fairness == /\ WF_serialVars(CheckTake)
            /\ WF_serialVars(CheckReturn)
            /\ WF_serialVars(DealClear)
            /\ WF_serialVars(DealFinish)

FairSpec == SpecSerial /\ Fairness

-------------------------------------------------------------------------------
(* Properties.                                                             *)

(* Every variable keeps the type its declaration in the source gives it;   *)
(* buff is the array it is declared as.                                    *)
TypeOK ==
    /\ step \in Step
    /\ pointer \in 0 .. SIZE_FOR_UART_RX
    /\ command_type \in Byte
    /\ buff \in [Index -> Byte]
    /\ CommandType \in Byte
    /\ answer \in Byte
    /\ pc \in {"circle", "inform", "deal", "write"}
    /\ charging \in BOOLEAN
    /\ heard \in Seq(Byte)
    /\ wiped \in BOOLEAN

(* The interrupt never stores past the end of buff: it is only in the      *)
(* state that stores while there is room, whenever the main program        *)
(* restarts the search for a frame or clears the buffer.                   *)
StoresInBounds == step = "RECEIVE_DATA" => pointer \in Index

(* A frame that waits is one that came over the line in full, and neither  *)
(* its type nor its digits are changed by what comes after it.  Only the   *)
(* memset of a calibration that is still being finished may clear digits   *)
(* that belong to the next frame.                                          *)
WaitingFrameIntact ==
    step = "RECEIVE_END" =>
        /\ Len(heard) = SIZE_FOR_UART_RX + 3
        /\ heard[1] = START_CODE
        /\ heard[2] = command_type
        /\ ~wiped => \A i \in Index : heard[i + 3] = buff[i]
        /\ heard[SIZE_FOR_UART_RX + 3] = END_CODE

(* While the charger stays connected, a frame never blocks the port for    *)
(* good: it is always taken, and the next one can be received.             *)
FramesTaken == <>[]charging => []<>(step # "RECEIVE_END")

(* What the comment on CheckUART2Rev says: it returns the command type of  *)
(* the valid data stream that was transferred.                             *)
ReturnsTakenCommand ==
    [][CheckReturn => answer' = CommandType]_serialVars

-------------------------------------------------------------------------------
Port == INSTANCE CommandPort WITH
            CALIBRATE <- PM25_CALIBRATION_CODE,
            Digits    <- [Index -> Byte],
            Wiped     <- Cleared,
            full      <- step = "RECEIVE_END",
            type      <- command_type,
            digits    <- buff,
            stage     <- pc

(* The rest of the firmware may take the port for the mailbox of           *)
(* CommandPort.                                                            *)
ImplementsPort == Port!Spec
===============================================================================
