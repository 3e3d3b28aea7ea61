----------------------------- MODULE InputProofs ------------------------------
(*****************************************************************************)
(* Proofs about what reaches the device: Serial, for every alphabet and     *)
(* every number of digits; Keys, for all times of clicks and holds in their *)
(* order, and whatever the pins of the key that is pressed do between two   *)
(* samples; and Pulse, for every light.                                     *)
(*****************************************************************************)
EXTENDS Serial, Keys, Pulse, Arithmetic

-------------------------------------------------------------------------------
(* The serial port.                                                        *)

(* The part of a frame that was received so far.                           *)
FrameInv ==
    /\ step = "RECEIVE_TYPE" => pointer = 0 /\ heard = <<START_CODE>>
    /\ step \in {"RECEIVE_DATA", "SEARCH_END"} =>
          /\ Len(heard) = pointer + 2
          /\ heard[1] = START_CODE
          /\ heard[2] = command_type
          /\ ~wiped => \A k \in 0 .. pointer - 1 : heard[k + 3] = buff[k]
    /\ step = "RECEIVE_DATA" => pointer \in Index
    /\ step = "SEARCH_END" => pointer = SIZE_FOR_UART_RX
    /\ WaitingFrameIntact

SerialInv == TypeOK /\ FrameInv

(* What appending one byte to what was heard does.                         *)
LEMMA AppendByte ==
    ASSUME NEW s \in Seq(Byte), NEW c \in Byte
    PROVE  /\ Append(s, c) \in Seq(Byte)
           /\ Len(Append(s, c)) = Len(s) + 1
           /\ Append(s, c)[Len(s) + 1] = c
           /\ \A n \in 1 .. Len(s) : Append(s, c)[n] = s[n]
OBVIOUS

(* The receiver starts with nothing heard.                                 *)
LEMMA InitSerialInv == InitSerial => SerialInv
<1> SUFFICES ASSUME InitSerial PROVE SerialInv
  OBVIOUS
<1>1. TypeOK
  BY ByteAssumption, SizeAssumption DEF InitSerial, TypeOK, Step, Index, Cleared
<1>2. FrameInv
  BY DEF InitSerial, FrameInv, WaitingFrameIntact
<1> QED BY <1>1, <1>2 DEF SerialInv

(* Every byte received, and every step of the main program between two     *)
(* bytes, keeps what is known of the frame under way.                      *)
LEMMA NextSerialInv == SerialInv /\ [NextSerial]_serialVars => SerialInv'
<1> SUFFICES ASSUME SerialInv, [NextSerial]_serialVars PROVE SerialInv'
  OBVIOUS
<1> USE ByteAssumption, SizeAssumption DEF SerialInv, Step
<1>1. ASSUME NEW c \in Byte, SearchStart(c), UNCHANGED <<main, charging>>
      PROVE  SerialInv'
  <2>1. TypeOK'
    <3>1. heard' \in Seq(Byte) /\ pointer' \in 0 .. SIZE_FOR_UART_RX
      BY <1>1 DEF SearchStart
    <3>2. /\ step' = "RECEIVE_TYPE" /\ wiped' = FALSE
          /\ UNCHANGED <<command_type, buff, CommandType, answer, pc, charging>>
      BY <1>1 DEF SearchStart, main
    <3> QED BY <3>1, <3>2 DEF TypeOK
  <2>2. FrameInv'
    BY <1>1 DEF SearchStart, FrameInv, WaitingFrameIntact
  <2> QED BY <2>1, <2>2
<1>2. ASSUME NEW c \in Byte, ReceiveType(c), UNCHANGED <<main, charging>>
      PROVE  SerialInv'
  <2>1. TypeOK'
    BY <1>2, AppendByte DEF ReceiveType, TypeOK, main
  <2>2. pointer = 0 /\ Len(heard') = 2 /\ heard'[1] = START_CODE /\ heard'[2] = c
    <3>1. pointer = 0 /\ heard = <<START_CODE>> /\ heard' = Append(heard, c)
      BY <1>2 DEF ReceiveType, FrameInv
    <3>2. Len(heard) = 1 /\ heard[1] = START_CODE /\ heard \in Seq(Byte)
      BY <3>1 DEF TypeOK
    <3>3. Len(heard') = 1 + 1 /\ heard'[1 + 1] = c /\ heard'[1] = heard[1]
      BY <3>1, <3>2, AppendByte
    <3> QED BY <3>1, <3>2, <3>3
  <2>3. FrameInv'
    BY <1>2, <2>2 DEF ReceiveType, FrameInv, WaitingFrameIntact, Index
  <2> QED BY <2>1, <2>3
<1>3. ASSUME NEW c \in Byte, ReceiveData(c), UNCHANGED <<main, charging>>
      PROVE  SerialInv'
  <2>1. /\ pointer \in Index /\ pointer' = pointer + 1
        /\ heard \in Seq(Byte) /\ heard' = Append(heard, c)
        /\ Len(heard) = pointer + 2
        /\ command_type' = command_type /\ wiped' = wiped
        /\ buff' = [buff EXCEPT ![pointer] = c]
    BY <1>3 DEF ReceiveData, TypeOK, FrameInv, Index
  <2>2. /\ heard' \in Seq(Byte)
        /\ Len(heard') = pointer' + 2
        /\ heard'[pointer + 3] = c
        /\ \A n \in 1 .. pointer + 2 : heard'[n] = heard[n]
    BY <2>1, AppendByte DEF Index
  <2>3. step' = IF pointer' = SIZE_FOR_UART_RX THEN "SEARCH_END" ELSE "RECEIVE_DATA"
    BY <1>3 DEF ReceiveData
  <2>4. TypeOK'
    BY <1>3, <2>1, <2>2, <2>3 DEF ReceiveData, TypeOK, Index, main
  <2>5. heard'[1] = START_CODE /\ heard'[2] = command_type
    BY <1>3, <2>1, <2>2 DEF ReceiveData, FrameInv, Index
  <2>6. ASSUME ~wiped, NEW k \in 0 .. pointer PROVE heard'[k + 3] = buff'[k]
    <3>1. CASE k = pointer
      BY <2>1, <2>2, <3>1 DEF TypeOK
    <3>2. CASE k # pointer
      <4>1. k \in 0 .. pointer - 1 /\ k + 3 \in 1 .. pointer + 2 /\ k \in Index
        BY <2>1, <3>2 DEF Index
      <4>2. heard[k + 3] = buff[k]
        BY <1>3, <2>6, <4>1 DEF ReceiveData, FrameInv
      <4> QED BY <2>1, <2>2, <3>2, <4>1, <4>2 DEF TypeOK
    <3> QED BY <3>1, <3>2
  <2>7. FrameInv'
    BY <2>1, <2>2, <2>3, <2>5, <2>6 DEF FrameInv, WaitingFrameIntact, Index
  <2> QED BY <2>4, <2>7
<1>4. ASSUME NEW c \in Byte, SearchEnd(c), UNCHANGED <<main, charging>>
      PROVE  SerialInv'
  <2>1. TypeOK'
    BY <1>4, AppendByte DEF SearchEnd, TypeOK, main
  <2>2. CASE c = END_CODE
    <3>1. /\ pointer = SIZE_FOR_UART_RX /\ heard \in Seq(Byte)
          /\ heard' = Append(heard, c) /\ Len(heard) = SIZE_FOR_UART_RX + 2
      BY <1>4, <2>2 DEF SearchEnd, FrameInv, TypeOK
    <3>2. /\ Len(heard') = SIZE_FOR_UART_RX + 3
          /\ heard'[SIZE_FOR_UART_RX + 3] = c
          /\ \A n \in 1 .. SIZE_FOR_UART_RX + 2 : heard'[n] = heard[n]
      BY <3>1, AppendByte
    <3>3. ASSUME ~wiped, NEW k \in Index PROVE heard'[k + 3] = buff[k]
      <4>1. k \in 0 .. pointer - 1 /\ k + 3 \in 1 .. SIZE_FOR_UART_RX + 2
        BY <3>1 DEF Index
      <4> QED BY <1>4, <3>2, <3>3, <4>1 DEF SearchEnd, FrameInv
    <3>4. WaitingFrameIntact'
      BY <1>4, <2>2, <3>1, <3>2, <3>3 DEF SearchEnd, FrameInv, WaitingFrameIntact, Index
    <3> QED BY <1>4, <2>1, <2>2, <3>4 DEF SearchEnd, FrameInv
  <2>3. CASE c # END_CODE
    BY <1>4, <2>1, <2>3 DEF SearchEnd, FrameInv, WaitingFrameIntact
  <2> QED BY <2>2, <2>3
<1>5. CASE CheckNothing
  BY <1>5 DEF CheckNothing, receive, ghost, TypeOK, FrameInv, WaitingFrameIntact
<1>6. CASE CheckTake
  BY <1>6 DEF CheckTake, TypeOK, FrameInv, WaitingFrameIntact
<1>7. CASE CheckReturn
  BY <1>7 DEF CheckReturn, receive, ghost, TypeOK, FrameInv, WaitingFrameIntact
<1>8. CASE DealRead
  BY <1>8 DEF DealRead, receive, ghost, TypeOK, FrameInv, WaitingFrameIntact
<1>9. CASE DealClear
  <2>1. buff' \in [Index -> Byte]
    BY <1>9 DEF DealClear, Cleared
  <2> QED BY <1>9, <2>1 DEF DealClear, TypeOK, FrameInv, WaitingFrameIntact
<1>10. CASE DealFinish
  BY <1>10 DEF DealFinish, receive, ghost, TypeOK, FrameInv, WaitingFrameIntact
<1>11. CASE Drop
  BY <1>11 DEF Drop, receive, ghost, TypeOK, FrameInv, WaitingFrameIntact
<1>12. CASE Charger
  BY <1>12 DEF Charger, receive, main, ghost, TypeOK, FrameInv, WaitingFrameIntact
<1>13. CASE Reset
  <2>1. Cleared \in [Index -> Byte] /\ <<>> \in Seq(Byte) /\ pointer' \in 0 .. SIZE_FOR_UART_RX
    BY <1>13 DEF Reset, Cleared
  <2> QED BY <1>13, <2>1 DEF Reset, TypeOK, FrameInv, WaitingFrameIntact
<1>14. CASE UNCHANGED serialVars
  BY <1>14 DEF serialVars, TypeOK, FrameInv, WaitingFrameIntact
<1> QED BY <1>1, <1>2, <1>3, <1>4, <1>5, <1>6, <1>7, <1>8, <1>9, <1>10, <1>11,
           <1>12, <1>13, <1>14 DEF NextSerial, Receive

(* The receive interrupt never stores past the end of its buffer, whatever *)
(* the main program clears or restarts between two bytes.                  *)
THEOREM ReceiverInBounds == SpecSerial => []StoresInBounds
<1>1. SerialInv => StoresInBounds
  BY DEF SerialInv, FrameInv, StoresInBounds
<1> QED BY <1>1, InitSerialInv, NextSerialInv, PTL DEF SpecSerial

(* Every variable keeps its type, and a frame that waits to be taken is    *)
(* exactly one that was received.                                          *)
THEOREM ReceiverCorrect == SpecSerial => [](TypeOK /\ WaitingFrameIntact)
<1>1. SerialInv => TypeOK /\ WaitingFrameIntact
  BY DEF SerialInv, FrameInv
<1> QED BY <1>1, InitSerialInv, NextSerialInv, PTL DEF SpecSerial

-------------------------------------------------------------------------------
(* Refinement.                                                             *)

(* Every step of the serial port is a step of the mailbox or changes       *)
(* nothing of it.                                                          *)
LEMMA StepOfPort == SerialInv /\ SerialInv' /\ [NextSerial]_serialVars => [Port!Next]_(Port!vars)
<1> SUFFICES ASSUME SerialInv, SerialInv', [NextSerial]_serialVars
             PROVE  [Port!Next]_(Port!vars)
  OBVIOUS
<1>0. /\ buff \in [Index -> Byte] /\ buff' \in [Index -> Byte]
      /\ command_type \in Byte /\ command_type' \in Byte
  BY DEF SerialInv, TypeOK
<1> USE DEF Port!Next, Port!vars
<1>1. ASSUME NEW c \in Byte, Receive(c) PROVE Port!Next \/ UNCHANGED Port!vars
  <2>1. CASE SearchStart(c)
    BY <1>1, <2>1 DEF Receive, SearchStart, main
  <2>2. CASE ReceiveType(c)
    BY <1>0, <1>1, <2>2 DEF Receive, ReceiveType, main, Port!Disturb
  <2>3. CASE ReceiveData(c)
    BY <1>0, <1>1, <2>3 DEF Receive, ReceiveData, main, Port!Disturb
  <2>4. CASE SearchEnd(c)
    BY <1>1, <2>4 DEF Receive, SearchEnd, main, Port!Arrive
  <2> QED BY <1>1, <2>1, <2>2, <2>3, <2>4 DEF Receive
<1>2. CASE CheckNothing
  BY <1>2 DEF CheckNothing, receive
<1>3. CASE CheckTake
  BY <1>3 DEF CheckTake, Port!Take
<1>4. CASE CheckReturn
  BY <1>4 DEF CheckReturn, receive, Port!Return
<1>5. CASE DealRead
  BY <1>5 DEF DealRead, receive, Port!Deal
<1>6. CASE DealClear
  BY <1>6 DEF DealClear, Port!Wipe
<1>7. CASE DealFinish
  BY <1>7 DEF DealFinish, receive, Port!Finish
<1>8. CASE Drop
  BY <1>8 DEF Drop, receive, Port!Drop
<1>9. CASE Charger
  BY <1>9 DEF Charger, receive, main
<1>10. CASE Reset
  BY <1>10 DEF Reset, Port!Reset
<1>11. CASE UNCHANGED serialVars
  BY <1>11 DEF serialVars
<1> QED BY <1>1, <1>2, <1>3, <1>4, <1>5, <1>6, <1>7, <1>8, <1>9, <1>10, <1>11
        DEF NextSerial

(* The interrupt handler and the calls of the main program together        *)
(* implement the one-command mailbox the other components are built on.    *)
THEOREM SerialImplementsPort == SpecSerial => ImplementsPort
<1>1. InitSerial => Port!Init
  BY DEF InitSerial, Port!Init
<1> QED BY <1>1, InitSerialInv, NextSerialInv, StepOfPort, PTL
        DEF SpecSerial, ImplementsPort, Port!Spec

-------------------------------------------------------------------------------
(* The keys.                                                               *)

KeyState == [level : BOOLEAN, uplast : Last, downlast : Last]

KeyTypes ==
    /\ key \in [Key -> KeyState]
    /\ current_system_status \in Status
    /\ last_system_status \in Status \ {"POWERDOFF"}
    /\ asleep \in BOOLEAN /\ turned_on \in BOOLEAN
    /\ acted \subseteq Key
    /\ lowrun \in [Key -> Last] /\ lows \in [Key -> Last] /\ highs \in [Key -> Last]
    /\ held \in [Key -> BOOLEAN]

(* A key counted as down went up only within the click time at the start.  *)
RunKept(k) ==
    ~key[k].level => key[k].downlast <= lowrun[k] + KEY_CLICK_TIME - 1

(* A press since the last act was sampled down as often as it counts; one  *)
(* that has acted is past the hold, or past the click.                     *)
PressCounted(k) ==
    \/ key[k].downlast <= lows[k]
    \/ key[k].downlast >= KEY_HOLD_TIME
    \/ key[k].level /\ key[k].uplast >= KEY_CLICK_TIME

(* After a hold of at least so many samples has acted, the same press goes *)
(* on, or its release is not complete, until the key was up long enough.   *)
Since(k, hold) ==
    \/ highs[k] >= KEY_CLICK_TIME
    \/ /\ key[k].downlast >= hold
       /\ key[k].level => key[k].uplast <= highs[k]

(* The press that turned the device on goes on.                            *)
TurnedOn ==
    turned_on =>
        /\ current_system_status # "POWERDOFF"
        /\ Since("POWER", KEY_LONG_HOLD_TIME)
        /\ \/ highs["POWER"] >= KEY_CLICK_TIME
           \/ key["POWER"].level
           \/ key["POWER"].downlast <= KEY_LONG_HOLD_TIME + lows["POWER"]

KeysInv ==
    /\ KeyTypes
    /\ asleep => current_system_status = "POWERDOFF"
    /\ TurnedOn
    /\ "POWER" \in acted /\ turned_on => HeldFor(key["POWER"], KEY_LONG_HOLD_TIME)
    /\ RunKept("POWER")
    /\ \A k \in {"MODE", "SELECT"} :
           /\ PressCounted(k)
           /\ held[k] => Since(k, KEY_HOLD_TIME)

-------------------------------------------------------------------------------
(* One sample of a key.                                                    *)

LEMMA Times == /\ {KEY_CLICK_TIME, KEY_HOLD_TIME, KEY_LONG_HOLD_TIME,
                   KEY_IGNORE_HOLD_TIME, LAST_CAP} \subseteq Nat
               /\ 0 < KEY_CLICK_TIME /\ KEY_CLICK_TIME < KEY_HOLD_TIME
               /\ KEY_HOLD_TIME < KEY_LONG_HOLD_TIME
               /\ KEY_LONG_HOLD_TIME < KEY_IGNORE_HOLD_TIME
               /\ KEY_IGNORE_HOLD_TIME < LAST_CAP
BY TimeAssumption

\* Its effect, count by count.
LEMMA SampleUpIs ==
    ASSUME NEW r \in KeyState, NEW t, t = SampleUp(r)
    PROVE  /\ t \in KeyState
           /\ t.level <=> r.level \/ r.downlast >= KEY_CLICK_TIME
           /\ t.downlast = r.downlast
           /\ t.uplast = IF ~r.level /\ r.downlast >= KEY_CLICK_TIME THEN 1
                         ELSE IF r.uplast = LAST_CAP THEN LAST_CAP ELSE r.uplast + 1
<1> DEFINE changes == ~r.level /\ r.downlast >= KEY_CLICK_TIME
           up == IF changes THEN 1 ELSE Capped(r.uplast + 1)
<1>1. t = [r EXCEPT !.level = r.level \/ changes, !.uplast = up]
  BY DEF SampleUp
<1>2. up \in Last /\ up = IF changes THEN 1 ELSE IF r.uplast = LAST_CAP THEN LAST_CAP
                                                  ELSE r.uplast + 1
  BY Times DEF KeyState, Last, Capped
<1>3. (r.level \/ changes) \in BOOLEAN /\ r.level \in BOOLEAN
  BY DEF KeyState
<1>4. (r.level \/ changes) <=> r.level \/ r.downlast >= KEY_CLICK_TIME
  OBVIOUS
<1> HIDE DEF up
<1>5. PICK l \in BOOLEAN : l = (r.level \/ changes)
  BY <1>3
<1> HIDE DEF changes
<1>6. t = [r EXCEPT !.level = l, !.uplast = up]
  BY <1>1, <1>5
<1>7. t \in KeyState /\ t.level = l /\ t.downlast = r.downlast /\ t.uplast = up
  BY <1>2, <1>6 DEF KeyState
<1> QED BY <1>2, <1>4, <1>5, <1>7 DEF changes

LEMMA SampleDownIs ==
    ASSUME NEW r \in KeyState, NEW t, t = SampleDown(r)
    PROVE  /\ t \in KeyState
           /\ t.level <=> r.level /\ r.uplast < KEY_CLICK_TIME
           /\ t.uplast = r.uplast
           /\ t.downlast = IF r.level /\ r.uplast >= KEY_CLICK_TIME THEN 1
                           ELSE IF r.downlast = LAST_CAP THEN LAST_CAP
                                ELSE r.downlast + 1
<1> DEFINE changes == r.level /\ r.uplast >= KEY_CLICK_TIME
           low == IF changes THEN 1 ELSE Capped(r.downlast + 1)
<1>1. t = [r EXCEPT !.level = r.level /\ ~changes, !.downlast = low]
  BY DEF SampleDown
<1>2. low \in Last /\ low = IF changes THEN 1 ELSE IF r.downlast = LAST_CAP THEN LAST_CAP
                                                   ELSE r.downlast + 1
  BY Times DEF KeyState, Last, Capped
<1>3. (r.level /\ ~changes) \in BOOLEAN /\ r.level \in BOOLEAN
  BY DEF KeyState
<1>4. (r.level /\ ~changes) <=> r.level /\ r.uplast < KEY_CLICK_TIME
  BY Times DEF KeyState, Last
<1> HIDE DEF low
<1>5. PICK l \in BOOLEAN : l = (r.level /\ ~changes)
  BY <1>3
<1> HIDE DEF changes
<1>6. t = [r EXCEPT !.level = l, !.downlast = low]
  BY <1>1, <1>5
<1>7. t \in KeyState /\ t.level = l /\ t.uplast = r.uplast /\ t.downlast = low
  BY <1>2, <1>6 DEF KeyState
<1> QED BY <1>2, <1>4, <1>5, <1>7 DEF changes

LEMMA Count == ASSUME NEW n \in Last
               PROVE  /\ Capped(n + 1) \in Last
                      /\ Capped(n + 1) = IF n = LAST_CAP THEN LAST_CAP ELSE n + 1
BY Times DEF Capped, Last

-------------------------------------------------------------------------------
(* What a scan does to one key, and which keys act.                        *)

LEMMA ScanOf ==
    ASSUME KeyTypes, NEW down, Scan(down), NEW k \in Key
    PROVE  /\ key[k] \in KeyState /\ key'[k] \in KeyState
           /\ lowrun[k] \in Last /\ lows[k] \in Last /\ highs[k] \in Last
           /\ k \in down => /\ key'[k] = SampleDown(key[k])
                            /\ lowrun'[k] = Capped(lowrun[k] + 1)
                            /\ k \notin acted' => /\ lows'[k] = Capped(lows[k] + 1)
                                                  /\ highs'[k] = highs[k]
           /\ k \notin down => /\ key'[k] = SampleUp(key[k])
                               /\ lowrun'[k] = 0
                               /\ k \notin acted' => /\ lows'[k] = lows[k]
                                                     /\ highs'[k] = Capped(highs[k] + 1)
           /\ k \in acted' => lows'[k] = 0 /\ highs'[k] = 0 /\ held'[k] = (k \in down)
           /\ k \notin acted' => held'[k] = held[k]
<1>1. key[k] \in KeyState /\ lowrun[k] \in Last /\ lows[k] \in Last /\ highs[k] \in Last
  BY DEF KeyTypes
<1>2. key'[k] = Sampled(k, down)
  BY DEF Scan
<1>3. /\ k \in down => key'[k] = SampleDown(key[k])
      /\ k \notin down => key'[k] = SampleUp(key[k])
  BY <1>2 DEF Sampled
<1>4. key'[k] \in KeyState
  BY <1>1, <1>3, SampleUpIs, SampleDownIs
<1>5. /\ lowrun'[k] = IF k \in down THEN Capped(lowrun[k] + 1) ELSE 0
      /\ lows'[k]  = IF k \in acted' THEN 0
                     ELSE IF k \in down THEN Capped(lows[k] + 1) ELSE lows[k]
      /\ highs'[k] = IF k \in acted' THEN 0
                     ELSE IF k \in down THEN highs[k] ELSE Capped(highs[k] + 1)
      /\ held'[k]  = IF k \in acted' THEN k \in down ELSE held[k]
  BY DEF Scan, Observe
<1> QED BY <1>1, <1>3, <1>4, <1>5

LEMMA ScanKeyTypes ==
    ASSUME KeyTypes, NEW down, Scan(down)
    PROVE  KeyTypes'
<1>1. key' = [k \in Key |-> Sampled(k, down)]
  BY DEF Scan
<1>2. key' \in [Key -> KeyState]
  <2>1. ASSUME NEW k \in Key PROVE Sampled(k, down) \in KeyState
    <3>1. key[k] \in KeyState
      BY DEF KeyTypes
    <3>2. PICK t, u : t = SampleUp(key[k]) /\ u = SampleDown(key[k])
      OBVIOUS
    <3>3. t \in KeyState
      BY <3>1, <3>2, SampleUpIs
    <3>4. u \in KeyState
      BY <3>1, <3>2, SampleDownIs
    <3> QED BY <3>2, <3>3, <3>4 DEF Sampled
  <2> QED BY <1>1, <2>1
<1>3. lowrun' \in [Key -> Last] /\ lows' \in [Key -> Last] /\ highs' \in [Key -> Last]
  <2>1. \A k \in Key : /\ Capped(lowrun[k] + 1) \in Last /\ Capped(lows[k] + 1) \in Last
                       /\ Capped(highs[k] + 1) \in Last
                       /\ lows[k] \in Last /\ highs[k] \in Last
    BY Count DEF KeyTypes
  <2>2. 0 \in Last
    BY Times DEF Last
  <2>3. lowrun' \in [Key -> Last]
    BY <2>1, <2>2 DEF Scan, Observe
  <2>4. lows' \in [Key -> Last]
    BY <2>1, <2>2 DEF Scan, Observe
  <2>5. highs' \in [Key -> Last]
    BY <2>1, <2>2 DEF Scan, Observe
  <2> QED BY <2>3, <2>4, <2>5
<1>4. held' \in [Key -> BOOLEAN]
  <2>1. ASSUME NEW k \in Key
        PROVE  (IF k \in acted' THEN k \in down ELSE held[k]) \in BOOLEAN
    <3>1. held[k] \in BOOLEAN /\ (k \in down) \in BOOLEAN
      BY DEF KeyTypes
    <3> QED BY <3>1, Zenon
  <2>2. held' = [k \in Key |-> IF k \in acted' THEN k \in down ELSE held[k]]
    BY DEF Scan, Observe
  <2> QED BY <2>1, <2>2
<1>5. acted' \subseteq Key
  BY DEF Scan, Observe
<1>6. ScanPower(key'["POWER"]) \in Status
  BY DEF KeyTypes, ScanPower, Status
<1>7. current_system_status' \in Status
  BY <1>6 DEF Scan, Status, After
<1>8. last_system_status' \in Status \ {"POWERDOFF"}
  BY DEF Scan, KeyTypes
<1>9. turned_on' \in BOOLEAN
  BY DEF Scan, Observe, KeyTypes
<1>10. asleep' \in BOOLEAN
  BY DEF Scan, KeyTypes
<1> QED BY <1>2, <1>3, <1>4, <1>5, <1>7, <1>8, <1>9, <1>10 DEF KeyTypes

LEMMA PowerActs ==
    ASSUME KeyTypes, NEW down, Scan(down)
    PROVE  /\ "POWER" \in acted' /\ turned_on' =>
                  HeldFor(key'["POWER"], KEY_LONG_HOLD_TIME)
           /\ "POWER" \in acted' /\ ~turned_on' => TurnsOff(key'["POWER"])
           /\ "POWER" \in acted' =>
                  turned_on' = (current_system_status = "POWERDOFF")
           /\ "POWER" \notin acted' => turned_on' = turned_on
           /\ ("POWER" \in acted' <=>
                  (current_system_status = "POWERDOFF")
                      # (ScanPower(key'["POWER"]) = "POWERDOFF"))
           /\ ScanPower(key'["POWER"]) # "POWERDOFF"
                  => current_system_status' # "POWERDOFF"
<1> DEFINE powered == ScanPower(key'["POWER"])
<1>1. /\ "POWER" \in acted' <=> (powered = "POWERDOFF") # (current_system_status = "POWERDOFF")
      /\ turned_on' = IF "POWER" \in acted' THEN powered # "POWERDOFF" ELSE turned_on
  BY DEF Scan, Observe, Key
<1>2. powered # "POWERDOFF" => current_system_status' # "POWERDOFF"
  BY DEF Scan, After
<1>3. /\ current_system_status = "POWERDOFF" /\ powered # "POWERDOFF" => TurnsOn(key'["POWER"])
      /\ current_system_status # "POWERDOFF" /\ powered = "POWERDOFF" => TurnsOff(key'["POWER"])
  BY DEF ScanPower
<1> HIDE DEF powered
<1>4. "POWER" \in acted' => /\ turned_on' = (powered # "POWERDOFF")
                            /\ (powered = "POWERDOFF") # (current_system_status = "POWERDOFF")
  BY <1>1
<1> QED BY <1>1, <1>2, <1>3, <1>4 DEF TurnsOn, powered

LEMMA OthersAct ==
    ASSUME KeyTypes, NEW down, Scan(down), NEW k \in {"MODE", "SELECT"}, k \in acted'
    PROVE  \/ Changes(key'[k])
           \/ /\ k = "SELECT" /\ current_system_status' = "HISTORY"
              /\ key'[k].downlast >= KEY_HOLD_TIME /\ ~key'[k].level
<1>1. CASE k = "MODE"
  BY <1>1 DEF Scan, Observe
<1>2. CASE k = "SELECT"
  <2>1. sub_function'
    BY <1>2 DEF Scan, Observe
  <2> QED BY <1>2, <2>1 DEF Scan
<1> QED BY <1>1, <1>2

-------------------------------------------------------------------------------
(* The parts of the invariant, through a scan.                             *)

LEMMA RunStep ==
    ASSUME KeyTypes, NEW down, Scan(down), NEW k \in Key, RunKept(k)
    PROVE  RunKept(k)'
<1>1. /\ key[k] \in KeyState /\ key'[k] \in KeyState /\ lowrun[k] \in Last
      /\ k \in down => /\ key'[k] = SampleDown(key[k])
                       /\ lowrun'[k] = Capped(lowrun[k] + 1)
      /\ k \notin down => key'[k] = SampleUp(key[k]) /\ lowrun'[k] = 0
  BY ScanOf
<1>2. CASE k \in down
  <2>1. lowrun'[k] = IF lowrun[k] = LAST_CAP THEN LAST_CAP ELSE lowrun[k] + 1
    BY <1>1, <1>2, Count
  <2>2. /\ key'[k].level <=> key[k].level /\ key[k].uplast < KEY_CLICK_TIME
        /\ key'[k].downlast = IF key[k].level /\ key[k].uplast >= KEY_CLICK_TIME THEN 1
                              ELSE IF key[k].downlast = LAST_CAP THEN LAST_CAP
                                   ELSE key[k].downlast + 1
    BY <1>1, <1>2, SampleDownIs
  <2> QED BY <1>1, <2>1, <2>2, Times DEF RunKept, KeyState, Last
<1>3. CASE k \notin down
  <2>1. /\ key'[k].level <=> key[k].level \/ key[k].downlast >= KEY_CLICK_TIME
        /\ key'[k].downlast = key[k].downlast
    BY <1>1, <1>3, SampleUpIs
  <2> QED BY <1>1, <1>3, <2>1, Times DEF RunKept, KeyState, Last
<1> QED BY <1>2, <1>3

(* While it goes on, the press of a hold that acted does not act again.    *)
LEMMA SinceActsNot ==
    ASSUME KeyTypes, NEW down, Scan(down), NEW k \in Key,
           NEW hold \in {KEY_HOLD_TIME, KEY_LONG_HOLD_TIME},
           Since(k, hold), highs[k] < KEY_CLICK_TIME
    PROVE  /\ ~HeldFor(key'[k], hold) /\ ~Clicked(key'[k], hold)
           /\ key'[k].downlast >= hold
           /\ key'[k].level => key'[k].uplast <= highs[k] + 1
           /\ k \in down => (key'[k].level => key'[k].uplast <= highs[k])
           /\ ~key'[k].level => /\ ~key[k].level
                                /\ key'[k].downlast <= key[k].downlast + 1
                                /\ k \in down
<1>1. /\ key[k] \in KeyState /\ key'[k] \in KeyState /\ highs[k] \in Last
      /\ k \in down => key'[k] = SampleDown(key[k])
      /\ k \notin down => key'[k] = SampleUp(key[k])
  BY ScanOf
<1>2. /\ key[k].downlast >= hold /\ key[k].downlast \in Last /\ key[k].uplast \in Last
      /\ key[k].level => key[k].uplast <= highs[k]
      /\ hold \in Nat /\ hold > KEY_CLICK_TIME /\ hold < LAST_CAP
  BY <1>1, Times DEF Since, KeyState, Last
<1>3. CASE k \in down
  <2>1. /\ key'[k].level <=> key[k].level /\ key[k].uplast < KEY_CLICK_TIME
        /\ key'[k].uplast = key[k].uplast
        /\ key'[k].downlast = IF key[k].level /\ key[k].uplast >= KEY_CLICK_TIME THEN 1
                              ELSE IF key[k].downlast = LAST_CAP THEN LAST_CAP
                                   ELSE key[k].downlast + 1
    BY <1>1, <1>3, SampleDownIs
  <2> QED BY <1>1, <1>2, <1>3, <2>1, Times DEF HeldFor, Clicked, Last
<1>4. CASE k \notin down
  <2>1. /\ key'[k].level <=> key[k].level \/ key[k].downlast >= KEY_CLICK_TIME
        /\ key'[k].downlast = key[k].downlast
        /\ key'[k].uplast = IF ~key[k].level /\ key[k].downlast >= KEY_CLICK_TIME THEN 1
                            ELSE IF key[k].uplast = LAST_CAP THEN LAST_CAP
                                 ELSE key[k].uplast + 1
    BY <1>1, <1>4, SampleUpIs
  <2> QED BY <1>1, <1>2, <1>4, <2>1, Times DEF HeldFor, Clicked, Last
<1> QED BY <1>3, <1>4

LEMMA SinceStep ==
    ASSUME KeyTypes, NEW down, Scan(down), NEW k \in Key, k \notin acted',
           NEW hold \in {KEY_HOLD_TIME, KEY_LONG_HOLD_TIME}, Since(k, hold)
    PROVE  Since(k, hold)'
<1>1. /\ highs[k] \in Last
      /\ k \in down => highs'[k] = highs[k]
      /\ k \notin down => highs'[k] = Capped(highs[k] + 1)
  BY ScanOf
<1>2. Capped(highs[k] + 1) = IF highs[k] = LAST_CAP THEN LAST_CAP ELSE highs[k] + 1
  BY <1>1, Count
<1>3. CASE highs[k] >= KEY_CLICK_TIME
  BY <1>1, <1>2, <1>3, Times DEF Since, Last
<1>4. CASE highs[k] < KEY_CLICK_TIME
  <2>1. /\ key'[k].downlast >= hold
        /\ key'[k].level => key'[k].uplast <= highs[k] + 1
        /\ k \in down => (key'[k].level => key'[k].uplast <= highs[k])
    BY <1>4, SinceActsNot
  <2> QED BY <1>1, <1>2, <1>4, <2>1, Times DEF Since, Last
<1> QED BY <1>1, <1>3, <1>4, Times DEF Last

LEMMA PressStep ==
    ASSUME KeyTypes, NEW down, Scan(down), NEW k \in {"MODE", "SELECT"}, PressCounted(k)
    PROVE  PressCounted(k)'
<1>1. /\ k \in Key
      /\ key[k] \in KeyState /\ key'[k] \in KeyState /\ lows[k] \in Last
      /\ k \in down => /\ key'[k] = SampleDown(key[k])
                       /\ k \notin acted' => lows'[k] = Capped(lows[k] + 1)
      /\ k \notin down => /\ key'[k] = SampleUp(key[k])
                          /\ k \notin acted' => lows'[k] = lows[k]
  BY ScanOf DEF Key
<1>2. CASE k \in acted'
  <2>1. \/ HeldFor(key'[k], KEY_HOLD_TIME) \/ Clicked(key'[k], KEY_HOLD_TIME)
        \/ key'[k].downlast >= KEY_HOLD_TIME
    BY <1>2, OthersAct DEF Changes
  <2> QED BY <1>1, <2>1, Times DEF HeldFor, Clicked, PressCounted
<1>3. CASE k \in down /\ k \notin acted'
  <2>1. lows'[k] = IF lows[k] = LAST_CAP THEN LAST_CAP ELSE lows[k] + 1
    BY <1>1, <1>3, Count
  <2>2. /\ key'[k].level <=> key[k].level /\ key[k].uplast < KEY_CLICK_TIME
        /\ key'[k].downlast = IF key[k].level /\ key[k].uplast >= KEY_CLICK_TIME THEN 1
                              ELSE IF key[k].downlast = LAST_CAP THEN LAST_CAP
                                   ELSE key[k].downlast + 1
    BY <1>1, <1>3, SampleDownIs
  <2> QED BY <1>1, <2>1, <2>2, Times DEF PressCounted, KeyState, Last
<1>4. CASE k \notin down /\ k \notin acted'
  <2>1. /\ key'[k].level <=> key[k].level \/ key[k].downlast >= KEY_CLICK_TIME
        /\ key'[k].downlast = key[k].downlast
        /\ key'[k].uplast = IF ~key[k].level /\ key[k].downlast >= KEY_CLICK_TIME THEN 1
                            ELSE IF key[k].uplast = LAST_CAP THEN LAST_CAP
                                 ELSE key[k].uplast + 1
    BY <1>1, <1>4, SampleUpIs
  <2> QED BY <1>1, <1>4, <2>1, Times DEF PressCounted, KeyState, Last
<1> QED BY <1>2, <1>3, <1>4

\* A hold that acts starts what Since says.
LEMMA HeldStep ==
    ASSUME KeyTypes, NEW down, Scan(down), NEW k \in {"MODE", "SELECT"},
           held[k] => Since(k, KEY_HOLD_TIME)
    PROVE  held'[k] => Since(k, KEY_HOLD_TIME)'
<1>1. k \in Key /\ key[k] \in KeyState /\ key'[k] \in KeyState
  BY ScanOf DEF Key
<1>2. CASE k \notin acted'
  BY <1>1, <1>2, ScanOf, SinceStep
<1>3. CASE k \in acted' /\ k \in down
  <2>1. /\ key'[k].level <=> key[k].level /\ key[k].uplast < KEY_CLICK_TIME
        /\ key'[k].uplast = key[k].uplast
    BY <1>1, <1>3, ScanOf, SampleDownIs
  <2>2. ~Clicked(key'[k], KEY_HOLD_TIME)
    BY <1>1, <2>1, Times DEF Clicked, KeyState, Last
  <2>3. key'[k].downlast >= KEY_HOLD_TIME /\ ~key'[k].level
    BY <1>3, <2>2, OthersAct, Times DEF Changes, HeldFor
  <2> QED BY <2>3 DEF Since
<1>4. CASE k \in acted' /\ k \notin down
  BY <1>1, <1>4, ScanOf
<1> QED BY <1>2, <1>3, <1>4

LEMMA TurnedOnStep ==
    ASSUME KeyTypes, TurnedOn, NEW down, Scan(down)
    PROVE  TurnedOn'
<1>1. /\ "POWER" \in Key /\ key["POWER"] \in KeyState /\ key'["POWER"] \in KeyState
      /\ lows["POWER"] \in Last /\ highs["POWER"] \in Last
  BY ScanOf DEF Key
<1>2. SUFFICES ASSUME turned_on' PROVE TurnedOn'
  BY DEF TurnedOn
<1>3. CASE "POWER" \in acted'
  <2>1. HeldFor(key'["POWER"], KEY_LONG_HOLD_TIME) /\ current_system_status = "POWERDOFF"
    BY <1>2, <1>3, PowerActs
  <2>2. current_system_status' # "POWERDOFF"
    BY <1>3, <2>1, PowerActs
  <2>3. lows'["POWER"] = 0
    BY <1>1, <1>3, ScanOf
  <2> QED BY <1>1, <2>1, <2>2, <2>3, Times DEF TurnedOn, Since, HeldFor
<1>4. CASE "POWER" \notin acted'
  <2>1. /\ turned_on /\ current_system_status # "POWERDOFF"
        /\ Since("POWER", KEY_LONG_HOLD_TIME)
        /\ \/ highs["POWER"] >= KEY_CLICK_TIME
           \/ key["POWER"].level
           \/ key["POWER"].downlast <= KEY_LONG_HOLD_TIME + lows["POWER"]
    BY <1>2, <1>4, PowerActs DEF TurnedOn
  <2>2. current_system_status' # "POWERDOFF"
    BY <1>4, <2>1, PowerActs
  <2>3. Since("POWER", KEY_LONG_HOLD_TIME)'
    BY <1>1, <1>4, <2>1, SinceStep
  <2>4. CASE highs["POWER"] >= KEY_CLICK_TIME
    <3>1. highs'["POWER"] \in {highs["POWER"], Capped(highs["POWER"] + 1)}
      BY <1>1, <1>4, ScanOf
    <3>2. highs'["POWER"] >= KEY_CLICK_TIME
      BY <1>1, <2>4, <3>1, Count, Times DEF Last
    <3> QED BY <2>2, <2>3, <3>2 DEF TurnedOn
  <2>5. CASE highs["POWER"] < KEY_CLICK_TIME /\ ~key'["POWER"].level
    <3>1. /\ ~key["POWER"].level /\ "POWER" \in down
          /\ key'["POWER"].downlast <= key["POWER"].downlast + 1
      BY <1>1, <2>1, <2>5, SinceActsNot
    <3>2. lows'["POWER"] = IF lows["POWER"] = LAST_CAP THEN LAST_CAP ELSE lows["POWER"] + 1
      BY <1>1, <1>4, <3>1, ScanOf, Count
    <3>3. key'["POWER"].downlast <= KEY_LONG_HOLD_TIME + lows'["POWER"]
      BY <1>1, <2>1, <2>5, <3>1, <3>2, Times DEF KeyState, Last
    <3> QED BY <2>2, <2>3, <3>3 DEF TurnedOn
  <2>6. CASE key'["POWER"].level
    BY <2>2, <2>3, <2>6 DEF TurnedOn
  <2> QED BY <1>1, <2>4, <2>5, <2>6, Times DEF Last
<1> QED BY <1>3, <1>4

-------------------------------------------------------------------------------
LEMMA ScanInv ==
    ASSUME KeysInv, NEW down, Scan(down)
    PROVE  KeysInv'
<1>1. KeyTypes' /\ TurnedOn'
  BY ScanKeyTypes, TurnedOnStep DEF KeysInv
<1>2. asleep' => current_system_status' = "POWERDOFF"
  BY DEF Scan
<1>3. ("POWER" \in acted /\ turned_on => HeldFor(key["POWER"], KEY_LONG_HOLD_TIME))'
  BY PowerActs DEF KeysInv
<1>4. RunKept("POWER")'
  BY RunStep DEF KeysInv, Key
<1>5. \A k \in {"MODE", "SELECT"} : PressCounted(k)'
  BY PressStep DEF KeysInv
<1>6. \A k \in {"MODE", "SELECT"} : held'[k] => Since(k, KEY_HOLD_TIME)'
  BY HeldStep DEF KeysInv
<1> QED BY <1>1, <1>2, <1>3, <1>4, <1>5, <1>6 DEF KeysInv

\* The power key is prepared for its next samples; it turned nothing on.
LEMMA WakeByKeyInv ==
    ASSUME KeysInv, WakeByKey
    PROVE  KeysInv'
<1>1. key \in [Key -> KeyState] /\ "POWER" \in Key /\ key["POWER"] \in KeyState
  BY DEF KeysInv, KeyTypes, Key
<1>2. PICK r : r = [key["POWER"] EXCEPT !.downlast = 0, !.uplast = KEY_CLICK_TIME]
  OBVIOUS
<1>3. r \in KeyState /\ r.downlast = 0
  <2>1. 0 \in Last /\ KEY_CLICK_TIME \in Last
    BY Times DEF Last
  <2> QED BY <1>1, <1>2, <2>1 DEF KeyState
<1>4. key' = [key EXCEPT !["POWER"] = r]
  BY <1>2 DEF WakeByKey
<1>5. key' \in [Key -> KeyState] /\ key'["POWER"] = r
      /\ \A k \in {"MODE", "SELECT"} : key'[k] = key[k]
  BY <1>1, <1>3, <1>4 DEF Key
<1>6. ~turned_on /\ ~turned_on'
  BY DEF KeysInv, TurnedOn, WakeByKey, seen
<1>7. KeyTypes'
  BY <1>5 DEF KeysInv, KeyTypes, WakeByKey, seen
<1>8. RunKept("POWER")'
  <2>1. lowrun'["POWER"] \in Nat
    BY <1>1 DEF KeysInv, KeyTypes, WakeByKey, seen, Last
  <2> QED BY <1>3, <1>5, <2>1, Times DEF RunKept
<1>9. \A k \in {"MODE", "SELECT"} : PressCounted(k)' /\ (held'[k] => Since(k, KEY_HOLD_TIME)')
  BY <1>5 DEF KeysInv, PressCounted, Since, WakeByKey, seen
<1> QED BY <1>6, <1>7, <1>8, <1>9 DEF KeysInv, TurnedOn, WakeByKey

LEMMA InitKeysInv == Init => KeysInv
<1> SUFFICES ASSUME Init PROVE KeysInv
  OBVIOUS
<1>1. 0 \in Last
  BY Times DEF Last
<1>2. [level |-> FALSE, uplast |-> 0, downlast |-> 0] \in KeyState
  BY <1>1 DEF KeyState
<1>3. KeyTypes
  BY <1>1, <1>2 DEF Init, KeyTypes, Status
<1>4. \A k \in Key : key[k].downlast = 0 /\ lowrun[k] = 0 /\ lows[k] = 0 /\ ~held[k]
  BY DEF Init
<1>5. RunKept("POWER") /\ \A k \in {"MODE", "SELECT"} : PressCounted(k)
  BY <1>4, Times DEF RunKept, PressCounted, Key
<1> QED BY <1>3, <1>4, <1>5 DEF Init, KeysInv, TurnedOn, Key

LEMMA NextKeysInv == KeysInv /\ [Next]_vars => KeysInv'
<1> SUFFICES ASSUME KeysInv, [Next]_vars PROVE KeysInv'
  OBVIOUS
<1>1. ASSUME NEW down \in SUBSET {finger}, Scan(down) PROVE KeysInv'
  BY <1>1, ScanInv
<1>2. CASE OtherChange
  <2>1. KeyTypes' /\ ~turned_on' /\ acted' = {} /\ ~asleep'
    BY <1>2 DEF OtherChange, KeysInv, KeyTypes
  <2>2. <<key, lowrun, lows, highs, held>>' = <<key, lowrun, lows, highs, held>>
    BY <1>2 DEF OtherChange
  <2> QED BY <2>1, <2>2 DEF KeysInv, TurnedOn, RunKept, PressCounted, Since
<1>3. ASSUME <<key, current_system_status, last_system_status, turned_on, lowrun, lows,
               highs, held>>' = <<key, current_system_status, last_system_status,
                                  turned_on, lowrun, lows, highs, held>>,
             acted' \in {acted, {}}, asleep' \in BOOLEAN,
             asleep' => current_system_status = "POWERDOFF"
      PROVE  KeysInv'
  <2>1. KeyTypes'
    BY <1>3 DEF KeysInv, KeyTypes
  <2> QED BY <1>3, <2>1 DEF KeysInv, TurnedOn, RunKept, PressCounted, Since, HeldFor
<1>4. CASE Sleep
  BY <1>3, <1>4 DEF Sleep, seen
<1>5. CASE WakeByOther
  BY <1>3, <1>5 DEF WakeByOther, seen
<1>6. CASE UNCHANGED vars
  BY <1>3, <1>6 DEF vars, KeysInv, KeyTypes
<1> QED BY <1>1, <1>2, <1>4, <1>5, <1>6, WakeByKeyInv DEF Next

(* KeysInv always holds: what the counts of a key say of its pin.          *)
THEOREM KeysInvariant == Spec => []KeysInv
BY InitKeysInv, NextKeysInv, PTL DEF Spec

-------------------------------------------------------------------------------
(* The properties of Keys, for all times of clicks and holds.              *)

(* The device is turned on by key only when the power key was down without *)
(* a break for all of KEY_LONG_HOLD_TIME but the click time.               *)
THEOREM PowersOnDeliberately == Spec => []PowerOnDeliberate
<1>1. ASSUME KeysInv, "POWER" \in acted, turned_on
      PROVE  lowrun["POWER"] > KEY_LONG_HOLD_TIME - KEY_CLICK_TIME
  <2>1. /\ HeldFor(key["POWER"], KEY_LONG_HOLD_TIME) /\ RunKept("POWER")
        /\ lowrun["POWER"] \in Nat
    BY <1>1 DEF KeysInv, KeyTypes, Key, Last
  <2> QED BY <2>1, Times DEF HeldFor, RunKept
<1>2. KeysInv => PowerOnDeliberate
  BY <1>1 DEF PowerOnDeliberate
<1> QED BY <1>2, KeysInvariant, PTL

(* The press that turned the device on does not turn it off: that takes a  *)
(* release of a click time, or holding on beyond KEY_IGNORE_HOLD_TIME.     *)
THEOREM PressTurnsOnlyOnce == Spec => PressTurnsOnce
<1>1. ASSUME KeysInv, Next, turned_on, "POWER" \in acted', ~turned_on'
      PROVE  \/ highs["POWER"] >= KEY_CLICK_TIME
             \/ lows["POWER"] >= KEY_IGNORE_HOLD_TIME - KEY_LONG_HOLD_TIME
  <2>1. PICK down \in SUBSET {finger} : Scan(down)
    BY <1>1 DEF Next, OtherChange, Sleep, WakeByKey, WakeByOther
  <2>2. SUFFICES ASSUME highs["POWER"] < KEY_CLICK_TIME
                 PROVE  lows["POWER"] >= KEY_IGNORE_HOLD_TIME - KEY_LONG_HOLD_TIME
    <3>1. highs["POWER"] \in Nat
      BY <1>1 DEF KeysInv, KeyTypes, Last, Key
    <3> QED BY <3>1, Times
  <2>3. /\ KeyTypes /\ "POWER" \in Key /\ Since("POWER", KEY_LONG_HOLD_TIME)
        /\ key["POWER"].level
           \/ key["POWER"].downlast <= KEY_LONG_HOLD_TIME + lows["POWER"]
    BY <1>1, <2>2, Times DEF KeysInv, KeyTypes, TurnedOn, Key, Last
  <2>4. TurnsOff(key'["POWER"])
    BY <1>1, <2>1, <2>3, PowerActs
  <2>5. key'["POWER"].downlast > KEY_IGNORE_HOLD_TIME /\ ~key'["POWER"].level
    BY <2>1, <2>2, <2>3, <2>4, SinceActsNot DEF TurnsOff
  <2>6. ~key["POWER"].level /\ key'["POWER"].downlast <= key["POWER"].downlast + 1
    BY <2>1, <2>2, <2>3, <2>5, SinceActsNot
  <2>7. /\ key["POWER"].downlast \in Nat /\ key'["POWER"].downlast \in Nat
        /\ lows["POWER"] \in Nat
    BY <2>1, <2>3, ScanOf DEF KeyState, Last
  <2> QED BY <2>3, <2>5, <2>6, <2>7, Times
<1>2. KeysInv /\ [Next]_vars =>
          [turned_on /\ "POWER" \in acted' /\ ~turned_on'
               => \/ highs["POWER"] >= KEY_CLICK_TIME
                  \/ lows["POWER"] >= KEY_IGNORE_HOLD_TIME - KEY_LONG_HOLD_TIME]_vars
  BY <1>1
<1> QED BY <1>2, KeysInvariant, PTL DEF Spec, PressTurnsOnce

(* Every act of MODE and SELECT has more than a click time of down samples *)
(* of its own, and after a hold that acted the key was up for a click      *)
(* time; holding SELECT in SYSTEM_HISTORY repeats.                         *)
THEOREM PressActsOnce == Spec => OneActPerPress
<1>1. ASSUME KeysInv, Next, NEW k \in {"MODE", "SELECT"}, k \in acted',
             ~(k = "SELECT" /\ current_system_status' = "HISTORY")
      PROVE  /\ lows[k] + (IF lowrun'[k] > 0 THEN 1 ELSE 0) > KEY_CLICK_TIME
             /\ held[k] => highs[k] >= KEY_CLICK_TIME
  <2>1. PICK down \in SUBSET {finger} : Scan(down)
    BY <1>1 DEF Next, OtherChange, Sleep, WakeByKey, WakeByOther
  <2>2. /\ KeyTypes /\ k \in Key /\ PressCounted(k) /\ (held[k] => Since(k, KEY_HOLD_TIME))
    BY <1>1 DEF KeysInv, Key
  <2>3. HeldFor(key'[k], KEY_HOLD_TIME) \/ Clicked(key'[k], KEY_HOLD_TIME)
    BY <1>1, <2>1, <2>2, OthersAct DEF Changes
  <2>4. held[k] => highs[k] >= KEY_CLICK_TIME
    <3>1. held[k] => ~(highs[k] < KEY_CLICK_TIME)
      BY <2>1, <2>2, <2>3, SinceActsNot
    <3>2. highs[k] \in Nat
      BY <2>2 DEF KeyTypes, Last
    <3> QED BY <3>1, <3>2, Times
  <2>5. /\ key[k] \in KeyState /\ lows[k] \in Last /\ lowrun[k] \in Last
        /\ k \in down => /\ key'[k] = SampleDown(key[k])
                         /\ lowrun'[k] = Capped(lowrun[k] + 1)
        /\ k \notin down => key'[k] = SampleUp(key[k]) /\ lowrun'[k] = 0
    BY <2>1, <2>2, ScanOf
  <2>6. CASE k \in down
    <3>1. lowrun'[k] > 0
      BY <2>5, <2>6, Count, Times DEF Last
    <3>2. /\ key'[k].level <=> key[k].level /\ key[k].uplast < KEY_CLICK_TIME
          /\ key'[k].uplast = key[k].uplast
          /\ key'[k].downlast = IF key[k].level /\ key[k].uplast >= KEY_CLICK_TIME THEN 1
                                ELSE IF key[k].downlast = LAST_CAP THEN LAST_CAP
                                     ELSE key[k].downlast + 1
      BY <2>5, <2>6, SampleDownIs
    <3>3. key'[k].downlast = KEY_HOLD_TIME /\ ~key'[k].level
      BY <2>3, <2>5, <3>2, Times DEF HeldFor, Clicked, KeyState, Last
    <3>4. lows[k] + 1 > KEY_CLICK_TIME
      BY <2>2, <2>5, <3>2, <3>3, Times DEF PressCounted, KeyState, Last
    <3> QED BY <2>4, <3>1, <3>4
  <2>7. CASE k \notin down
    <3>1. /\ key'[k].level <=> key[k].level \/ key[k].downlast >= KEY_CLICK_TIME
          /\ key'[k].downlast = key[k].downlast
          /\ key'[k].uplast = IF ~key[k].level /\ key[k].downlast >= KEY_CLICK_TIME THEN 1
                              ELSE IF key[k].uplast = LAST_CAP THEN LAST_CAP
                                   ELSE key[k].uplast + 1
      BY <2>5, <2>7, SampleUpIs
    <3>2. Clicked(key'[k], KEY_HOLD_TIME)
      BY <2>3, <2>5, <3>1, Times DEF HeldFor, KeyState, Last
    <3>3. lows[k] > KEY_CLICK_TIME
      BY <2>2, <2>5, <3>1, <3>2, Times DEF Clicked, PressCounted, KeyState, Last
    <3> QED BY <2>4, <2>5, <2>7, <3>3 DEF Last
  <2> QED BY <2>6, <2>7
<1>2. KeysInv /\ [Next]_vars =>
          [\A k \in {"MODE", "SELECT"} :
               k \in acted' /\ ~(k = "SELECT" /\ current_system_status' = "HISTORY")
                   => /\ lows[k] + (IF lowrun'[k] > 0 THEN 1 ELSE 0) > KEY_CLICK_TIME
                      /\ held[k] => highs[k] >= KEY_CLICK_TIME]_vars
  BY <1>1
<1> QED BY <1>2, KeysInvariant, PTL DEF Spec, OneActPerPress

-------------------------------------------------------------------------------
(* The light: what caldust counts, for every number of samples, every      *)
(* ground, every threshold and every window.                               *)

(* What the proofs need of the types: toohigh_value and i play no part.    *)
Typed ==
    /\ statu \in {"LOW", "HIGH"}
    /\ {currentdata, last1} \subseteq Nat
    /\ kangle \in Int /\ width \in Nat /\ hight \in Nat
    /\ tmp_value \in [Size -> Int]
    /\ steep \in BOOLEAN

(* A pulse is under way only after a steep rise: what it adds when it is   *)
(* over is then covered too.                                               *)
Risen == (statu = "HIGH" \/ \E s \in Size : tmp_value[s] # 0) => steep

PulseInv == Typed /\ Risen

(* The weight of a pulse is an integer.                                    *)
LEMMA ValueTyped ==
    ASSUME NEW w \in Nat, NEW h \in Nat
    PROVE  Value(w, h) \in Int
<1>1. w * h * h \in Int
    OBVIOUS
<1> QED
    BY <1>1, LevelAssumption DEF Value

(* Adding a pulse leaves an integer.                                       *)
LEMMA AddedTyped ==
    ASSUME NEW t \in Int, NEW s \in Size, NEW w \in Nat, NEW h \in Nat
    PROVE  Added(t, s, w, h) \in Int
BY ValueTyped DEF Added

(* The circle starts with nothing counted.                                 *)
LEMMA InitPulseInv == InitPulse => PulseInv
<1> SUFFICES ASSUME InitPulse
             PROVE  PulseInv
    OBVIOUS
<1>1. Ground \in Nat
    BY LevelAssumption
<1>2. Typed
    <2>1. tmp_value \in [Size -> Int]
        BY DEF InitPulse
    <2>2. steep \in BOOLEAN
        BY DEF InitPulse
    <2>3. /\ statu \in {"LOW", "HIGH"}
          /\ {currentdata, last1} \subseteq Nat
          /\ kangle \in Int /\ width \in Nat /\ hight \in Nat
        BY <1>1 DEF InitPulse
    <2> QED
        BY <2>1, <2>2, <2>3 DEF Typed
<1>3. \A s \in Size : tmp_value[s] = 0
    BY DEF InitPulse
<1>4. Risen
    BY <1>3 DEF InitPulse, Risen
<1> QED
    BY <1>2, <1>4 DEF PulseInv

(* A rise keeps the sums and starts a pulse.                               *)
LEMMA RiseKeeps ==
    ASSUME PulseInv, NEW data \in Nat, NEW before \in Nat, Rise(data, before),
           steep', {currentdata', last1'} \subseteq Nat, steep' \in BOOLEAN
    PROVE  PulseInv'
    BY DEF PulseInv, Typed, Risen, Rise

(* A sample within a pulse moves its width and height only.                *)
LEMMA StayKeeps ==
    ASSUME PulseInv, NEW data \in Nat, Stay(data),
           steep => steep', {currentdata', last1'} \subseteq Nat,
           steep' \in BOOLEAN
    PROVE  PulseInv'
<1>1. Ground \in Nat
    BY LevelAssumption
<1>2. hight' \in Nat /\ width' \in Nat
    BY <1>1 DEF PulseInv, Typed, Stay
<1> QED
    BY <1>2 DEF PulseInv, Typed, Risen, Stay

(* The end of a pulse adds it where it fits.                               *)
LEMMA FallKeeps ==
    ASSUME PulseInv, statu = "HIGH", Fall,
           steep => steep', {currentdata', last1'} \subseteq Nat,
           steep' \in BOOLEAN
    PROVE  PulseInv'
<1>1. Typed'
    <2>1. \A s \in Size : Added(tmp_value[s], s, width, hight) \in Int
        BY AddedTyped DEF PulseInv, Typed
    <2> QED
        BY <2>1 DEF PulseInv, Typed, Fall
<1>2. Risen'
    BY DEF PulseInv, Risen, Fall
<1> QED
    BY <1>1, <1>2 DEF PulseInv

(* One pass of the sampling loop.                                          *)
LEMMA SampleKeeps ==
    ASSUME PulseInv, NEW data \in Level, Sample(data)
    PROVE  PulseInv'
<1>1. data \in Nat
    BY LevelAssumption
<1>2. /\ {currentdata', last1'} \subseteq Nat
      /\ steep => steep'
      /\ steep' \in BOOLEAN
    BY <1>1 DEF PulseInv, Typed, Sample
<1>3. CASE statu = "LOW"
    <2>1. CASE Starts(data, currentdata, last1)
        <3>1. steep'
            BY <2>1 DEF Sample, Starts
        <3>2. Rise(data, currentdata)
            BY <1>3, <2>1 DEF Sample
        <3>3. currentdata \in Nat
            BY DEF PulseInv, Typed
        <3> QED
            BY <1>1, <1>2, <3>1, <3>2, <3>3, RiseKeeps
    <2>2. CASE ~Starts(data, currentdata, last1)
        <3>1. UNCHANGED <<statu, kangle, width, hight, tmp_value>>
            BY <1>3, <2>2 DEF Sample
        <3> QED
            BY <3>1, <1>2 DEF PulseInv, Typed, Risen
    <2> QED
        BY <2>1, <2>2
<1>4. CASE statu = "HIGH"
    <2> DEFINE before == IF Reached(data, currentdata, last1)
                         THEN last1 ELSE currentdata
    <2>1. steep /\ before \in Nat
        BY <1>4 DEF PulseInv, Typed, Risen
    <2>2. Rise(data, before) \/ Fall \/ Stay(data)
        BY <1>4 DEF Sample, Wave
    <2>3. CASE Rise(data, before)
        <3> HIDE DEF before
        <3> QED
            BY <2>1, <2>3, <1>1, <1>2, RiseKeeps
    <2>4. CASE Fall
        BY <2>4, <1>2, <1>4, FallKeeps
    <2>5. CASE Stay(data)
        BY <2>5, <1>1, <1>2, StayKeeps
    <2> QED
        BY <2>2, <2>3, <2>4, <2>5
<1> QED
    BY <1>3, <1>4 DEF PulseInv, Typed

(* Every step of a circle keeps the invariant.                             *)
LEMMA NextPulseInv == PulseInv /\ [NextPulse]_pulseVars => PulseInv'
<1> SUFFICES ASSUME PulseInv, [NextPulse]_pulseVars
             PROVE  PulseInv'
    OBVIOUS
<1>1. CASE \E data \in Level : Sample(data)
    BY <1>1, SampleKeeps
<1>2. CASE \E light \in Light : MeasureLight(light)
    BY <1>2 DEF MeasureLight, PulseInv, Typed, Risen
<1>3. CASE Restart
    <2>1. Ground \in Nat
        BY LevelAssumption
    <2>2. Typed'
        <3>1. tmp_value' \in [Size -> Int]
            BY <1>3 DEF Restart
        <3>2. steep' \in BOOLEAN
            BY <1>3 DEF Restart
        <3>3. /\ statu' \in {"LOW", "HIGH"}
              /\ {currentdata', last1'} \subseteq Nat
              /\ kangle' \in Int /\ width' \in Nat /\ hight' \in Nat
            BY <1>3, <2>1 DEF Restart
        <3> QED
            BY <3>1, <3>2, <3>3 DEF Typed
    <2>3. \A s \in Size : tmp_value'[s] = 0
        BY <1>3 DEF Restart
    <2>4. Risen'
        BY <1>3, <2>3 DEF Restart, Risen
    <2> QED
        BY <2>2, <2>4 DEF PulseInv
<1>4. CASE UNCHANGED pulseVars
    BY <1>4 DEF pulseVars, PulseInv, Typed, Risen
<1> QED
    BY <1>1, <1>2, <1>3, <1>4 DEF NextPulse

(* caldust: however long the circle and whatever the light does, nothing   *)
(* is counted without a steep rise.                                        *)
THEOREM OnlyRisesCount == SpecPulse => []RisesCounted
<1>1. PulseInv => RisesCounted
    BY DEF PulseInv, Risen, RisesCounted
<1> QED
    BY InitPulseInv, NextPulseInv, <1>1, PTL DEF SpecPulse

-------------------------------------------------------------------------------
(* The weight of a circle.  EnergyBounded alone is not inductive: what a   *)
(* pulse will add depends on its width and height, so the samples of the   *)
(* pulse under way are set aside and its height stays below the highest    *)
(* sample.                                                                 *)
Peak == top - Ground

EnergyInv ==
    /\ i \in Nat /\ top \in Nat /\ Peak \in Nat
    /\ \A s \in Size : tmp_value[s] * SCALE <= i * (Peak * Peak)
    /\ statu = "HIGH" =>
           /\ width <= i
           /\ hight <= Peak
           /\ \A s \in Size : tmp_value[s] * SCALE <= (i - width) * (Peak * Peak)

(* The shift throws away what it cannot represent: a pulse weighs at most  *)
(* its width times the square of its height.                               *)
LEMMA ValueBelow ==
    ASSUME NEW w \in Nat, NEW h \in Nat
    PROVE  /\ Value(w, h) \in Nat
           /\ Value(w, h) * SCALE <= w * (h * h)
<1>1. PICK n \in Nat : n = w * h * h
    OBVIOUS
<1>2. w * (h * h) = n
    BY <1>1
<1>3. SCALE \in Nat /\ SCALE > 0
    BY LevelAssumption
<1>4. PICK q \in Int : q = n \div SCALE
    BY <1>3
<1>5. q \in Nat /\ q * SCALE <= n
    <2>1. PICK r \in 0 .. SCALE - 1 : n = SCALE * q + r
        <3>1. n % SCALE \in 0 .. SCALE - 1 /\ n = SCALE * (n \div SCALE) + (n % SCALE)
            BY <1>3
        <3> QED
            BY <3>1, <1>4
    <2>2. q >= 0
        <3>1. SUFFICES ASSUME q < 0 PROVE FALSE
            OBVIOUS
        <3>2. PICK p \in Nat : q = -1 - p
            BY <3>1
        <3>3. SCALE * q = -SCALE - SCALE * p /\ SCALE * p >= 0
            BY <3>2, <1>3
        <3> QED
            BY <3>3, <2>1, <1>3
    <2>3. q * SCALE = SCALE * q
        BY <1>3
    <2> QED
        BY <2>1, <2>2, <2>3, <1>3
<1> QED
    BY <1>1, <1>2, <1>4, <1>5 DEF Value

(* A pulse that is over weighs no more than its own samples at the peak.   *)
LEMMA AddedBelow ==
    ASSUME NEW t \in Int, NEW s \in Size, NEW w \in Nat, NEW h \in Nat,
           NEW n \in Nat, NEW p \in Nat, w <= n, h <= p,
           t * SCALE <= (n - w) * (p * p)
    PROVE  Added(t, s, w, h) * SCALE <= n * (p * p)
<1>1. SCALE \in Nat /\ SCALE > 0
    BY LevelAssumption
<1>2. PICK v \in Nat : v = Value(w, h) /\ v * SCALE <= w * (h * h)
    BY ValueBelow
<1>3. h * h \in Nat /\ p * p \in Nat /\ h * h <= p * p
    BY TimesGrows
<1>4. PICK e \in Nat : e = p * p
    BY <1>3
<1>5. w * (h * h) <= w * e /\ w * e \in Nat
    BY <1>3, <1>4, TimesGrows
<1>6. (n - w) * e + w * e = n * e /\ n - w \in Nat
    BY <1>4
<1>7. (n - w) * e <= n * e
    BY <1>5, <1>6
<1>8. CASE Added(t, s, w, h) = t + v
    <2>1. (t + v) * SCALE = t * SCALE + v * SCALE
        BY <1>1
    <2>2. PICK a \in Int, b \in Int, c \in Int :
              a = t * SCALE /\ b = v * SCALE /\ c = (n - w) * e
        BY <1>1, <1>6
    <2>3. a <= c /\ b <= w * e
        <3>1. h * h \in Int /\ w * (h * h) \in Int
            BY <1>3
        <3> QED
            BY <1>2, <1>4, <1>5, <2>2, <3>1
    <2>4. a + b <= c + w * e
        BY <2>3, <1>5
    <2> QED
        BY <1>4, <1>6, <1>8, <2>1, <2>2, <2>4
<1>9. CASE Added(t, s, w, h) = t
    <2>1. t * SCALE \in Int /\ (n - w) * e \in Int /\ n * e \in Int
        BY <1>1, <1>6
    <2> QED
        BY <1>4, <1>7, <1>9, <2>1
<1> QED
    BY <1>2, <1>8, <1>9 DEF Added

(* What was added stays covered while the circle and its peak grow.        *)
LEMMA StillBelow ==
    ASSUME NEW t \in Int, NEW n \in Nat, NEW p \in Nat, NEW m \in Nat,
           NEW q \in Nat, n <= m, p <= q, t * SCALE <= n * (p * p)
    PROVE  t * SCALE <= m * (q * q)
<1>1. p * p \in Nat /\ q * q \in Nat /\ p * p <= q * q
    BY TimesGrows
<1>2. /\ n * (p * p) \in Nat /\ m * (q * q) \in Nat
      /\ n * (p * p) <= m * (q * q)
    BY <1>1, TimesGrows
<1>3. t * SCALE \in Int
    BY LevelAssumption
<1> QED
    BY <1>2, <1>3

(* The circle starts with nothing counted.                                 *)
LEMMA InitEnergy == InitPulse => EnergyInv
<1> SUFFICES ASSUME InitPulse
             PROVE  EnergyInv
    OBVIOUS
<1>1. Ground \in Nat /\ SCALE \in Nat
    BY LevelAssumption
<1>2. i = 0 /\ Peak = 0 /\ top = Ground /\ statu = "LOW"
    BY <1>1 DEF InitPulse, Peak
<1>3. \A s \in Size : tmp_value[s] * SCALE <= i * (Peak * Peak)
    BY <1>1, <1>2 DEF InitPulse
<1> QED
    BY <1>1, <1>2, <1>3 DEF EnergyInv

(* One pass of the sampling loop makes the circle one sample longer.       *)
LEMMA SampleEnergy ==
    ASSUME PulseInv, EnergyInv, NEW data \in Level, Sample(data)
    PROVE  EnergyInv'
<1>1. /\ data \in Nat /\ Ground \in Nat /\ width \in Nat /\ hight \in Nat
      /\ tmp_value \in [Size -> Int]
      /\ i \in Nat /\ top \in Nat /\ Peak \in Nat
    BY LevelAssumption DEF PulseInv, Typed, EnergyInv
<1>2. /\ i' = i + 1 /\ top' \in Nat
      /\ Peak' \in Nat /\ Peak <= Peak' /\ data - Ground <= Peak'
    BY <1>1 DEF Sample, Peak
<1>3. \A s \in Size : tmp_value[s] * SCALE <= i' * (Peak' * Peak')
    <2> TAKE s \in Size
    <2>1. tmp_value[s] * SCALE <= i * (Peak * Peak) /\ tmp_value[s] \in Int
        BY <1>1 DEF EnergyInv
    <2>2. i <= i' /\ i' \in Nat
        BY <1>1, <1>2
    <2> QED
        BY <1>1, <1>2, <2>1, <2>2, StillBelow
(* A sample that starts a pulse, or belongs to none.                       *)
<1>4. ASSUME statu' = "LOW" \/ (width' = 0 /\ hight' = 0),
             tmp_value' = tmp_value
      PROVE  EnergyInv'
    <2>1. \A s \in Size : tmp_value'[s] * SCALE <= i' * (Peak' * Peak')
        BY <1>3, <1>4
    <2>2. width' = 0 => i' - width' = i' /\ width' <= i'
        BY <1>1, <1>2
    <2>3. i' \in Nat
        BY <1>1, <1>2
    <2>4. hight' = 0 => hight' <= Peak'
        BY <1>2
    <2>5. ASSUME statu' = "HIGH"
          PROVE  /\ width' <= i' /\ hight' <= Peak'
                 /\ \A s \in Size :
                        tmp_value'[s] * SCALE <= (i' - width') * (Peak' * Peak')
        BY <1>4, <2>1, <2>2, <2>4, <2>5
    <2> QED
        BY <1>2, <2>1, <2>3, <2>5 DEF EnergyInv
<1>5. CASE statu = "LOW" /\ ~Starts(data, currentdata, last1)
    BY <1>4, <1>5 DEF Sample
<1>6. ASSUME NEW before, Rise(data, before) PROVE EnergyInv'
    BY <1>4, <1>6 DEF Rise
<1>7. CASE statu = "HIGH" /\ Stay(data)
    <2>1. /\ statu' = "HIGH" /\ tmp_value' = tmp_value
          /\ width' = width + 1
          /\ hight' = IF hight + Ground < data THEN data - Ground ELSE hight
        BY <1>7 DEF Stay
    <2>2. /\ width <= i /\ hight <= Peak
          /\ \A s \in Size : tmp_value[s] * SCALE <= (i - width) * (Peak * Peak)
        BY <1>7 DEF EnergyInv
    <2>3. /\ width' <= i' /\ hight' <= Peak'
          /\ i - width \in Nat /\ i' - width' \in Nat /\ i - width <= i' - width'
          /\ i' \in Nat
        BY <1>1, <1>2, <2>1, <2>2
    <2>4. \A s \in Size : tmp_value'[s] * SCALE <= (i' - width') * (Peak' * Peak')
        <3> TAKE s \in Size
        <3>1. /\ tmp_value[s] \in Int
              /\ tmp_value[s] * SCALE <= (i - width) * (Peak * Peak)
            BY <1>1, <2>2
        <3>2. tmp_value[s] * SCALE <= (i' - width') * (Peak' * Peak')
            BY <1>1, <1>2, <2>3, <3>1, StillBelow
        <3> QED
            BY <2>1, <3>2
    <2>5. \A s \in Size : tmp_value'[s] * SCALE <= i' * (Peak' * Peak')
        BY <1>3, <2>1
    <2> QED
        BY <1>2, <2>3, <2>4, <2>5 DEF EnergyInv
<1>8. CASE statu = "HIGH" /\ Fall
    <2>1. /\ width <= i /\ hight <= Peak
          /\ \A s \in Size : tmp_value[s] * SCALE <= (i - width) * (Peak * Peak)
        BY <1>8 DEF EnergyInv
    <2>2. \A s \in Size : tmp_value'[s] * SCALE <= i' * (Peak' * Peak')
        <3> TAKE s \in Size
        <3>1. tmp_value'[s] = Added(tmp_value[s], s, width, hight)
            BY <1>8 DEF Fall
        <3>2. tmp_value[s] \in Int /\ tmp_value'[s] \in Int
            BY <1>1, <3>1, AddedTyped
        <3>3. Added(tmp_value[s], s, width, hight) * SCALE <= i * (Peak * Peak)
            BY <1>1, <2>1, <3>2, AddedBelow
        <3>4. i <= i' /\ i' \in Nat
            BY <1>1, <1>2
        <3> QED
            BY <1>1, <1>2, <3>1, <3>2, <3>3, <3>4, StillBelow
    <2>3. statu' = "LOW" /\ i' \in Nat
        BY <1>1, <1>2, <1>8 DEF Fall
    <2> QED
        BY <1>2, <2>2, <2>3 DEF EnergyInv
<1>9. CASE statu = "LOW" /\ Starts(data, currentdata, last1)
    BY <1>6, <1>9 DEF Sample
<1>10. CASE statu = "HIGH"
    <2>1. (\E before : Rise(data, before)) \/ Fall \/ Stay(data)
        BY <1>10 DEF Sample, Wave
    <2> QED
        BY <1>6, <1>7, <1>8, <1>10, <2>1
<1> QED
    BY <1>5, <1>9, <1>10 DEF PulseInv, Typed

(* The measurement of the light only lengthens the circle, and the next    *)
(* one starts with nothing.                                                *)
LEMMA NextEnergy == PulseInv /\ EnergyInv /\ [NextPulse]_pulseVars => EnergyInv'
<1> SUFFICES ASSUME PulseInv, EnergyInv, [NextPulse]_pulseVars
             PROVE  EnergyInv'
    OBVIOUS
<1>0. /\ i \in Nat /\ top \in Nat /\ Peak \in Nat /\ Ground \in Nat /\ SCALE \in Nat
      /\ width \in Nat /\ hight \in Nat
      /\ tmp_value \in [Size -> Int]
    BY LevelAssumption DEF PulseInv, Typed, EnergyInv
<1>1. CASE \E data \in Level : Sample(data)
    BY <1>1, SampleEnergy
<1>2. ASSUME NEW light \in Light, MeasureLight(light) PROVE EnergyInv'
    <2>1. /\ i' = i + 1 /\ UNCHANGED <<top, statu, width, hight, tmp_value>>
          /\ Peak' = Peak
        BY <1>2 DEF MeasureLight, Peak
    <2>2. ASSUME NEW s \in Size, NEW n \in Nat,
                 tmp_value[s] * SCALE <= n * (Peak * Peak)
          PROVE  tmp_value[s] * SCALE <= (n + 1) * (Peak * Peak)
        <3>1. n <= n + 1 /\ n + 1 \in Nat /\ Peak <= Peak /\ tmp_value[s] \in Int
            BY <1>0
        <3> QED
            BY <1>0, <2>2, <3>1, StillBelow
    <2>3. \A s \in Size : tmp_value'[s] * SCALE <= i' * (Peak' * Peak')
        BY <1>0, <2>1, <2>2 DEF EnergyInv
    <2>4. ASSUME statu' = "HIGH"
          PROVE  /\ width' <= i' /\ hight' <= Peak'
                 /\ \A s \in Size :
                        tmp_value'[s] * SCALE <= (i' - width') * (Peak' * Peak')
        <3>1. /\ width <= i /\ hight <= Peak
              /\ \A s \in Size : tmp_value[s] * SCALE <= (i - width) * (Peak * Peak)
            BY <2>1, <2>4 DEF EnergyInv
        <3>2. i - width \in Nat /\ i' - width' = (i - width) + 1 /\ width' <= i'
            BY <1>0, <2>1, <3>1
        <3> QED
            BY <2>1, <2>2, <3>1, <3>2
    <2>5. i' \in Nat
        BY <1>0, <2>1
    <2> QED
        BY <1>0, <2>1, <2>3, <2>4, <2>5 DEF EnergyInv
<1>3. CASE Restart
    <2>1. i' = 0 /\ top' = Ground /\ statu' = "LOW" /\ Peak' = 0
        BY <1>0, <1>3 DEF Restart, Peak
    <2>2. \A s \in Size : tmp_value'[s] = 0
        BY <1>3 DEF Restart
    <2>3. \A s \in Size : tmp_value'[s] * SCALE <= i' * (Peak' * Peak')
        BY <1>0, <2>1, <2>2
    <2> QED
        BY <1>0, <2>1, <2>3 DEF EnergyInv
<1>4. CASE UNCHANGED pulseVars
    BY <1>4 DEF pulseVars, EnergyInv, Peak
<1> QED
    BY <1>1, <1>2, <1>3, <1>4 DEF NextPulse

(* caldust: the pulses of a circle together never weigh more than one      *)
(* pulse as long as the circle and as high as its highest sample.          *)
THEOREM CircleBoundsDust == SpecPulse => []EnergyBounded
<1>1. PulseInv /\ EnergyInv => EnergyBounded
    <2> SUFFICES ASSUME PulseInv, EnergyInv, NEW s \in Size
                 PROVE  tmp_value[s] * SCALE <= i * (top - Ground) * (top - Ground)
        BY DEF EnergyBounded
    <2>1. tmp_value[s] * SCALE <= i * (Peak * Peak) /\ i \in Nat /\ Peak \in Nat
        BY DEF EnergyInv
    <2>2. i * (Peak * Peak) = i * Peak * Peak
        BY <2>1
    <2> QED
        BY <2>1, <2>2 DEF Peak
<1> QED
    BY InitPulseInv, NextPulseInv, InitEnergy, NextEnergy, <1>1, PTL DEF SpecPulse
===============================================================================
