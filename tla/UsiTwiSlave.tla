---------------------------- MODULE UsiTwiSlave ----------------------------
(***************************************************************************)
(* usiTwiSlave.c, the interrupt-driven I2C slave of the ATtiny85 nodes     *)
(* (the same file in ir-receiver-tiny85, distancesensor-tiny85 and         *)
(* timer-tiny85).  Two interrupt routines share overflowState and          *)
(* buffer_adr; the application reads rxbuffer and writes txbuffer with     *)
(* interrupts off, so its accesses interleave with whole routines only.    *)
(*                                                                         *)
(* The bus master is the environment: it may raise a start condition at    *)
(* any moment, and otherwise clocks the counter to the next overflow with  *)
(* any value in the data register.  A stop condition raises no interrupt   *)
(* and is therefore no action at all.  A master may send any position, but *)
(* does not go on storing or fetching past the end of a buffer: none of    *)
(* the masters in this repository does, and what the driver would touch    *)
(* there is undefined.                                                     *)
(***************************************************************************)
EXTENDS Integers

CONSTANTS BufferSize,  \* buffer_size
          Bytes        \* values of a data byte, positions included

ASSUME BufferAssumption ==
  /\ BufferSize \in 2 .. 254 /\ 0 \in Bytes /\ Bytes \subseteq 0 .. 255

VARIABLES overflowState,
          usioie,      \* the overflow interrupt is enabled in USICR
          buffer_adr,
          rxbuffer,
          txbuffer,
          fetched      \* history: the last byte handed to the master

vars == <<overflowState, usioie, buffer_adr, rxbuffer, txbuffer, fetched>>

Unset == 255
Index == 0 .. BufferSize - 1
States == {"CHECK_ADDRESS", "SEND_DATA", "REQUEST_REPLY", "CHECK_REPLY",
           "REQUEST_DATA", "GET_DATA"}
Addresses == {"general call", "own write", "own read", "other device"}

TypeOK ==
  /\ overflowState \in States /\ usioie \in {0, 1}
  /\ buffer_adr \in (0 .. BufferSize) \cup {Unset}
  /\ rxbuffer \in [Index -> Bytes] /\ txbuffer \in [Index -> Bytes]
  /\ fetched \in Index \X Bytes

Init ==
  /\ overflowState = "CHECK_ADDRESS" /\ usioie = 0 /\ buffer_adr = 0
  /\ rxbuffer = [i \in Index |-> 0] /\ txbuffer = [i \in Index |-> 0]
  /\ fetched = <<0, 0>>

-----------------------------------------------------------------------------
\* ISR(USI_START_VECTOR): listen for an address unless a stop came first.
StartCondition ==
  /\ overflowState' = "CHECK_ADDRESS"
  /\ usioie' \in {0, 1}
  /\ UNCHANGED <<buffer_adr, rxbuffer, txbuffer, fetched>>

\* SET_USI_TO_TWI_START_CONDITION_MODE: out until the next start condition.
Deselect == usioie' = 0

\* ISR(USI_OVERFLOW_VECTOR), one action per case of its switch.
\* A driver that leaves the old position in place on a write address.
CheckAddress_Kept(address) ==
  /\ usioie = 1 /\ overflowState = "CHECK_ADDRESS"
  /\ \/ address = "own read" /\ overflowState' = "SEND_DATA" /\ UNCHANGED usioie
     \/ /\ address \in {"own write", "general call"}
        /\ overflowState' = "REQUEST_DATA" /\ UNCHANGED usioie
     \/ address = "other device" /\ Deselect /\ UNCHANGED overflowState
  /\ UNCHANGED <<buffer_adr, rxbuffer, txbuffer, fetched>>

CheckAddress(address) ==
  /\ usioie = 1 /\ overflowState = "CHECK_ADDRESS"
  /\ \/ /\ address = "own read"
        /\ overflowState' = "SEND_DATA"
        /\ UNCHANGED <<usioie, buffer_adr>>
     \/ /\ address \in {"own write", "general call"}
        /\ overflowState' = "REQUEST_DATA" /\ buffer_adr' = Unset
        /\ UNCHANGED usioie
     \/ /\ address = "other device"
        /\ Deselect
        /\ UNCHANGED <<overflowState, buffer_adr>>
  /\ UNCHANGED <<rxbuffer, txbuffer, fetched>>

\* The part CHECK_REPLY falls through to.
SendNext ==
  LET at == IF buffer_adr = Unset THEN 0 ELSE buffer_adr
  IN  /\ at \in Index
      /\ fetched' = <<at, txbuffer[at]>>
      /\ buffer_adr' = at + 1
      /\ overflowState' = "REQUEST_REPLY"
      /\ UNCHANGED <<usioie, rxbuffer, txbuffer>>

SendData == usioie = 1 /\ overflowState = "SEND_DATA" /\ SendNext

RequestReply ==
  /\ usioie = 1 /\ overflowState = "REQUEST_REPLY"
  /\ overflowState' = "CHECK_REPLY"
  /\ UNCHANGED <<usioie, buffer_adr, rxbuffer, txbuffer, fetched>>

CheckReply(usidr) ==
  /\ usioie = 1 /\ overflowState = "CHECK_REPLY"
  /\ \/ /\ usidr # 0 /\ Deselect
        /\ UNCHANGED <<overflowState, buffer_adr, rxbuffer, txbuffer, fetched>>
     \/ usidr = 0 /\ SendNext

RequestData ==
  /\ usioie = 1 /\ overflowState = "REQUEST_DATA"
  /\ overflowState' = "GET_DATA"
  /\ UNCHANGED <<usioie, buffer_adr, rxbuffer, txbuffer, fetched>>

\* The first byte of a write transaction is the position.
GetPosition(data) ==
  /\ usioie = 1 /\ overflowState = "GET_DATA" /\ buffer_adr = Unset
  /\ buffer_adr' = IF data <= BufferSize THEN data ELSE 0
  /\ overflowState' = "REQUEST_DATA"
  /\ UNCHANGED <<usioie, rxbuffer, txbuffer, fetched>>

GetData(data) ==
  /\ usioie = 1 /\ overflowState = "GET_DATA"
  /\ buffer_adr # Unset /\ buffer_adr \in Index
  /\ rxbuffer' = [rxbuffer EXCEPT ![buffer_adr] = data]
  /\ buffer_adr' = buffer_adr + 1
  /\ overflowState' = "REQUEST_DATA"
  /\ UNCHANGED <<usioie, txbuffer, fetched>>

\* The main program, between cli() and sei().
Publish(i, b) ==
  /\ txbuffer' = [txbuffer EXCEPT ![i] = b]
  /\ UNCHANGED <<overflowState, usioie, buffer_adr, rxbuffer, fetched>>

Consume(i) ==
  /\ rxbuffer' = [rxbuffer EXCEPT ![i] = 0]
  /\ UNCHANGED <<overflowState, usioie, buffer_adr, txbuffer, fetched>>

Overflow ==
  \/ \E address \in Addresses : CheckAddress(address)
  \/ SendData \/ RequestReply
  \/ \E usidr \in {0, 1} : CheckReply(usidr)
  \/ RequestData
  \/ \E data \in Bytes : GetPosition(data) \/ GetData(data)

Next ==
  \/ StartCondition \/ Overflow
  \/ \E i \in Index, b \in Bytes : Publish(i, b)
  \/ \E i \in Index : Consume(i)

Spec == Init /\ [][Next]_vars

-----------------------------------------------------------------------------
\* The transaction the device takes part in, as the driver encodes it.
Mode ==
  IF usioie = 0 \/ overflowState = "CHECK_ADDRESS" THEN "idle"
  ELSE IF overflowState \in {"REQUEST_DATA", "GET_DATA"} THEN "write"
  ELSE "read"

Eeprom == INSTANCE TwiEeprom WITH mode <- Mode, cursor <- buffer_adr,
            rx <- rxbuffer, tx <- txbuffer

(* The state machine of the interrupt routines gives the master exactly the
   memory device the header describes: no start condition, NACK, foreign
   address or application access, in any order, makes it store or fetch at
   another index, skip a byte or answer out of turn. *)
ActsLikeEeprom == Eeprom!Spec

(* usiTwiSlave.c:347 says of the received position "Check if address within
   buffer size"; a position that is accepted is then an index of the buffer. *)
PositionIsChecked ==
  [][ buffer_adr = Unset /\ buffer_adr' \in Bytes
      => buffer_adr' <= BufferSize - 1 ]_vars

=============================================================================
