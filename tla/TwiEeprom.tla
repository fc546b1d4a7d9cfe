----------------------------- MODULE TwiEeprom -----------------------------
(***************************************************************************)
(* What usiTwiSlave.h promises of the driver every ATtiny85 node uses:     *)
(* "The slave device acts like a I2C-EEPROM".  The device holds a cursor,  *)
(* a receive buffer the master stores into and a transmit buffer it        *)
(* fetches from.  A write transaction first positions the cursor and then  *)
(* stores at it; a read transaction fetches at it; both move it forward.   *)
(* Nothing else touches the receive buffer.                                *)
(***************************************************************************)
EXTENDS Integers

CONSTANTS BufferSize,  \* buffer_size
          Bytes        \* the data bytes a master writes and an application publishes

Unset == 255           \* "Buffer position undefined"

VARIABLES mode,        \* which transaction the device takes part in
          cursor,      \* next index, or Unset
          rx,          \* rxbuffer, written by the master
          tx,          \* txbuffer, written by the application
          fetched      \* the byte last given to the master and its index

vars == <<mode, cursor, rx, tx, fetched>>

Index == 0 .. BufferSize - 1

Init ==
  /\ mode = "idle"
  /\ cursor = 0
  /\ rx = [i \in Index |-> 0]
  /\ tx = [i \in Index |-> 0]
  /\ fetched = <<0, 0>>

\* The device is addressed for writing: the next byte is a position.
OpenWrite ==
  /\ mode' = "write" /\ cursor' = Unset
  /\ UNCHANGED <<rx, tx, fetched>>

\* The device is addressed for reading: the cursor stays where it is.
OpenRead ==
  /\ mode' = "read"
  /\ UNCHANGED <<cursor, rx, tx, fetched>>

\* The device leaves the transaction (stop, NACK or another address).
Close ==
  /\ mode' = "idle"
  /\ UNCHANGED <<cursor, rx, tx, fetched>>

\* "If buffer address > buffersize -> start with buffer address 0x00".
Position(p) ==
  /\ mode = "write" /\ cursor = Unset
  /\ cursor' = IF p > BufferSize THEN 0 ELSE p
  /\ UNCHANGED <<mode, rx, tx, fetched>>

Store(b) ==
  /\ mode = "write" /\ cursor \in Index
  /\ rx' = [rx EXCEPT ![cursor] = b]
  /\ cursor' = cursor + 1
  /\ UNCHANGED <<mode, tx, fetched>>

Fetch ==
  /\ mode = "read"
  /\ \E i \in Index :
       /\ i = IF cursor = Unset THEN 0 ELSE cursor
       /\ fetched' = <<i, tx[i]>>
       /\ cursor' = i + 1
  /\ UNCHANGED <<mode, rx, tx>>

\* The application publishes a new image of the transmit buffer, or takes
\* a message out of the receive buffer by zeroing one byte of it.
Publish == \E i \in Index, b \in Bytes :
  /\ tx' = [tx EXCEPT ![i] = b]
  /\ UNCHANGED <<mode, cursor, rx, fetched>>

Consume == \E i \in Index :
  /\ rx' = [rx EXCEPT ![i] = 0]
  /\ UNCHANGED <<mode, cursor, tx, fetched>>

Next ==
  \/ OpenWrite \/ OpenRead \/ Close
  \/ \E p \in Bytes : Position(p)
  \/ \E b \in Bytes : Store(b)
  \/ Fetch
  \/ Publish \/ Consume

Spec == Init /\ [][Next]_vars
=============================================================================
