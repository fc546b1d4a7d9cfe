---------------------------- MODULE DevicesProofs ----------------------------
(***************************************************************************)
(* The small devices: the I2C slave driver keeps its types and implements  *)
(* the memory device of TwiEeprom; the timer node switches its load by     *)
(* what was ordered; what the chain of the radio nodes keeps was measured; *)
(* a file is loaded whole, or the boot loader stops.  For every buffer     *)
(* size, byte, order, measurement, number of frames, page size and file.   *)
(***************************************************************************)
EXTENDS MCDevices, WellFoundedInduction, TLAPS

LEMMA TypeInit == Init => TypeOK
BY BufferAssumption DEF Init, TypeOK, States, Index, Unset

LEMMA TypeNext == TypeOK /\ [Next]_vars => TypeOK'
<1> SUFFICES ASSUME TypeOK, [Next]_vars
             PROVE  TypeOK'
  OBVIOUS
<1> USE BufferAssumption DEF TypeOK, States, Index, Unset
<1>1. CASE StartCondition
  BY <1>1 DEF StartCondition
<1>2. ASSUME NEW address \in Addresses, CheckAddress(address)
      PROVE  TypeOK'
  BY <1>2 DEF CheckAddress, Deselect
<1>3. ASSUME SendNext, usioie' = usioie
      PROVE  TypeOK'
  BY <1>3 DEF SendNext
<1>4. CASE SendData
  BY <1>3, <1>4 DEF SendData, SendNext
<1>5. CASE RequestReply
  BY <1>5 DEF RequestReply
<1>6. ASSUME NEW usidr \in {0, 1}, CheckReply(usidr)
      PROVE  TypeOK'
  <2>1. CASE usidr = 1
    BY <1>6, <2>1 DEF CheckReply, Deselect
  <2>2. CASE usidr = 0
    BY <1>3, <1>6, <2>2 DEF CheckReply, SendNext
  <2> QED BY <2>1, <2>2
<1>7. CASE RequestData
  BY <1>7 DEF RequestData
<1>8. ASSUME NEW data \in Bytes, GetPosition(data)
      PROVE  TypeOK'
  BY <1>8 DEF GetPosition
<1>9. ASSUME NEW data \in Bytes, GetData(data)
      PROVE  TypeOK'
  BY <1>9 DEF GetData
<1>10. ASSUME NEW i \in Index, NEW b \in Bytes, Publish(i, b)
       PROVE  TypeOK'
  BY <1>10 DEF Publish
<1>11. ASSUME NEW i \in Index, Consume(i)
       PROVE  TypeOK'
  BY <1>11 DEF Consume
<1>12. CASE UNCHANGED vars
  BY <1>12 DEF vars
<1> HIDE DEF TypeOK, States, Index, Unset
<1> QED
  BY <1>1, <1>2, <1>4, <1>5, <1>6, <1>7, <1>8, <1>9, <1>10, <1>11, <1>12
  DEF Next, Overflow

(* The registers and buffers of the driver keep their types under every
   order of interrupts and application accesses: in particular a position
   in use is never beyond the end of the buffer. *)
THEOREM TypeCorrect == Spec => []TypeOK
BY TypeInit, TypeNext, PTL DEF Spec

-----------------------------------------------------------------------------
LEMMA RefineInit == Init => Eeprom!Init
BY DEF Init, Eeprom!Init, Mode, Index, Eeprom!Index

LEMMA RefineNext == TypeOK /\ [Next]_vars => [Eeprom!Next]_(Eeprom!vars)
<1> SUFFICES ASSUME TypeOK, [Next]_vars
             PROVE  Eeprom!Next \/ UNCHANGED Eeprom!vars
  OBVIOUS
<1> USE BufferAssumption
    DEF TypeOK, States, Index, Eeprom!Index, Unset, Eeprom!Unset, Mode
<1>1. ASSUME StartCondition
      PROVE  Eeprom!Close
  BY <1>1 DEF StartCondition, Eeprom!Close
<1>2. ASSUME NEW address \in Addresses, CheckAddress(address)
      PROVE  Eeprom!OpenRead \/ Eeprom!OpenWrite \/ Eeprom!Close
  <2>1. ASSUME address = "own read"
        PROVE  Eeprom!OpenRead
    <3>1. /\ overflowState' = "SEND_DATA" /\ usioie' = 1
          /\ UNCHANGED <<buffer_adr, rxbuffer, txbuffer, fetched>>
      BY <1>2, <2>1 DEF CheckAddress, Deselect
    <3>2. Mode' = "read"
      BY <3>1
    <3> QED BY <3>1, <3>2 DEF Eeprom!OpenRead
  <2>2. ASSUME address \in {"own write", "general call"}
        PROVE  Eeprom!OpenWrite
    <3>1. /\ overflowState' = "REQUEST_DATA" /\ usioie' = 1
          /\ buffer_adr' = Unset
          /\ UNCHANGED <<rxbuffer, txbuffer, fetched>>
      BY <1>2, <2>2 DEF CheckAddress, Deselect
    <3>2. Mode' = "write"
      BY <3>1
    <3> QED BY <3>1, <3>2 DEF Eeprom!OpenWrite
  <2>3. ASSUME address = "other device"
        PROVE  Eeprom!Close
    BY <1>2, <2>3 DEF CheckAddress, Deselect, Eeprom!Close
  <2> QED BY <2>1, <2>2, <2>3 DEF Addresses
<1>3. ASSUME SendNext, usioie = 1, usioie' = usioie,
             overflowState \in {"SEND_DATA", "CHECK_REPLY"}
      PROVE  Eeprom!Fetch
  BY <1>3 DEF SendNext, Eeprom!Fetch
<1>4. ASSUME SendData
      PROVE  Eeprom!Fetch
  BY <1>3, <1>4 DEF SendData, SendNext
<1>5. CASE RequestReply
  BY <1>5 DEF RequestReply, Eeprom!vars
<1>6. ASSUME NEW usidr \in {0, 1}, CheckReply(usidr)
      PROVE  Eeprom!Fetch \/ Eeprom!Close
  <2>1. CASE usidr = 1
    BY <1>6, <2>1 DEF CheckReply, Deselect, Eeprom!Close
  <2>2. CASE usidr = 0
    BY <1>3, <1>6, <2>2 DEF CheckReply, SendNext
  <2> QED BY <2>1, <2>2
<1>7. CASE RequestData
  BY <1>7 DEF RequestData, Eeprom!vars
<1>8. ASSUME NEW data \in Bytes, GetPosition(data)
      PROVE  Eeprom!Position(data)
  BY <1>8 DEF GetPosition, Eeprom!Position
<1>9. ASSUME NEW data \in Bytes, GetData(data)
      PROVE  Eeprom!Store(data)
  BY <1>9 DEF GetData, Eeprom!Store
<1>10. ASSUME NEW i \in Index, NEW b \in Bytes, Publish(i, b)
       PROVE  Eeprom!Publish
  BY <1>10 DEF Publish, Eeprom!Publish
<1>11. ASSUME NEW i \in Index, Consume(i)
       PROVE  Eeprom!Consume
  BY <1>11 DEF Consume, Eeprom!Consume
<1>12. CASE UNCHANGED vars
  BY <1>12 DEF vars, Eeprom!vars
<1> HIDE DEF TypeOK, States, Index, Eeprom!Index, Unset, Eeprom!Unset, Mode
<1> QED
  BY <1>1, <1>2, <1>4, <1>5, <1>6, <1>7, <1>8, <1>9, <1>10, <1>11, <1>12
  DEF Next, Overflow, Eeprom!Next

(* Every behaviour of the two interrupt routines is a behaviour of the
   memory device usiTwiSlave.h describes. *)
THEOREM ImplementsEeprom == Spec => ActsLikeEeprom
BY TypeCorrect, RefineInit, RefineNext, PTL DEF Spec, Eeprom!Spec, ActsLikeEeprom

-----------------------------------------------------------------------------
(* The timer node. *)
Markers == {T!On, T!Off, T!Restart}

(* The bytes of an order that are still to be written, the others being in
   the buffer already. *)
Underway(kind, time) ==
  \/ order = <<<<3, kind>>, <<4, time[1]>>, <<5, time[2]>>, <<8, kind>>>>
  \/ /\ order = <<<<4, time[1]>>, <<5, time[2]>>, <<8, kind>>>>
     /\ overlap \/ orderbuffer[3] = kind
  \/ /\ order = <<<<5, time[2]>>, <<8, kind>>>>
     /\ overlap \/ (orderbuffer[3] = kind /\ orderbuffer[4] = time[1])
  \/ /\ order = <<<<8, kind>>>>
     /\ overlap \/ (orderbuffer[3] = kind /\ orderbuffer[4] = time[1] /\ orderbuffer[5] = time[2])

BufferTyped ==
  /\ DOMAIN orderbuffer = {3, 4, 5, 8}
  /\ orderbuffer[3] \in Markers \cup {T!None} /\ orderbuffer[8] \in Markers \cup {T!None}
  /\ orderbuffer[4] \in 0 .. 255 /\ orderbuffer[5] \in 0 .. 255

(* Without an overlap the last marker stands only behind a whole order. *)
OrderInv ==
  /\ overlap \in BOOLEAN /\ BufferTyped
  /\ order # << >> => \E kind \in Markers, time \in Times : Underway(kind, time)
  /\ ~overlap /\ orderbuffer[8] # T!None =>
       /\ order = << >> /\ orderbuffer[3] = orderbuffer[8]
       /\ \E time \in Times : orderbuffer[4] = time[1] /\ orderbuffer[5] = time[2]

LimitsInv == lWDTMaxOn \in Int /\ lWDTMaxOff \in Int /\ T!LimitsOrdered

(* A reset that a tick cuts in two leaves a carry behind at most, and a
   comparison that a tick cuts in two is ahead of the counter by less than
   another. *)
PaceInv ==
  /\ lWDTcounter \in Nat /\ ticks \in Nat /\ low \in 0 .. Byte - 1 /\ lMax \in Int
  /\ IF pc = "reset_high" THEN \E h \in Nat : lWDTcounter = h * Byte + ticks
     ELSE lWDTcounter <= ticks + Byte - 1
  /\ pc = "switch" => lMax <= ticks + 2 * (Byte - 1)

TimerInv == OrderInv /\ LimitsInv /\ PaceInv

LEMMA Divided ==
  ASSUME NEW m \in Nat \ {0}, NEW x \in Nat
  PROVE  /\ x % m \in 0 .. m - 1 /\ x % m <= x
         /\ \E h \in Nat : x - (x % m) = h * m
         /\ \A h, n \in Nat : x = h * m + n => x % m <= n
<1> DEFINE q == x \div m
           r == x % m
<1>1. x = q * m + r /\ r \in 0 .. m - 1 /\ q \in Nat
  OBVIOUS
<1> HIDE DEF q, r
<1>2. q * m \in Nat
  BY <1>1
<1>3. r <= x /\ x - r = q * m
  BY <1>1, <1>2
<1>4. ASSUME NEW h \in Nat, NEW n \in Nat, x = h * m + n PROVE r <= n
  <2>1. CASE h <= q
    <3>1. h * m <= q * m
      BY <1>1, <2>1
    <3> QED BY <1>1, <1>2, <1>4, <3>1
  <2>2. CASE q + 1 <= h
    <3>1. (q + 1) * m <= h * m /\ (q + 1) * m = q * m + m
      BY <1>1, <2>2
    <3>2. h * m \in Nat
      OBVIOUS
    <3> QED BY <1>1, <1>2, <1>4, <3>1, <3>2
  <2> QED BY <1>1, <2>1, <2>2
<1>5. r \in 0 .. m - 1 /\ r <= x /\ (\E h \in Nat : x - r = h * m) /\ (\A h, n \in Nat : x = h * m + n => r <= n)
  BY <1>1, <1>3, <1>4
<1> QED BY <1>5 DEF r

LEMMA TimeTyped ==
  /\ \A b4, b5 \in 0 .. 255 : T!Limit(b4, b5) \in Int
  /\ \A time \in Times : time[1] \in 0 .. 255 /\ time[2] \in 0 .. 255
BY TimerAssumption DEF T!Limit

LEMMA Markings == T!None \notin Markers /\ T!On # T!Off /\ T!On # T!Restart /\ T!Off # T!Restart
BY DEF T!None, T!On, T!Off, T!Restart, Markers

(* The rest of an order. *)
LEMMA Rests ==
  ASSUME NEW a, NEW b, NEW c, NEW d
  PROVE  /\ Head(<<a, b, c, d>>) = a /\ Tail(<<a, b, c, d>>) = <<b, c, d>>
         /\ Head(<<b, c, d>>) = b /\ Tail(<<b, c, d>>) = <<c, d>>
         /\ Head(<<c, d>>) = c /\ Tail(<<c, d>>) = <<d>>
         /\ Head(<<d>>) = d /\ Tail(<<d>>) = << >>
OBVIOUS

LEMMA WriteOrders ==
  ASSUME OrderInv, T!WriteByte
  PROVE  OrderInv'
<1>1. PICK kind \in Markers, time \in Times : Underway(kind, time)
  BY DEF OrderInv, T!WriteByte
<1>2. /\ order' = Tail(order) /\ overlap' = overlap /\ order # << >>
      /\ orderbuffer' = [orderbuffer EXCEPT ![Head(order)[1]] = Head(order)[2]]
  BY DEF T!WriteByte
<1>3. time[1] \in 0 .. 255 /\ time[2] \in 0 .. 255
  BY TimeTyped
<1>4. BufferTyped /\ overlap \in BOOLEAN /\ (overlap \/ orderbuffer[8] = T!None)
  BY <1>2 DEF OrderInv
<1>5. CASE order = <<<<3, kind>>, <<4, time[1]>>, <<5, time[2]>>, <<8, kind>>>>
  <2>1. order' = <<<<4, time[1]>>, <<5, time[2]>>, <<8, kind>>>> /\ Head(order) = <<3, kind>>
    BY <1>2, <1>5, Rests
  <2>2. orderbuffer' = [orderbuffer EXCEPT ![3] = kind]
    <3>1. Head(order)[1] = 3 /\ Head(order)[2] = kind
      BY <2>1
    <3> QED BY <1>2, <3>1
  <2>3. BufferTyped' /\ orderbuffer'[3] = kind /\ orderbuffer'[8] = orderbuffer[8]
    BY <1>4, <2>2 DEF BufferTyped
  <2>4. Underway(kind, time)'
    BY <2>1, <2>3 DEF Underway
  <2> QED BY <1>2, <1>4, <2>3, <2>4 DEF OrderInv
<1>6. CASE /\ order = <<<<4, time[1]>>, <<5, time[2]>>, <<8, kind>>>>
           /\ overlap \/ orderbuffer[3] = kind
  <2>1. order' = <<<<5, time[2]>>, <<8, kind>>>> /\ Head(order) = <<4, time[1]>>
    BY <1>2, <1>6, Rests
  <2>2. orderbuffer' = [orderbuffer EXCEPT ![4] = time[1]]
    <3>1. Head(order)[1] = 4 /\ Head(order)[2] = time[1]
      BY <2>1
    <3> QED BY <1>2, <3>1
  <2>3. BufferTyped' /\ orderbuffer'[4] = time[1] /\ orderbuffer'[3] = orderbuffer[3] /\ orderbuffer'[8] = orderbuffer[8]
    BY <1>3, <1>4, <2>2 DEF BufferTyped
  <2>4. Underway(kind, time)'
    BY <1>2, <1>6, <2>1, <2>3 DEF Underway
  <2> QED BY <1>2, <1>4, <2>3, <2>4 DEF OrderInv
<1>7. CASE /\ order = <<<<5, time[2]>>, <<8, kind>>>>
           /\ overlap \/ (orderbuffer[3] = kind /\ orderbuffer[4] = time[1])
  <2>1. order' = <<<<8, kind>>>> /\ Head(order) = <<5, time[2]>>
    BY <1>2, <1>7, Rests
  <2>2. orderbuffer' = [orderbuffer EXCEPT ![5] = time[2]]
    <3>1. Head(order)[1] = 5 /\ Head(order)[2] = time[2]
      BY <2>1
    <3> QED BY <1>2, <3>1
  <2>3. /\ BufferTyped' /\ orderbuffer'[5] = time[2] /\ orderbuffer'[3] = orderbuffer[3]
        /\ orderbuffer'[4] = orderbuffer[4] /\ orderbuffer'[8] = orderbuffer[8]
    BY <1>3, <1>4, <2>2 DEF BufferTyped
  <2>4. Underway(kind, time)'
    BY <1>2, <1>7, <2>1, <2>3 DEF Underway
  <2> QED BY <1>2, <1>4, <2>3, <2>4 DEF OrderInv
<1>8. CASE /\ order = <<<<8, kind>>>>
           /\ overlap \/ (orderbuffer[3] = kind /\ orderbuffer[4] = time[1] /\ orderbuffer[5] = time[2])
  <2>1. order' = << >> /\ Head(order) = <<8, kind>>
    BY <1>2, <1>8, Rests
  <2>2. orderbuffer' = [orderbuffer EXCEPT ![8] = kind]
    <3>1. Head(order)[1] = 8 /\ Head(order)[2] = kind
      BY <2>1
    <3> QED BY <1>2, <3>1
  <2>3. /\ BufferTyped' /\ orderbuffer'[5] = orderbuffer[5] /\ orderbuffer'[3] = orderbuffer[3]
        /\ orderbuffer'[4] = orderbuffer[4] /\ orderbuffer'[8] = kind
    BY <1>4, <2>2 DEF BufferTyped
  <2> QED BY <1>2, <1>4, <1>8, <2>1, <2>3 DEF OrderInv
<1> QED BY <1>1, <1>5, <1>6, <1>7, <1>8 DEF Underway

LEMMA OrderOrders ==
  ASSUME OrderInv, T!Order
  PROVE  OrderInv'
<1>1. /\ order = << >> /\ ~overlap /\ orderbuffer' = orderbuffer
      /\ overlap' = (overlap \/ T!Complete)
  BY DEF T!Order
<1>2. PICK kind \in {T!On, T!Off, T!Restart}, time \in Times :
        order' = <<<<3, kind>>, <<4, time[1]>>, <<5, time[2]>>, <<8, kind>>>>
  BY DEF T!Order
<1>3. kind \in Markers /\ Underway(kind, time)'
  BY <1>2 DEF Underway, Markers
<1>4. orderbuffer[8] # T!None => overlap'
  BY <1>1 DEF OrderInv, T!Complete
<1>5. overlap' \in BOOLEAN
  BY <1>1 DEF T!Complete
<1> QED BY <1>1, <1>3, <1>4, <1>5 DEF OrderInv, BufferTyped

(* What the loop does with an order. *)
LEMMA TakenOrders ==
  ASSUME OrderInv, LimitsInv, T!DoI2c
  PROVE  OrderInv' /\ LimitsInv'
<1>1. order' = order /\ overlap' = overlap /\ overlap \in BOOLEAN /\ BufferTyped
  BY DEF T!DoI2c, OrderInv
<1>2. CASE UNCHANGED <<orderbuffer, lWDTMaxOn, lWDTMaxOff>>
  BY <1>1, <1>2 DEF OrderInv, BufferTyped, Underway, LimitsInv, T!LimitsOrdered
<1>3. ASSUME NEW kind \in {T!On, T!Off}, T!Ordered(kind), orderbuffer' = T!Taken,
             \/ kind = T!Off /\ lWDTMaxOff' = T!Time /\ lWDTMaxOn' = lWDTMaxOn
             \/ kind = T!On /\ lWDTMaxOn' = T!Time /\ lWDTMaxOff' = lWDTMaxOff
      PROVE  OrderInv' /\ LimitsInv'
  <2>1. orderbuffer[8] # T!None /\ orderbuffer[3] = kind
    BY <1>3, Markings DEF T!Ordered, Markers
  <2>2. BufferTyped' /\ orderbuffer'[8] = T!None
    BY <1>1, <1>3 DEF T!Taken, BufferTyped
  <2>3. OrderInv'
    <3>1. CASE ~overlap
      BY <1>1, <2>1, <2>2, <3>1 DEF OrderInv
    <3>2. CASE overlap
      <4>1. order' # << >> => \E k \in Markers, time \in Times : Underway(k, time)'
        BY <1>1, <3>2 DEF OrderInv, Underway
      <4> QED BY <1>1, <2>2, <3>2, <4>1 DEF OrderInv
    <3> QED BY <1>1, <3>1, <3>2
  <2>4. T!Time \in Int
    BY <1>1, TimeTyped DEF T!Time, BufferTyped
  <2>5. overlap \/ (\A default : T!Time \in T!Written(default))
    BY <2>1 DEF OrderInv, T!Written, T!Time
  <2>6. LimitsInv'
    BY <1>1, <1>3, <2>4, <2>5 DEF LimitsInv, T!LimitsOrdered
  <2> QED BY <2>3, <2>6
<1>4. CASE T!Ordered(T!Off) /\ orderbuffer' = T!Taken /\ lWDTMaxOff' = T!Time /\ lWDTMaxOn' = lWDTMaxOn
  BY <1>3, <1>4
<1>5. CASE T!Ordered(T!On) /\ orderbuffer' = T!Taken /\ lWDTMaxOn' = T!Time /\ lWDTMaxOff' = lWDTMaxOff
  BY <1>3, <1>5
<1> QED BY <1>2, <1>4, <1>5 DEF T!DoI2c, T!limits

(* The steps of the loop and of the watchdog, as PaceInv sees them. *)
LEMMA TickPaces == ASSUME PaceInv, T!Tick PROVE PaceInv'
<1>1. /\ pc # "dead" /\ ticks' = ticks + 1 /\ lWDTcounter' = lWDTcounter + 1 /\ UNCHANGED <<low, lMax>>
      /\ pc' = IF pc = "sleep" THEN "low" ELSE pc
  BY DEF T!Tick, T!Woken
<1>2. Byte \in Nat \ {0}
  BY TimerAssumption
<1>3. CASE pc = "reset_high"
  <2>1. PICK h \in Nat : lWDTcounter = h * Byte + ticks
    BY <1>3 DEF PaceInv
  <2>2. h * Byte \in Nat /\ lWDTcounter' = h * Byte + ticks'
    BY <1>1, <1>2, <2>1 DEF PaceInv
  <2> QED BY <1>1, <1>3, <2>2 DEF PaceInv
<1>4. CASE pc # "reset_high"
  BY <1>1, <1>2, <1>4 DEF PaceInv
<1> QED BY <1>3, <1>4

LEMMA SwitchPaces ==
  ASSUME PaceInv, LimitsInv, T!Switch
  PROVE  PaceInv' /\ ticks >= lMax - T!Torn
<1>1. /\ pc = "switch" /\ ticks' = 0 /\ low' = low /\ lMax' \in {lWDTMaxOff, lWDTMaxOn}
      /\ \/ lWDTcounter' = lWDTcounter - (lWDTcounter % Byte) /\ pc' = "reset_high"
         \/ lWDTcounter' = lWDTcounter % Byte /\ pc' = "reset_low"
  BY DEF T!Switch
<1>2. Byte \in Nat \ {0} /\ lWDTcounter \in Nat /\ ticks \in Nat
  BY TimerAssumption DEF PaceInv
<1>3. ticks' = 0 /\ low' \in 0 .. Byte - 1 /\ lMax' \in Int
  BY <1>1 DEF PaceInv, LimitsInv
<1>4. ticks >= lMax - T!Torn
  BY <1>1, <1>2 DEF PaceInv, T!Torn
<1>5. CASE lWDTcounter' = lWDTcounter - (lWDTcounter % Byte) /\ pc' = "reset_high"
  <2>1. PICK h \in Nat : lWDTcounter - (lWDTcounter % Byte) = h * Byte
    BY <1>2, Divided
  <2>2. h * Byte \in Nat
    BY <1>2
  <2>3. lWDTcounter' \in Nat /\ lWDTcounter' = h * Byte + ticks'
    BY <1>1, <1>5, <2>1, <2>2
  <2> QED BY <1>3, <1>4, <1>5, <2>3 DEF PaceInv
<1>6. CASE lWDTcounter' = lWDTcounter % Byte /\ pc' = "reset_low"
  <2>1. lWDTcounter % Byte \in 0 .. Byte - 1
    BY <1>2, Divided
  <2>2. lWDTcounter' \in Nat /\ lWDTcounter' <= ticks' + Byte - 1
    BY <1>3, <1>2, <1>6, <2>1
  <2> QED BY <1>3, <1>4, <1>6, <2>2 DEF PaceInv
<1> QED BY <1>1, <1>5, <1>6

LEMMA ResetPaces == ASSUME PaceInv, T!Reset PROVE PaceInv'
<1>1. /\ pc \in {"reset_low", "reset_high"} /\ pc' = "low" /\ UNCHANGED <<low, lMax, ticks>>
      /\ lWDTcounter' = IF pc = "reset_high" THEN lWDTcounter % Byte ELSE lWDTcounter - (lWDTcounter % Byte)
  BY DEF T!Reset
<1>2. Byte \in Nat \ {0} /\ lWDTcounter \in Nat /\ ticks \in Nat
  BY TimerAssumption DEF PaceInv
<1>3. lWDTcounter % Byte \in 0 .. Byte - 1 /\ lWDTcounter % Byte <= lWDTcounter
  BY <1>2, Divided
<1>4. CASE pc = "reset_high"
  <2>1. PICK h \in Nat : lWDTcounter = h * Byte + ticks
    BY <1>4 DEF PaceInv
  <2>2. \A k, n \in Nat : lWDTcounter = k * Byte + n => lWDTcounter % Byte <= n
    BY <1>2, Divided
  <2>3. lWDTcounter % Byte <= ticks
    BY <1>2, <2>1, <2>2
  <2>4. lWDTcounter' = lWDTcounter % Byte
    BY <1>1, <1>4
  <2> QED BY <1>1, <1>2, <1>3, <2>3, <2>4 DEF PaceInv
<1>5. CASE pc = "reset_low"
  <2>1. lWDTcounter' = lWDTcounter - (lWDTcounter % Byte)
    BY <1>1, <1>5
  <2>2. lWDTcounter' \in Nat /\ lWDTcounter' <= ticks' + Byte - 1
    BY <1>1, <1>2, <1>3, <1>5, <2>1 DEF PaceInv
  <2> QED BY <1>1, <2>2 DEF PaceInv
<1> QED BY <1>1, <1>4, <1>5

LEMMA ReadPaces == ASSUME PaceInv, T!ReadLow \/ T!ReadHigh PROVE PaceInv'
<1>1. UNCHANGED <<lWDTcounter, lMax, ticks>>
  BY DEF T!ReadLow, T!ReadHigh
<1>2. Byte \in Nat \ {0} /\ lWDTcounter \in Nat /\ ticks \in Nat /\ low \in 0 .. Byte - 1 /\ lMax \in Int
  BY TimerAssumption DEF PaceInv
<1>3. lWDTcounter % Byte \in 0 .. Byte - 1
  BY <1>2, Divided
<1>4. CASE T!ReadLow
  <2>1. pc = "low" /\ pc' = "high" /\ low' \in 0 .. Byte - 1
    BY <1>3, <1>4 DEF T!ReadLow
  <2> QED BY <1>1, <1>2, <2>1 DEF PaceInv
<1>5. CASE T!ReadHigh
  <2>1. /\ pc = "high" /\ low' = low /\ pc' \in {"switch", "DoI2c"}
        /\ pc' = "switch" => lWDTcounter - (lWDTcounter % Byte) + low >= lMax
    BY <1>5 DEF T!ReadHigh
  <2>2. lWDTcounter <= ticks + Byte - 1
    BY <2>1 DEF PaceInv
  <2>3. pc' = "switch" => lMax <= ticks + 2 * (Byte - 1)
    BY <1>2, <1>3, <2>1, <2>2
  <2> QED BY <1>1, <1>2, <2>1, <2>2, <2>3 DEF PaceInv
<1> QED BY <1>4, <1>5

LEMMA TimerInitially == T!Init => TimerInv
<1> SUFFICES ASSUME T!Init PROVE TimerInv
  OBVIOUS
<1>1. /\ orderbuffer = [p \in {3, 4, 5, 8} |-> IF p \in {3, 8} THEN T!None ELSE 0]
      /\ lWDTMaxOn = DefaultOn /\ lWDTMaxOff = DefaultOff /\ lWDTcounter = 0
      /\ lMax = DefaultOn /\ pc = "low" /\ low = 0 /\ order = << >> /\ ticks = 0 /\ overlap = FALSE
  BY DEF T!Init
<1>2. BufferTyped /\ orderbuffer[8] = T!None
  BY <1>1 DEF BufferTyped
<1>3. OrderInv
  BY <1>1, <1>2 DEF OrderInv
<1>4. LimitsInv
  BY <1>1, TimerAssumption DEF LimitsInv, T!LimitsOrdered, T!Written
<1>5. PaceInv
  BY <1>1, TimerAssumption DEF PaceInv
<1> QED BY <1>3, <1>4, <1>5 DEF TimerInv

LEMMA ResetInitial == T!WatchdogReset => (T!Init)'
BY DEF T!WatchdogReset, T!Init

LEMMA TimerRestarted == (T!Init)' => TimerInv'
<1> SUFFICES ASSUME (T!Init)' PROVE TimerInv'
  OBVIOUS
<1> QED BY TimerInitially, PTL

LEMMA TimerNext ==
  TimerInv /\ [T!Next]_(T!vars) => TimerInv' /\ (phase' # phase /\ pc # "dead" => ticks >= lMax - T!Torn)
<1> SUFFICES ASSUME TimerInv, [T!Next]_(T!vars)
             PROVE  TimerInv' /\ (phase' # phase /\ pc # "dead" => ticks >= lMax - T!Torn)
  OBVIOUS
<1>1. OrderInv /\ LimitsInv /\ PaceInv
  BY DEF TimerInv
<1>2. UNCHANGED <<orderbuffer, order, overlap>> => OrderInv'
  BY <1>1 DEF OrderInv, BufferTyped, Underway
<1>3. UNCHANGED <<lWDTMaxOn, lWDTMaxOff, overlap>> => LimitsInv'
  BY <1>1 DEF LimitsInv, T!LimitsOrdered, T!Written
<1>4. UNCHANGED <<lWDTcounter, ticks, low, lMax>>
        /\ (pc' = pc \/ (pc # "reset_high" /\ pc' \notin {"reset_high", "switch"})) => PaceInv'
  BY <1>1 DEF PaceInv
<1>5. CASE T!Order
  <2>1. OrderInv' /\ UNCHANGED <<lWDTMaxOn, lWDTMaxOff, lWDTcounter, ticks, low, lMax, pc, phase>>
    BY <1>1, <1>5, OrderOrders DEF T!Order, T!limits, T!loop
  <2>2. overlap' = (overlap \/ T!Complete) /\ overlap \in BOOLEAN
    BY <1>1, <1>5 DEF T!Order, OrderInv
  <2>3. LimitsInv'
    BY <1>1, <2>1, <2>2 DEF LimitsInv, T!LimitsOrdered, T!Written
  <2> QED BY <1>4, <2>1, <2>3 DEF TimerInv
<1>6. CASE T!WriteByte
  <2>1. OrderInv' /\ UNCHANGED <<lWDTMaxOn, lWDTMaxOff, overlap, lWDTcounter, ticks, low, lMax, phase>>
    BY <1>1, <1>6, WriteOrders DEF T!WriteByte, T!limits
  <2>2. pc' = pc \/ (pc = "sleep" /\ pc' = "low")
    BY <1>6 DEF T!WriteByte, T!Woken
  <2> QED BY <1>3, <1>4, <2>1, <2>2 DEF TimerInv
<1>7. CASE T!BreakOff
  <2>1. /\ order' = << >> /\ UNCHANGED <<orderbuffer, overlap>>
        /\ UNCHANGED <<lWDTMaxOn, lWDTMaxOff, lWDTcounter, ticks, low, lMax, pc, phase>>
    BY <1>7 DEF T!BreakOff, T!limits, T!loop
  <2>2. OrderInv'
    BY <1>1, <2>1 DEF OrderInv, BufferTyped
  <2> QED BY <1>3, <1>4, <2>1, <2>2 DEF TimerInv
<1>8. CASE T!Tick
  <2>1. UNCHANGED <<orderbuffer, order, overlap, lWDTMaxOn, lWDTMaxOff, phase>>
    BY <1>8 DEF T!Tick, T!limits
  <2> QED BY <1>1, <1>2, <1>3, <1>8, <2>1, TickPaces DEF TimerInv
<1>9. CASE T!ReadLow \/ T!ReadHigh \/ T!Reset
  <2>1. UNCHANGED <<orderbuffer, order, overlap, lWDTMaxOn, lWDTMaxOff, phase>>
    BY <1>9 DEF T!ReadLow, T!ReadHigh, T!Reset, T!limits
  <2> QED BY <1>1, <1>2, <1>3, <1>9, <2>1, ReadPaces, ResetPaces DEF TimerInv
<1>10. CASE T!Switch
  <2>1. UNCHANGED <<orderbuffer, order, overlap, lWDTMaxOn, lWDTMaxOff>>
    BY <1>10 DEF T!Switch, T!limits
  <2> QED BY <1>1, <1>2, <1>3, <1>10, <2>1, SwitchPaces DEF TimerInv
<1>11. CASE T!DoI2c
  <2>1. UNCHANGED <<lWDTcounter, ticks, low, lMax, phase>> /\ pc = "DoI2c" /\ pc' \in {"dead", "sleep"}
    BY <1>11 DEF T!DoI2c
  <2> QED BY <1>1, <1>4, <1>11, <2>1, TakenOrders DEF TimerInv
<1>12. CASE T!WatchdogReset
  <2>1. pc = "dead"
    BY <1>12 DEF T!WatchdogReset
  <2> QED BY <1>12, <2>1, ResetInitial, TimerRestarted
<1>13. CASE UNCHANGED T!vars
  BY <1>2, <1>3, <1>4, <1>13 DEF T!vars, T!limits, T!loop, TimerInv
<1> QED BY <1>5, <1>6, <1>7, <1>8, <1>9, <1>10, <1>11, <1>12, <1>13 DEF T!Next

(* The timer node switches its load for the times that were ordered, whole
   orders only, and a phase falls short of its limit by less than two carries
   of the counter, whatever a byte holds and wherever the tick interrupt
   cuts the loop in two. *)
THEOREM SwitchesOnTime == T!Spec => TimesAsOrdered
<1>1. TimerInv /\ [T!Next]_(T!vars) =>
        [(T!LimitsOrdered)' /\ T!LastsAsLimited]_(T!vars)
  BY TimerNext DEF TimerInv, LimitsInv, T!LastsAsLimited
<1>2. TimerInv /\ [T!Next]_(T!vars) => TimerInv'
  BY TimerNext
<1> QED BY <1>1, <1>2, TimerInitially, PTL DEF T!Spec, TimesAsOrdered, T!TimesAsOrdered

-----------------------------------------------------------------------------
(* The chain of the radio nodes. *)

(* What the receiver reads in a copy. *)
LEMMA CopyReads ==
  ASSUME NEW p, NEW at
  PROVE  /\ R!Copy("T", p, at) = <<R!Signed(p[at + 1], p[at + 2])>>
         /\ R!Copy("M", p, at) = <<R!Signed(p[at + 1], p[at + 2])>>
         /\ R!Copy("g", p, at) = <<R!SignOnly(p[at + 1], p[at + 2]), R!SignOnly(p[at + 3], p[at + 4]), R!SignOnly(p[at + 5], p[at + 6])>>
         /\ R!Copy("f", p, at) = <<R!Signed(p[at + 1], p[at + 2]), R!Unsigned(p[at + 3], p[at + 4]), R!Unsigned(p[at + 5], p[at + 6])>>
BY DEF R!Copy

(* A 16-bit number in two bytes, and what the three ways of reading them make
   of it. *)
LEMMA NumbersRead ==
  ASSUME NEW q \in Word
  PROVE  /\ R!Signed(q % 256, (q \div 256) % 256) = q
         /\ R!Unsigned(q % 256, (q \div 256) % 256) = R!Wrapped(q)
         /\ R!SignOnly(q % 256, (q \div 256) % 256) = R!OfSign(q)
         /\ R!Signed(0, 0) = 0 /\ R!Unsigned(0, 0) = 0 /\ R!SignOnly(0, 0) = 0
<1> DEFINE lo == q % 256
           high == q \div 256
           hi == high % 256
<1>1. q \in Int /\ q = 256 * high + lo /\ lo \in 0 .. 255 /\ high \in -128 .. 127
  <2>1. q \in Int /\ -32768 <= q /\ q <= 32767
    BY DEF Word
  <2>2. q = 256 * high + lo /\ lo \in 0 .. 255 /\ high \in Int
    BY <2>1
  <2> HIDE DEF lo, hi, high
  <2> QED BY <2>1, <2>2
<1>2. hi = IF high < 0 THEN high + 256 ELSE high
  <2> HIDE DEF high
  <2> QED BY <1>1
<1>3. R!OfSign(q) = IF q \in -256 .. 255 THEN q ELSE IF q > 0 THEN lo ELSE lo - 256
  BY DEF R!OfSign
<1> HIDE DEF lo, hi, high
<1>4. R!Signed(lo, hi) = q /\ R!Unsigned(lo, hi) = R!Wrapped(q)
  BY <1>1, <1>2 DEF R!Signed, R!Unsigned, R!Wrapped
<1>5. R!SignOnly(lo, hi) = R!OfSign(q)
  BY <1>1, <1>2, <1>3 DEF R!SignOnly
<1>6. R!Signed(0, 0) = 0 /\ R!Unsigned(0, 0) = 0 /\ R!SignOnly(0, 0) = 0
  BY DEF R!Signed, R!Unsigned, R!SignOnly
<1> QED BY <1>4, <1>5, <1>6 DEF lo, hi, high

LEMMA Doubled ==
  ASSUME NEW s \in Seq(0 .. 255), NEW h \in Nat, Len(s) = h
  PROVE  /\ s \o s \in Seq(0 .. 255) /\ Len(s \o s) = 2 * h
         /\ \A k \in 1 .. h : (s \o s)[k] = s[k] /\ (s \o s)[h + k] = s[k]
OBVIOUS

LEMMA OneMore ==
  ASSUME NEW s \in Seq(0 .. 255), NEW b \in 0 .. 255
  PROVE  /\ s \o <<b>> \in Seq(0 .. 255) /\ Len(s \o <<b>>) = Len(s) + 1
         /\ \A k \in 1 .. Len(s) : (s \o <<b>>)[k] = s[k]
OBVIOUS

LEMMA Places ==
  /\ 1 % 2 = 1 /\ 2 % 2 = 0 /\ 3 % 2 = 1 /\ 4 % 2 = 0 /\ 5 % 2 = 1 /\ 6 % 2 = 0
  /\ (1 + 1) \div 2 = 1 /\ (2 + 1) \div 2 = 1 /\ (3 + 1) \div 2 = 2
  /\ (4 + 1) \div 2 = 2 /\ (5 + 1) \div 2 = 3 /\ (6 + 1) \div 2 = 3
OBVIOUS

LEMMA WordBytes ==
  ASSUME NEW x \in Word
  PROVE  x % 256 \in 0 .. 255 /\ (x \div 256) % 256 \in 0 .. 255
<1>1. x \in Int /\ x \div 256 \in Int
  BY DEF Word
<1>2. \A y \in Int : y % 256 \in 0 .. 255
  OBVIOUS
<1> QED BY <1>1, <1>2

LEMMA Listed ==
  ASSUME NEW n \in Nat, NEW S, NEW f \in [1 .. n -> S]
  PROVE  f \in Seq(S) /\ Len(f) = n
OBVIOUS

LEMMA TupleOf ==
  ASSUME NEW S, NEW n \in Nat, NEW q \in Seq(S), Len(q) = n
  PROVE  \A k \in 1 .. n : q[k] \in S
OBVIOUS

(* The bytes a node sends, by the length of the tuple it measured. *)
LEMMA BytesOfOne ==
  ASSUME NEW q, Len(q) = 1, q[1] \in Word
  PROVE  /\ R!BytesOf(q) \in Seq(0 .. 255) /\ Len(R!BytesOf(q)) = 2
         /\ R!BytesOf(q)[1] = q[1] % 256 /\ R!BytesOf(q)[2] = (q[1] \div 256) % 256
<1> DEFINE byte(k) == IF k % 2 = 1 THEN q[(k + 1) \div 2] % 256 ELSE (q[(k + 1) \div 2] \div 256) % 256
<1>1. 2 * Len(q) = 2
  OBVIOUS
<1>2. R!BytesOf(q) = [k \in 1 .. 2 |-> byte(k)]
  BY <1>1, Zenon DEF R!BytesOf
<1>3. byte(1) = q[1] % 256 /\ byte(2) = (q[1] \div 256) % 256
  BY Places
<1>4. \A k \in 1 .. 2 : k \in {1, 2}
  OBVIOUS
<1>5. byte(1) \in 0 .. 255 /\ byte(2) \in 0 .. 255
  BY <1>3, WordBytes
<1> HIDE DEF byte
<1>6. R!BytesOf(q) \in [1 .. 2 -> 0 .. 255]
  BY <1>2, <1>4, <1>5
<1>7. R!BytesOf(q)[1] = byte(1) /\ R!BytesOf(q)[2] = byte(2)
  BY <1>2
<1>8. R!BytesOf(q) \in Seq(0 .. 255) /\ Len(R!BytesOf(q)) = 2
  <2> DEFINE S == 0 .. 255
             f == R!BytesOf(q)
  <2>1. f \in [1 .. 2 -> S] /\ 2 \in Nat
    BY <1>6
  <2> HIDE DEF S, f
  <2>2. f \in Seq(S) /\ Len(f) = 2
    BY <2>1, Listed
  <2> QED BY <2>2 DEF S, f
<1> QED BY <1>3, <1>7, <1>8, Zenon

LEMMA BytesOfThree ==
  ASSUME NEW q, Len(q) = 3, q[1] \in Word, q[2] \in Word, q[3] \in Word
  PROVE  /\ R!BytesOf(q) \in Seq(0 .. 255) /\ Len(R!BytesOf(q)) = 6
         /\ R!BytesOf(q)[1] = q[1] % 256 /\ R!BytesOf(q)[2] = (q[1] \div 256) % 256
         /\ R!BytesOf(q)[3] = q[2] % 256 /\ R!BytesOf(q)[4] = (q[2] \div 256) % 256
         /\ R!BytesOf(q)[5] = q[3] % 256 /\ R!BytesOf(q)[6] = (q[3] \div 256) % 256
<1> DEFINE byte(k) == IF k % 2 = 1 THEN q[(k + 1) \div 2] % 256 ELSE (q[(k + 1) \div 2] \div 256) % 256
<1>1. 2 * Len(q) = 6
  OBVIOUS
<1>2. R!BytesOf(q) = [k \in 1 .. 6 |-> byte(k)]
  BY <1>1, Zenon DEF R!BytesOf
<1>3. /\ byte(1) = q[1] % 256 /\ byte(2) = (q[1] \div 256) % 256
      /\ byte(3) = q[2] % 256 /\ byte(4) = (q[2] \div 256) % 256
      /\ byte(5) = q[3] % 256 /\ byte(6) = (q[3] \div 256) % 256
  BY Places
<1>4. \A k \in 1 .. 6 : k \in {1, 2, 3, 4, 5, 6}
  OBVIOUS
<1>5. \A k \in {1, 2, 3, 4, 5, 6} : byte(k) \in 0 .. 255
  BY <1>3, WordBytes
<1> HIDE DEF byte
<1>6. R!BytesOf(q) \in [1 .. 6 -> 0 .. 255]
  BY <1>2, <1>4, <1>5
<1>7. \A k \in {1, 2, 3, 4, 5, 6} : R!BytesOf(q)[k] = byte(k)
  BY <1>2
<1>8. R!BytesOf(q) \in Seq(0 .. 255) /\ Len(R!BytesOf(q)) = 6
  <2> DEFINE S == 0 .. 255
             f == R!BytesOf(q)
  <2>1. f \in [1 .. 6 -> S] /\ 6 \in Nat
    BY <1>6
  <2> HIDE DEF S, f
  <2>2. f \in Seq(S) /\ Len(f) = 6
    BY <2>1, Listed
  <2> QED BY <2>2 DEF S, f
<1> QED BY <1>3, <1>7, <1>8

(* A payload is two copies; each begins with the bytes of the numbers. *)
Half == [k \in {"T", "f", "g", "M"} |-> CASE k = "T" -> 3 [] k = "M" -> 2 [] OTHER -> 7]
SaysOne(p, at, q) == p[at + 1] = q[1] % 256 /\ p[at + 2] = (q[1] \div 256) % 256
SaysThree(p, at, q) ==
  /\ SaysOne(p, at, q)
  /\ p[at + 3] = q[2] % 256 /\ p[at + 4] = (q[2] \div 256) % 256
  /\ p[at + 5] = q[3] % 256 /\ p[at + 6] = (q[3] \div 256) % 256

Measured(kind, q) ==
  /\ kind \in {"T", "f", "g", "M"} /\ Len(q) = (IF kind \in {"T", "M"} THEN 1 ELSE 3)
  /\ \A k \in 1 .. Len(q) : q[k] \in Word

LEMMA MeasuredWords ==
  ASSUME NEW kind \in R!Kinds, NEW q \in Measurements[kind]
  PROVE  Measured(kind, q)
<1>1. kind \in DOMAIN Measurements
  BY DEF R!Kinds
<1>2. kind \in {"T", "f", "g", "M"} /\ q \in Seq(Word) /\ Len(q) = (IF kind \in {"T", "M"} THEN 1 ELSE 3)
  BY <1>1, MeasurementAssumption
<1>3. Len(q) \in Nat
  BY <1>2
<1>4. \A k \in 1 .. Len(q) : q[k] \in Word
  BY <1>2, <1>3, TupleOf
<1> QED BY <1>2, <1>4 DEF Measured

LEMMA PayloadSent ==
  ASSUME NEW kind, NEW q, Measured(kind, q)
  PROVE  /\ R!Payload(kind, q) \in Seq(0 .. 255) /\ Len(R!Payload(kind, q)) = 2 * Half[kind]
         /\ \A at \in {0, Half[kind]} :
              IF kind \in {"T", "M"} THEN SaysOne(R!Payload(kind, q), at, q)
              ELSE SaysThree(R!Payload(kind, q), at, q)
<1> DEFINE copy == R!BytesOf(q) \o (IF kind = "T" THEN <<R!SensorId>> ELSE IF kind = "M" THEN << >> ELSE <<0>>)
           h == Half[kind]
<1>1. R!Payload(kind, q) = copy \o copy
  BY DEF R!Payload
<1>2. /\ copy \in Seq(0 .. 255) /\ Len(copy) = h /\ h \in Nat
      /\ IF kind \in {"T", "M"} THEN h >= 2 /\ SaysOne(copy, 0, q) ELSE h >= 6 /\ SaysThree(copy, 0, q)
  <2>1. CASE kind \in {"T", "M"}
    <3> DEFINE s == R!BytesOf(q)
    <3>1. s \in Seq(0 .. 255) /\ Len(s) = 2 /\ SaysOne(s, 0, q)
      BY <2>1, BytesOfOne DEF Measured, SaysOne
    <3> HIDE DEF s
    <3>2. CASE kind = "T"
      <4>1. copy = s \o <<40>> /\ h = 3
        BY <3>2 DEF s, R!SensorId, Half
      <4>2. 40 \in 0 .. 255
        OBVIOUS
      <4>3. /\ s \o <<40>> \in Seq(0 .. 255) /\ Len(s \o <<40>>) = Len(s) + 1
            /\ \A k \in 1 .. Len(s) : (s \o <<40>>)[k] = s[k]
        BY <3>1, <4>2, OneMore, Zenon
      <4> HIDE DEF copy, h
      <4> QED BY <2>1, <3>1, <4>1, <4>3 DEF SaysOne
    <3>3. CASE kind = "M"
      <4>1. copy = s \o << >> /\ h = 2
        BY <3>3 DEF s, Half
      <4>2. s \o << >> = s
        BY <3>1
      <4> HIDE DEF copy, h
      <4> QED BY <2>1, <3>1, <4>1, <4>2
    <3> QED BY <2>1, <3>2, <3>3
  <2>2. CASE kind \in {"f", "g"}
    <3> DEFINE s == R!BytesOf(q)
    <3>1. s \in Seq(0 .. 255) /\ Len(s) = 6 /\ SaysThree(s, 0, q)
      BY <2>2, BytesOfThree DEF Measured, SaysOne, SaysThree
    <3> HIDE DEF s
    <3>2. copy = s \o <<0>> /\ h = 7
      BY <2>2 DEF s, Half
    <3>3. 0 \in 0 .. 255
      OBVIOUS
    <3>4. /\ s \o <<0>> \in Seq(0 .. 255) /\ Len(s \o <<0>>) = Len(s) + 1
          /\ \A k \in 1 .. Len(s) : (s \o <<0>>)[k] = s[k]
      BY <3>1, <3>3, OneMore, Zenon
    <3> HIDE DEF copy, h
    <3> QED BY <2>2, <3>1, <3>2, <3>4 DEF SaysOne, SaysThree
  <2> QED BY <2>1, <2>2 DEF Measured
<1> HIDE DEF copy, h
<1>3. /\ copy \o copy \in Seq(0 .. 255) /\ Len(copy \o copy) = 2 * h
      /\ \A k \in 1 .. h : (copy \o copy)[0 + k] = copy[k] /\ (copy \o copy)[h + k] = copy[k]
  BY <1>2, Doubled
<1>4. ASSUME NEW at \in {0, h}
      PROVE  IF kind \in {"T", "M"} THEN SaysOne(copy \o copy, at, q) ELSE SaysThree(copy \o copy, at, q)
  BY <1>2, <1>3 DEF SaysOne, SaysThree
<1> QED BY <1>1, <1>3, <1>4 DEF h

Says(kind, p, at, q) == IF kind \in {"T", "M"} THEN SaysOne(p, at, q) ELSE SaysThree(p, at, q)

(* However a frame was heard, one of its copies is as it was sent, or its end
   is lost and the second copy is zeros. *)
Heard(kind, p, entry) ==
  LET h == Half[kind]
  IN  /\ kind = entry.kind /\ Measured(kind, entry.quantities) /\ Len(p) = 2 * h
      /\ \/ Says(kind, p, 0, entry.quantities) \/ Says(kind, p, h, entry.quantities)
         \/ entry.heard = "cut" /\ \A k \in 1 .. h : p[h + k] = 0

LEMMA SentAsIs ==
  ASSUME NEW kind, NEW q, Measured(kind, q)
  PROVE  /\ R!Payload(kind, q) \in Seq(0 .. 255) /\ Len(R!Payload(kind, q)) = 2 * Half[kind]
         /\ Half[kind] \in {2, 3, 7} /\ (kind \notin {"T", "M"} => Half[kind] = 7)
         /\ Says(kind, R!Payload(kind, q), 0, q) /\ Says(kind, R!Payload(kind, q), Half[kind], q)
<1>1. 0 \in {0, Half[kind]} /\ Half[kind] \in {0, Half[kind]}
  OBVIOUS
<1>2. Half[kind] \in {2, 3, 7} /\ (kind \notin {"T", "M"} => Half[kind] = 7)
  BY DEF Measured, Half
<1> QED BY <1>1, <1>2, PayloadSent DEF Says

\* A copy whose bytes are unchanged says the same.
LEMMA SaysTheSame ==
  ASSUME NEW kind, NEW q, NEW p, NEW r, NEW at \in Nat, NEW h \in {2, 3, 7}, kind \notin {"T", "M"} => h = 7,
         Says(kind, p, at, q), \A k \in 1 .. h : r[at + k] = p[at + k]
  PROVE  Says(kind, r, at, q)
BY DEF Says, SaysOne, SaysThree

LEMMA HeardWhole ==
  ASSUME NEW kind, NEW q, Measured(kind, q), NEW entry, entry.kind = kind, entry.quantities = q
  PROVE  Heard(kind, R!Payload(kind, q), entry)
BY SentAsIs DEF Heard

LEMMA HeardNoisy ==
  ASSUME NEW kind, NEW q, Measured(kind, q), NEW entry, entry.kind = kind, entry.quantities = q,
         NEW p \in R!Noisy(R!Payload(kind, q))
  PROVE  Heard(kind, p, entry)
<1> DEFINE s == R!Payload(kind, q)
           h == Half[kind]
<1>1. /\ s \in Seq(0 .. 255) /\ Len(s) = 2 * h /\ h \in {2, 3, 7} /\ (kind \notin {"T", "M"} => h = 7)
      /\ Says(kind, s, 0, q) /\ Says(kind, s, h, q)
  BY SentAsIs
<1>2. PICK k \in 1 .. Len(s), d \in Changes : p = [s EXCEPT ![k] = (@ + d) % 256]
  BY DEF R!Noisy
<1> HIDE DEF s, h
<1>3. Len(p) = 2 * h /\ \A j \in 1 .. 2 * h : j # k => p[j] = s[j]
  BY <1>1, <1>2
<1>4. CASE k <= h
  <2>1. \A j \in 1 .. h : p[h + j] = s[h + j]
    BY <1>1, <1>3, <1>4
  <2>2. Says(kind, p, h, q)
    BY <1>1, <2>1, SaysTheSame
  <2> QED BY <1>3, <2>2 DEF Heard, h
<1>5. CASE k > h
  <2>1. \A j \in 1 .. h : p[0 + j] = s[0 + j]
    BY <1>1, <1>3, <1>5
  <2>2. Says(kind, p, 0, q)
    BY <1>1, <2>1, SaysTheSame
  <2> QED BY <1>3, <2>2 DEF Heard, h
<1> QED BY <1>1, <1>2, <1>4, <1>5

LEMMA HeardCut ==
  ASSUME NEW kind, NEW q, Measured(kind, q), NEW entry, entry.kind = kind, entry.quantities = q,
         entry.heard = "cut", NEW n \in Nat
  PROVE  Heard(kind, R!Cut(R!Payload(kind, q), n), entry)
<1> DEFINE s == R!Payload(kind, q)
           h == Half[kind]
           p == R!Cut(s, n)
<1>1. /\ s \in Seq(0 .. 255) /\ Len(s) = 2 * h /\ h \in {2, 3, 7} /\ (kind \notin {"T", "M"} => h = 7)
      /\ Says(kind, s, 0, q) /\ Says(kind, s, h, q)
  BY SentAsIs
<1>2. p = [k \in 1 .. 2 * h |-> IF k <= n THEN s[k] ELSE 0]
  BY <1>1 DEF R!Cut
<1> HIDE DEF s, h, p
<1>3. 2 * h \in Nat /\ p \in [1 .. 2 * h -> 0 .. 255]
  <2>1. 2 * h \in Nat
    BY <1>1
  <2>2. \A k \in 1 .. 2 * h : s[k] \in 0 .. 255
    BY <1>1, <2>1, TupleOf
  <2>3. \A k \in 1 .. 2 * h : (IF k <= n THEN s[k] ELSE 0) \in 0 .. 255
    BY <2>2
  <2> QED BY <1>2, <2>1, <2>3
<1>4. Len(p) = 2 * h
  BY <1>3, Listed
<1>5. CASE n >= h
  <2>1. \A j \in 1 .. h : p[0 + j] = s[0 + j]
    BY <1>1, <1>2, <1>5
  <2>2. Says(kind, p, 0, q)
    BY <1>1, <2>1, SaysTheSame
  <2>3. Len(p) = 2 * Half[kind]
    BY <1>4 DEF h
  <2> QED BY <2>2, <2>3 DEF Heard, p, s
<1>6. CASE n < h
  <2>1. \A j \in 1 .. h : p[h + j] = 0
    BY <1>1, <1>2, <1>6
  <2>2. Len(p) = 2 * Half[kind] /\ \A j \in 1 .. Half[kind] : p[Half[kind] + j] = 0
    BY <1>4, <2>1 DEF h
  <2> QED BY <2>2 DEF Heard, p, s
<1> QED BY <1>1, <1>5, <1>6

(* What the receiver makes of a whole copy, and of one of zeros. *)
Decoded(kind, q) ==
  CASE kind \in {"T", "M"} -> <<q[1]>>
    [] kind = "g" -> <<R!OfSign(q[1]), R!OfSign(q[2]), R!OfSign(q[3])>>
    [] kind = "f" -> <<q[1], R!Wrapped(q[2]), R!Wrapped(q[3])>>
Zeros(kind) == IF kind \in {"T", "M"} THEN <<0>> ELSE <<0, 0, 0>>

LEMMA CopyDecoded ==
  ASSUME NEW kind, NEW q, Measured(kind, q), NEW p, NEW at, Says(kind, p, at, q)
  PROVE  R!Copy(kind, p, at) = Decoded(kind, q)
<1>1. CASE kind \in {"T", "M"}
  <2>1. q[1] \in Word /\ SaysOne(p, at, q)
    BY <1>1 DEF Measured, Says
  <2>2. R!Signed(p[at + 1], p[at + 2]) = q[1]
    BY <2>1, NumbersRead DEF SaysOne
  <2>3. R!Copy(kind, p, at) = <<R!Signed(p[at + 1], p[at + 2])>>
    BY <1>1, CopyReads
  <2> QED BY <1>1, <2>2, <2>3 DEF Decoded
<1>2. CASE kind \in {"f", "g"}
  <2>1. q[1] \in Word /\ q[2] \in Word /\ q[3] \in Word /\ SaysThree(p, at, q)
    BY <1>2 DEF Measured, Says
  <2>2. /\ R!Signed(p[at + 1], p[at + 2]) = q[1]
        /\ R!SignOnly(p[at + 1], p[at + 2]) = R!OfSign(q[1])
        /\ R!SignOnly(p[at + 3], p[at + 4]) = R!OfSign(q[2])
        /\ R!SignOnly(p[at + 5], p[at + 6]) = R!OfSign(q[3])
        /\ R!Unsigned(p[at + 3], p[at + 4]) = R!Wrapped(q[2])
        /\ R!Unsigned(p[at + 5], p[at + 6]) = R!Wrapped(q[3])
    BY <2>1, NumbersRead DEF SaysThree, SaysOne
  <2>3. CASE kind = "g"
    BY <2>2, <2>3, CopyReads DEF Decoded
  <2>4. CASE kind = "f"
    BY <2>2, <2>4, CopyReads DEF Decoded
  <2> QED BY <1>2, <2>3, <2>4
<1> QED BY <1>1, <1>2 DEF Measured

LEMMA CopyOfZeros ==
  ASSUME NEW kind \in {"T", "f", "g", "M"}, NEW p, NEW h, h = Half[kind], \A k \in 1 .. h : p[h + k] = 0
  PROVE  R!Copy(kind, p, h) = Zeros(kind)
<1>0. R!Signed(0, 0) = 0 /\ R!Unsigned(0, 0) = 0 /\ R!SignOnly(0, 0) = 0
  BY DEF R!Signed, R!Unsigned, R!SignOnly
<1>1. p[h + 1] = 0 /\ p[h + 2] = 0
  BY DEF Half
<1>2. CASE kind \in {"T", "M"}
  <2>1. R!Copy(kind, p, h) = <<R!Signed(p[h + 1], p[h + 2])>>
    BY <1>2, CopyReads
  <2> QED BY <1>0, <1>1, <1>2, <2>1 DEF Zeros
<1>3. CASE kind \in {"f", "g"}
  <2>0. h = 7
    BY <1>3 DEF Half
  <2>1. p[h + 3] = 0 /\ p[h + 4] = 0 /\ p[h + 5] = 0 /\ p[h + 6] = 0
    <3>1. 3 \in 1 .. h /\ 4 \in 1 .. h /\ 5 \in 1 .. h /\ 6 \in 1 .. h
      BY <2>0
    <3> QED BY <3>1, Zenon
  <2>2. CASE kind = "g"
    BY <1>0, <1>1, <2>1, <2>2, CopyReads DEF Zeros
  <2>3. CASE kind = "f"
    BY <1>0, <1>1, <2>1, <2>3, CopyReads DEF Zeros
  <2> QED BY <1>3, <2>2, <2>3
<1> QED BY <1>2, <1>3

LEMMA AgreedCopies ==
  ASSUME NEW d, NEW entry, Heard(d.kind, d.payload, entry), R!Agrees(d), d.kind # "M"
  PROVE  \/ R!First(d) = Decoded(d.kind, entry.quantities)
         \/ entry.heard = "cut" /\ R!First(d) = Zeros(d.kind)
<1> DEFINE h == Half[d.kind]
<1>1. Measured(d.kind, entry.quantities) /\ d.kind \in {"T", "f", "g", "M"} /\ Len(d.payload) = 2 * h /\ h \in {2, 3, 7}
  BY SentAsIs DEF Heard, Measured
<1>2. Len(d.payload) \div 2 = h
  <2> HIDE DEF h
  <2> QED BY <1>1
<1>3. /\ R!First(d) = R!Copy(d.kind, d.payload, 0) /\ R!Copy(d.kind, d.payload, 0) = R!Copy(d.kind, d.payload, h)
  BY <1>2 DEF R!Agrees, R!First, R!Second
<1>4. \/ Says(d.kind, d.payload, 0, entry.quantities) \/ Says(d.kind, d.payload, h, entry.quantities)
      \/ entry.heard = "cut" /\ \A k \in 1 .. h : d.payload[h + k] = 0
  BY DEF Heard
<1> HIDE DEF h
<1>5. CASE Says(d.kind, d.payload, 0, entry.quantities) \/ Says(d.kind, d.payload, h, entry.quantities)
  BY <1>1, <1>3, <1>5, CopyDecoded
<1>6. CASE entry.heard = "cut" /\ \A k \in 1 .. h : d.payload[h + k] = 0
  BY <1>1, <1>3, <1>6, CopyOfZeros DEF h
<1> QED BY <1>4, <1>5, <1>6

LEMMA Placed ==
  /\ R!Place["0005"] = 1 /\ R!Place["0101"] = 1 /\ R!Place["0102RH"] = 1
  /\ R!Place["0102T"] = 2 /\ R!Place["0102P"] = 3
BY DEF R!Place, R!Names

LEMMA PutsFit ==
  ASSUME NEW d, NEW entry, Heard(d.kind, d.payload, entry), R!Agrees(d)
  PROVE  \/ /\ d.kind \in {"T", "M", "g"} /\ Len(R!Puts(d)) = 1
            /\ R!Puts(d)[1][1] \in {"0005", "0201", "0101"}
            /\ R!Fits(R!Puts(d)[1][1], R!Puts(d)[1][2], entry)
         \/ /\ d.kind = "f" /\ Len(R!Puts(d)) = 4
            /\ R!Puts(d)[1][1] = "0102T" /\ R!Fits("0102T", R!Puts(d)[1][2], entry)
            /\ R!Puts(d)[2][1] = "0102D" /\ R!Fits("0102D", R!Puts(d)[2][2], entry)
            /\ R!Puts(d)[3][1] = "0102P" /\ R!Fits("0102P", R!Puts(d)[3][2], entry)
            /\ R!Puts(d)[4][1] = "0102RH" /\ R!Fits("0102RH", R!Puts(d)[4][2], entry)
<1> DEFINE q == entry.quantities
           c == R!First(d)
<1>1. d.kind \in {"T", "f", "g", "M"}
  BY DEF Heard, Measured
<1>2. CASE d.kind = "M"
  <2>1. R!Puts(d) = <<<<"0201", c[1]>>>>
    BY <1>2 DEF R!Puts
  <2> QED BY <1>2, <2>1 DEF R!Fits
<1>3. d.kind # "M" => c = Decoded(d.kind, q) \/ (entry.heard = "cut" /\ c = Zeros(d.kind))
  BY AgreedCopies
<1>4. CASE d.kind = "T"
  <2>1. R!Puts(d) = <<<<"0005", c[1]>>>>
    BY <1>4 DEF R!Puts
  <2>2. c[1] = q[1] \/ (entry.heard = "cut" /\ c[1] = 0)
    BY <1>3, <1>4 DEF Decoded, Zeros
  <2> HIDE DEF c
  <2> QED BY <1>4, <2>1, <2>2, Placed DEF R!Fits
<1>5. CASE d.kind = "g"
  <2>1. R!Puts(d) = <<<<"0101", c[1]>>>>
    BY <1>5 DEF R!Puts
  <2>2. c[1] = R!OfSign(q[1]) \/ (entry.heard = "cut" /\ c[1] = 0)
    BY <1>3, <1>5 DEF Decoded, Zeros
  <2> HIDE DEF c
  <2> QED BY <1>5, <2>1, <2>2, Placed DEF R!Fits
<1>6. CASE d.kind = "f"
  <2>1. R!Puts(d) = <<<<"0102T", c[2]>>, <<"0102D", <<R!RH(c), c[2]>>>>, <<"0102P", c[3]>>, <<"0102RH", R!RH(c)>>>>
    BY <1>6 DEF R!Puts
  <2>2. \/ c[1] = q[1] /\ c[2] = R!Wrapped(q[2]) /\ c[3] = R!Wrapped(q[3])
        \/ entry.heard = "cut" /\ c[1] = 0 /\ c[2] = 0 /\ c[3] = 0
    BY <1>3, <1>6 DEF Decoded, Zeros
  <2>3. R!RH(c) = c[1] + 55
    BY DEF R!RH
  <2>4. R!RH(c) = q[1] + 55 \/ (entry.heard = "cut" /\ R!RH(c) = 55)
    BY <2>2, <2>3
  <2> HIDE DEF c
  <2>5. R!Fits("0102T", c[2], entry)
    BY <2>2, Placed DEF R!Fits
  <2>6. R!Fits("0102P", c[3], entry)
    BY <2>2, Placed DEF R!Fits
  <2>7. R!Fits("0102RH", R!RH(c), entry)
    BY <2>4, Placed DEF R!Fits
  <2>8. R!Fits("0102D", <<R!RH(c), c[2]>>, entry)
    BY DEF R!Fits
  <2> QED BY <1>6, <2>1, <2>5, <2>6, <2>7, <2>8
<1> QED BY <1>1, <1>2, <1>4, <1>5, <1>6

(* What is on the air, in the net, waiting and kept belongs to a frame sent.
   The values of a climate frame wait in their order, and the names already
   put are one ahead; an answer begins with a temperature no later than the
   one kept. *)
IsSequence(s) == \E S : s \in Seq(S)
Refers(frame) == frame \in 1 .. Len(log)
AirInv ==
  /\ IsSequence(log)
  /\ \A f \in air : f.kind # "noise" => Refers(Len(log)) /\ Heard(f.kind, f.payload, log[Len(log)])
  /\ \A d \in net : d.kind # "noise" => Refers(d.frame) /\ Heard(d.kind, d.payload, log[d.frame])
KeptInv ==
  /\ \A k \in 1 .. Len(puts) : Refers(puts[k].frame) /\ R!Fits(puts[k].name, puts[k].value, log[puts[k].frame])
  /\ \A name \in R!Names : values[name].frame # 0 =>
       Refers(values[name].frame) /\ R!Fits(name, values[name].value, log[values[name].frame])

Count(name) == values[name].puts
Even == Count("0102D") = Count("0102T") /\ Count("0102P") = Count("0102T") /\ Count("0102RH") = Count("0102T")
Waits(k, name) == puts[k].name = name
Waiting ==
  \/ Len(puts) = 0 /\ Even
  \/ Len(puts) = 1 /\ puts[1].name \in {"0005", "0201", "0101"} /\ Even
  \/ /\ Len(puts) = 4 /\ Even
     /\ Waits(1, "0102T") /\ Waits(2, "0102D") /\ Waits(3, "0102P") /\ Waits(4, "0102RH")
  \/ /\ Len(puts) = 3 /\ Waits(1, "0102D") /\ Waits(2, "0102P") /\ Waits(3, "0102RH")
     /\ Count("0102D") = Count("0102T") - 1 /\ Count("0102P") = Count("0102T") - 1 /\ Count("0102RH") = Count("0102T") - 1
  \/ /\ Len(puts) = 2 /\ Waits(1, "0102P") /\ Waits(2, "0102RH")
     /\ Count("0102D") = Count("0102T") /\ Count("0102P") = Count("0102T") - 1 /\ Count("0102RH") = Count("0102T") - 1
  \/ /\ Len(puts) = 1 /\ Waits(1, "0102RH")
     /\ Count("0102D") = Count("0102T") /\ Count("0102P") = Count("0102T") /\ Count("0102RH") = Count("0102T") - 1
PutsInv ==
  /\ IsSequence(puts)
  /\ DOMAIN values = R!Names /\ \A name \in R!Names : Count(name) \in Nat
  /\ Waiting
AnswerInv ==
  /\ answer \in Seq(Nat) /\ Len(answer) <= 4
  /\ \A k \in 1 .. Len(answer) : answer[k] >= answer[1] - 1
  /\ Len(answer) > 0 => answer[1] <= Count("0102T")
ChainInv == AirInv /\ KeptInv /\ PutsInv /\ AnswerInv

LEMMA Appended ==
  ASSUME NEW s, IsSequence(s), NEW x
  PROVE  /\ IsSequence(Append(s, x)) /\ Len(s) \in Nat /\ Len(Append(s, x)) = Len(s) + 1
         /\ Append(s, x)[Len(s) + 1] = x /\ \A k \in 1 .. Len(s) : Append(s, x)[k] = s[k]
<1>1. PICK S : s \in Seq(S)
  BY DEF IsSequence
<1>2. s \in Seq(S \cup {x})
  BY <1>1
<1>3. Append(s, x) \in Seq(S \cup {x})
  BY <1>2
<1> QED BY <1>2, <1>3 DEF IsSequence

LEMMA TailOf ==
  ASSUME NEW s, IsSequence(s), s # << >>
  PROVE  /\ IsSequence(Tail(s)) /\ Len(s) \in Nat \ {0} /\ Len(Tail(s)) = Len(s) - 1
         /\ Head(s) = s[1] /\ \A k \in 1 .. Len(s) - 1 : Tail(s)[k] = s[k + 1]
<1>1. PICK S : s \in Seq(S)
  BY DEF IsSequence
<1>2. Tail(s) \in Seq(S)
  BY <1>1
<1> QED BY <1>1, <1>2 DEF IsSequence

LEMMA ListOf ==
  ASSUME NEW m \in Nat, NEW f, f = [k \in 1 .. m |-> f[k]]
  PROVE  IsSequence(f) /\ Len(f) = m
<1>1. f \in [1 .. m -> {f[k] : k \in 1 .. m}]
  OBVIOUS
<1>2. f \in Seq({f[k] : k \in 1 .. m}) /\ Len(f) = m
  BY <1>1, Listed, Zenon
<1> QED BY <1>2 DEF IsSequence

LEMMA Empty == IsSequence(<< >>) /\ Len(<< >>) = 0
<1>1. << >> \in Seq({})
  OBVIOUS
<1> QED BY <1>1 DEF IsSequence

LEMMA ChainInitially == R!Init => ChainInv
<1> SUFFICES ASSUME R!Init PROVE ChainInv
  OBVIOUS
<1>1. /\ log = << >> /\ air = {} /\ net = {} /\ puts = << >> /\ answer = << >>
      /\ values = [name \in R!Names |-> R!Unknown]
  BY DEF R!Init
<1>2. \A name \in R!Names : values[name].frame = 0 /\ Count(name) = 0
  BY <1>1 DEF R!Unknown, Count
<1>3. AirInv
  BY <1>1, Empty DEF AirInv
<1>4. KeptInv
  BY <1>1, <1>2, Empty DEF KeptInv
<1>5. PutsInv
  <2>1. Even
    BY <1>2 DEF Even, R!Names
  <2> QED BY <1>1, <1>2, <2>1, Empty DEF PutsInv, Waiting
<1>6. AnswerInv
  BY <1>1, Empty DEF AnswerInv
<1> QED BY <1>3, <1>4, <1>5, <1>6 DEF ChainInv

\* What belongs to a frame sent still does when another is sent.
LEMMA StillRefers ==
  ASSUME IsSequence(log), NEW x, log' = Append(log, x), NEW frame, Refers(frame)
  PROVE  Refers(frame)' /\ log'[frame] = log[frame]
BY Appended DEF Refers

LEMMA SendChains == ASSUME ChainInv, R!Send PROVE ChainInv'
<1>1. air = {} /\ UNCHANGED <<net, puts, values, answer>>
  BY DEF R!Send
<1>2. IsSequence(log)
  BY DEF ChainInv, AirInv
<1>3. PICK kind \in R!Kinds : \E quantities \in Measurements[kind] : \E p, how :
        /\ air' = {[kind |-> kind, payload |-> p]}
        /\ log' = Append(log, [kind |-> kind, quantities |-> quantities, heard |-> how])
        /\ \/ p = R!Payload(kind, quantities) /\ how = "whole"
           \/ p \in R!Noisy(R!Payload(kind, quantities)) /\ how = "noisy"
           \/ how = "cut" /\ \E m \in 0 .. Len(R!Payload(kind, quantities)) - 1 : p = R!Cut(R!Payload(kind, quantities), m)
  BY DEF R!Send
<1>p. PICK quantities \in Measurements[kind] : \E p, how :
        /\ air' = {[kind |-> kind, payload |-> p]}
        /\ log' = Append(log, [kind |-> kind, quantities |-> quantities, heard |-> how])
        /\ \/ p = R!Payload(kind, quantities) /\ how = "whole"
           \/ p \in R!Noisy(R!Payload(kind, quantities)) /\ how = "noisy"
           \/ how = "cut" /\ \E m \in 0 .. Len(R!Payload(kind, quantities)) - 1 : p = R!Cut(R!Payload(kind, quantities), m)
  BY <1>3
<1>4. PICK p, how :
        /\ air' = {[kind |-> kind, payload |-> p]}
        /\ log' = Append(log, [kind |-> kind, quantities |-> quantities, heard |-> how])
        /\ \/ p = R!Payload(kind, quantities) /\ how = "whole"
           \/ p \in R!Noisy(R!Payload(kind, quantities)) /\ how = "noisy"
           \/ how = "cut" /\ \E m \in 0 .. Len(R!Payload(kind, quantities)) - 1 : p = R!Cut(R!Payload(kind, quantities), m)
  BY <1>p
<1>5. Measured(kind, quantities)
  BY MeasuredWords
<1> DEFINE entry == [kind |-> kind, quantities |-> quantities, heard |-> how]
<1>6. Heard(kind, p, entry)
  <2>1. entry.kind = kind /\ entry.quantities = quantities /\ entry.heard = how
    OBVIOUS
  <2> HIDE DEF entry
  <2>2. CASE p = R!Payload(kind, quantities)
    BY <1>5, <2>1, <2>2, HeardWhole
  <2>3. CASE p \in R!Noisy(R!Payload(kind, quantities))
    BY <1>5, <2>1, <2>3, HeardNoisy
  <2>4. CASE how = "cut" /\ \E m \in 0 .. Len(R!Payload(kind, quantities)) - 1 : p = R!Cut(R!Payload(kind, quantities), m)
    <3>1. PICK m \in 0 .. Len(R!Payload(kind, quantities)) - 1 : p = R!Cut(R!Payload(kind, quantities), m)
      BY <2>4
    <3>2. m \in Nat
      BY <3>1
    <3>3. Heard(kind, R!Cut(R!Payload(kind, quantities), m), entry)
      BY <1>5, <2>1, <2>4, <3>2, HeardCut
    <3> QED BY <3>1, <3>3
  <2> QED BY <1>4, <2>2, <2>3, <2>4
<1>7. IsSequence(log') /\ Len(log') \in Nat \ {0} /\ log'[Len(log')] = entry
  BY <1>2, <1>4, Appended
<1>8. \A frame : Refers(frame) => Refers(frame)' /\ log'[frame] = log[frame]
  BY <1>2, <1>4, StillRefers
<1> HIDE DEF entry
<1>9. AirInv'
  <2>1. \A f \in air' : Refers(Len(log))' /\ Heard(f.kind, f.payload, log'[Len(log')])
    BY <1>4, <1>6, <1>7 DEF Refers
  <2>2. \A d \in net' : d.kind # "noise" => Refers(d.frame)' /\ Heard(d.kind, d.payload, log'[d.frame])
    BY <1>1, <1>8 DEF ChainInv, AirInv
  <2> QED BY <1>7, <2>1, <2>2 DEF AirInv
<1>10. KeptInv'
  BY <1>1, <1>8 DEF ChainInv, KeptInv
<1>11. PutsInv' /\ AnswerInv'
  BY <1>1 DEF ChainInv, PutsInv, AnswerInv, Waiting, Even, Waits, Count
<1> QED BY <1>9, <1>10, <1>11 DEF ChainInv

LEMMA AirChains ==
  ASSUME ChainInv, R!Noise \/ R!Forward \/ R!Reinit \/ R!GatewayRestart \/ R!Lose
  PROVE  ChainInv'
<1>1. UNCHANGED <<log, puts, values, answer>>
  BY DEF R!Noise, R!Forward, R!Reinit, R!GatewayRestart, R!Lose
<1>2. /\ \A f \in air' : f \in air \/ f.kind = "noise"
      /\ \A d \in net' : d \in net \/ \E f \in air : d.kind = f.kind /\ d.payload = f.payload /\ d.frame = Len(log)
  BY DEF R!Noise, R!Forward, R!Reinit, R!GatewayRestart, R!Lose
<1>3. AirInv'
  BY <1>1, <1>2 DEF ChainInv, AirInv, Refers
<1>4. KeptInv' /\ PutsInv' /\ AnswerInv'
  BY <1>1 DEF ChainInv, KeptInv, PutsInv, AnswerInv, Waiting, Even, Waits, Count, Refers
<1> QED BY <1>3, <1>4 DEF ChainInv

LEMMA ReceiveChains == ASSUME ChainInv, R!Receive PROVE ChainInv'
<1>1. puts = << >> /\ UNCHANGED <<log, air, values, answer>>
  BY DEF R!Receive
<1>2. PICK d \in net :
        /\ net' = net \ {d}
        /\ puts' = IF d.kind # "noise" /\ R!Accepted(d)
                   THEN [k \in 1 .. Len(R!Puts(d)) |->
                           [name |-> R!Puts(d)[k][1], value |-> R!Puts(d)[k][2], frame |-> d.frame]]
                   ELSE << >>
  BY DEF R!Receive
<1>3. AirInv'
  BY <1>1, <1>2 DEF ChainInv, AirInv, Refers
<1>4. AnswerInv'
  BY <1>1 DEF ChainInv, AnswerInv, Count
<1>5. Even /\ Even' /\ \A name : Count(name)' = Count(name)
  <2>1. Len(puts) = 0
    BY <1>1, Empty
  <2>2. Even
    BY <2>1 DEF ChainInv, PutsInv, Waiting
  <2> QED BY <1>1, <2>2 DEF Even, Count
<1>6. /\ \A name \in R!Names : values'[name].frame # 0 =>
          Refers(values[name].frame)' /\ R!Fits(name, values'[name].value, log'[values'[name].frame])
      /\ DOMAIN values' = R!Names /\ \A name \in R!Names : Count(name)' \in Nat
  BY <1>1 DEF ChainInv, KeptInv, PutsInv, Refers, Count
<1>7. CASE d.kind # "noise" /\ R!Accepted(d)
  <2> DEFINE entry == log[d.frame]
             list == R!Puts(d)
             item(k) == [name |-> list[k][1], value |-> list[k][2], frame |-> d.frame]
  <2>1. Refers(d.frame) /\ Heard(d.kind, d.payload, entry) /\ R!Agrees(d)
    BY <1>2, <1>7 DEF ChainInv, AirInv, R!Accepted
  <2>2. \/ /\ Len(list) = 1 /\ list[1][1] \in {"0005", "0201", "0101"}
           /\ R!Fits(list[1][1], list[1][2], entry)
        \/ /\ Len(list) = 4
           /\ list[1][1] = "0102T" /\ R!Fits("0102T", list[1][2], entry)
           /\ list[2][1] = "0102D" /\ R!Fits("0102D", list[2][2], entry)
           /\ list[3][1] = "0102P" /\ R!Fits("0102P", list[3][2], entry)
           /\ list[4][1] = "0102RH" /\ R!Fits("0102RH", list[4][2], entry)
    BY <2>1, PutsFit
  <2>3. puts' = [k \in 1 .. Len(list) |-> item(k)]
    BY <1>2, <1>7
  <2> HIDE DEF list, entry
  <2>4. Len(list) \in Nat
    BY <2>2
  <2>5. puts' = [k \in 1 .. Len(list) |-> puts'[k]]
    BY <2>3
  <2>6. IsSequence(puts') /\ Len(puts') = Len(list)
    BY <2>4, <2>5, ListOf
  <2>7. \A k \in 1 .. Len(list) :
          puts'[k].name = list[k][1] /\ puts'[k].value = list[k][2] /\ puts'[k].frame = d.frame
    BY <2>3
  <2>8. \A k \in 1 .. Len(list) : R!Fits(list[k][1], list[k][2], entry)
    BY <2>2
  <2>9. \A k \in 1 .. Len(puts') : Refers(puts[k].frame)' /\ R!Fits(puts'[k].name, puts'[k].value, log'[puts'[k].frame])
    BY <1>1, <2>1, <2>6, <2>7, <2>8 DEF Refers, entry
  <2>10. Waiting'
    <3>1. CASE Len(list) = 1 /\ list[1][1] \in {"0005", "0201", "0101"}
      BY <1>5, <2>6, <2>7, <3>1 DEF Waiting
    <3>2. CASE /\ Len(list) = 4 /\ list[1][1] = "0102T" /\ list[2][1] = "0102D"
               /\ list[3][1] = "0102P" /\ list[4][1] = "0102RH"
      <4>1. Waits(1, "0102T")' /\ Waits(2, "0102D")' /\ Waits(3, "0102P")' /\ Waits(4, "0102RH")'
        BY <2>7, <3>2 DEF Waits
      <4> QED BY <1>5, <2>6, <3>2, <4>1 DEF Waiting
    <3> QED BY <2>2, <3>1, <3>2
  <2> QED BY <1>3, <1>4, <1>6, <2>6, <2>9, <2>10 DEF ChainInv, KeptInv, PutsInv
<1>8. CASE ~(d.kind # "noise" /\ R!Accepted(d))
  <2>1. puts' = << >>
    BY <1>2, <1>8
  <2>2. IsSequence(puts') /\ Len(puts') = 0
    BY <2>1, Empty
  <2> QED BY <1>3, <1>4, <1>5, <1>6, <2>2 DEF ChainInv, KeptInv, PutsInv, Waiting
<1> QED BY <1>7, <1>8

LEMMA PutChains == ASSUME ChainInv, R!PutValue PROVE ChainInv'
<1>1. puts # << >> /\ puts' = Tail(puts) /\ UNCHANGED <<log, air, net, answer>>
  BY DEF R!PutValue
<1>2. IsSequence(puts)
  BY DEF ChainInv, PutsInv
<1>3. /\ IsSequence(puts') /\ Len(puts) \in Nat \ {0} /\ Len(puts') = Len(puts) - 1
      /\ Head(puts) = puts[1] /\ \A k \in 1 .. Len(puts) - 1 : puts'[k] = puts[k + 1]
  BY <1>1, <1>2, TailOf
<1>0. PICK p : p = puts[1]
  OBVIOUS
<1>4. values' = [values EXCEPT ![p.name] = [value |-> p.value, frame |-> p.frame, puts |-> @.puts + 1]]
  BY <1>0, <1>3 DEF R!PutValue
<1>5. Refers(p.frame) /\ R!Fits(p.name, p.value, log[p.frame])
  BY <1>0, <1>3 DEF ChainInv, KeptInv
<1>6. DOMAIN values = R!Names /\ (\A name \in R!Names : Count(name) \in Nat) /\ Waiting
  BY DEF ChainInv, PutsInv
<1>7. p.name \in R!Names
  BY <1>0, <1>3, <1>6 DEF Waiting, Waits, R!Names
<1>8. /\ DOMAIN values' = R!Names
      /\ values'[p.name].value = p.value /\ values'[p.name].frame = p.frame
      /\ Count(p.name)' = Count(p.name) + 1
      /\ \A name \in R!Names \ {p.name} : values'[name] = values[name] /\ Count(name)' = Count(name)
  BY <1>4, <1>6, <1>7 DEF Count
<1>9. AirInv'
  BY <1>1 DEF ChainInv, AirInv, Refers
<1>10. KeptInv'
  <2>1. \A k \in 1 .. Len(puts') : Refers(puts'[k].frame) /\ R!Fits(puts'[k].name, puts'[k].value, log[puts'[k].frame])
    BY <1>3 DEF ChainInv, KeptInv
  <2>2. ASSUME NEW name \in R!Names, values'[name].frame # 0
        PROVE  Refers(values'[name].frame) /\ R!Fits(name, values'[name].value, log[values'[name].frame])
    <3>1. CASE name = p.name
      BY <1>5, <1>8, <3>1
    <3>2. CASE name # p.name
      BY <1>8, <2>2, <3>2 DEF ChainInv, KeptInv
    <3> QED BY <3>1, <3>2
  <2> QED BY <1>1, <2>1, <2>2 DEF KeptInv, Refers
<1>11. \A name \in R!Names : Count(name)' \in Nat
  BY <1>6, <1>7, <1>8
<1>12. /\ Count("0102T") \in Nat /\ Count("0102D") \in Nat /\ Count("0102P") \in Nat /\ Count("0102RH") \in Nat
  BY <1>6 DEF R!Names
<1>13. \A name \in {"0102T", "0102D", "0102P", "0102RH"} : Count(name)' = IF name = p.name THEN Count(name) + 1 ELSE Count(name)
  BY <1>8 DEF R!Names
<1>14. Waiting' /\ Count("0102T")' >= Count("0102T")
  <2>1. CASE Len(puts) = 0
    BY <1>3, <2>1
  <2>2. CASE Len(puts) = 1 /\ puts[1].name \in {"0005", "0201", "0101"} /\ Even
    <3>1. p.name \notin {"0102T", "0102D", "0102P", "0102RH"}
      BY <1>0, <2>2
    <3>2. Even' /\ Count("0102T")' = Count("0102T")
      BY <1>13, <2>2, <3>1 DEF Even
    <3> QED BY <1>3, <1>12, <2>2, <3>2 DEF Waiting
  <2>3. CASE /\ Len(puts) = 4 /\ Even
             /\ Waits(1, "0102T") /\ Waits(2, "0102D") /\ Waits(3, "0102P") /\ Waits(4, "0102RH")
    <3>1. p.name = "0102T" /\ Len(puts') = 3
      BY <1>0, <1>3, <2>3 DEF Waits
    <3>2. Waits(1, "0102D")' /\ Waits(2, "0102P")' /\ Waits(3, "0102RH")'
      BY <1>3, <2>3 DEF Waits
    <3> QED BY <1>12, <1>13, <2>3, <3>1, <3>2 DEF Waiting, Even
  <2>4. CASE /\ Len(puts) = 3 /\ Waits(1, "0102D") /\ Waits(2, "0102P") /\ Waits(3, "0102RH")
             /\ Count("0102D") = Count("0102T") - 1 /\ Count("0102P") = Count("0102T") - 1
             /\ Count("0102RH") = Count("0102T") - 1
    <3>1. p.name = "0102D" /\ Len(puts') = 2
      BY <1>0, <1>3, <2>4 DEF Waits
    <3>2. Waits(1, "0102P")' /\ Waits(2, "0102RH")'
      BY <1>3, <2>4 DEF Waits
    <3> QED BY <1>12, <1>13, <2>4, <3>1, <3>2 DEF Waiting
  <2>5. CASE /\ Len(puts) = 2 /\ Waits(1, "0102P") /\ Waits(2, "0102RH")
             /\ Count("0102D") = Count("0102T") /\ Count("0102P") = Count("0102T") - 1
             /\ Count("0102RH") = Count("0102T") - 1
    <3>1. p.name = "0102P" /\ Len(puts') = 1
      BY <1>0, <1>3, <2>5 DEF Waits
    <3>2. Waits(1, "0102RH")'
      BY <1>3, <2>5 DEF Waits
    <3> QED BY <1>12, <1>13, <2>5, <3>1, <3>2 DEF Waiting
  <2>6. CASE /\ Len(puts) = 1 /\ Waits(1, "0102RH")
             /\ Count("0102D") = Count("0102T") /\ Count("0102P") = Count("0102T")
             /\ Count("0102RH") = Count("0102T") - 1
    <3>1. p.name = "0102RH" /\ Len(puts') = 0
      BY <1>0, <1>3, <2>6 DEF Waits
    <3> QED BY <1>12, <1>13, <2>6, <3>1 DEF Waiting, Even
  <2> QED BY <1>6, <2>1, <2>2, <2>3, <2>4, <2>5, <2>6 DEF Waiting
<1>15. PutsInv'
  BY <1>3, <1>8, <1>11, <1>14 DEF PutsInv
<1>16. AnswerInv'
  <2>1. /\ answer \in Seq(Nat) /\ Len(answer) <= 4
        /\ \A k \in 1 .. Len(answer) : answer[k] >= answer[1] - 1
        /\ Len(answer) > 0 => answer[1] <= Count("0102T")
    BY DEF ChainInv, AnswerInv
  <2>2. Len(answer) > 0 => answer[1] <= Count("0102T")'
    <3>1. Count("0102T")' \in Nat
      BY <1>11 DEF R!Names
    <3>2. Len(answer) > 0 => answer[1] \in Nat
      BY <2>1
    <3> QED BY <1>12, <1>14, <2>1, <3>1, <3>2
  <2> QED BY <1>1, <2>1, <2>2 DEF AnswerInv
<1> QED BY <1>9, <1>10, <1>15, <1>16 DEF ChainInv

LEMMA UpToThree == ASSUME NEW m \in Nat, m <= 4, m # 4 PROVE m \in {0, 1, 2, 3}
OBVIOUS

\* An answer of m values, whose next is c, while the temperature kept is the t-th.
Appends(a, m, c, t) ==
  /\ a \in Seq(Nat) /\ Len(a) = m
  /\ \A k \in 1 .. m : a[k] \in Nat /\ a[k] >= a[1] - 1
  /\ m > 0 => a[1] <= t
  /\ c >= t - 1 /\ (m = 0 => c = t)

LEMMA AnswerAppended ==
  ASSUME NEW a, NEW m \in {0, 1, 2, 3}, NEW c \in Nat, NEW t \in Nat, Appends(a, m, c, t)
  PROVE  /\ Append(a, c) \in Seq(Nat) /\ Len(Append(a, c)) <= 4 /\ Append(a, c)[1] <= t
         /\ \A k \in 1 .. Len(Append(a, c)) : Append(a, c)[k] >= Append(a, c)[1] - 1
<1>1. /\ Append(a, c) \in Seq(Nat) /\ Len(Append(a, c)) = m + 1 /\ Append(a, c)[m + 1] = c
      /\ \A k \in 1 .. m : Append(a, c)[k] = a[k]
  BY DEF Appends
<1>2. PICK b : b = Append(a, c)
  OBVIOUS
<1>3. b[m + 1] = c /\ \A k \in 1 .. m : b[k] = a[k]
  BY <1>1, <1>2
<1>4. b[1] <= t /\ b[1] \in Nat
  BY <1>3 DEF Appends
<1>5. \A k \in 1 .. m + 1 : b[k] >= b[1] - 1
  BY <1>3, <1>4 DEF Appends
<1> QED BY <1>1, <1>2, <1>4, <1>5

LEMMA GetChains == ASSUME ChainInv, R!GetValue PROVE ChainInv'
<1>1. /\ UNCHANGED <<log, air, net, puts, values>>
      /\ answer' = IF Len(answer) = 4 THEN << >> ELSE Append(answer, Count(R!Climate[Len(answer) + 1]))
  BY DEF R!GetValue, R!Climate, Count
<1>2. AirInv' /\ KeptInv' /\ PutsInv'
  BY <1>1 DEF ChainInv, AirInv, KeptInv, PutsInv, Waiting, Even, Waits, Count, Refers
<1>3. /\ answer \in Seq(Nat) /\ Len(answer) \in Nat /\ Len(answer) <= 4
      /\ \A k \in 1 .. Len(answer) : answer[k] \in Nat /\ answer[k] >= answer[1] - 1
      /\ Len(answer) > 0 => answer[1] <= Count("0102T")
  BY DEF ChainInv, AnswerInv
<1>4. /\ Count("0102T") \in Nat /\ Count("0102D") \in Nat /\ Count("0102P") \in Nat /\ Count("0102RH") \in Nat
      /\ Waiting
  BY DEF ChainInv, PutsInv, R!Names
<1>5. \A name \in {"0102T", "0102D", "0102P", "0102RH"} : Count(name) \in Nat /\ Count(name) >= Count("0102T") - 1
  BY <1>4 DEF Waiting, Even
<1>6. CASE Len(answer) = 4
  BY <1>1, <1>2, <1>6, Empty DEF ChainInv, AnswerInv
<1>7. CASE Len(answer) # 4
  <2>1. PICK m \in {0, 1, 2, 3} : Len(answer) = m
    BY <1>3, <1>7, UpToThree
  <2>2. R!Climate[m + 1] \in {"0102T", "0102D", "0102P", "0102RH"} /\ R!Climate[1] = "0102T"
    BY DEF R!Climate
  <2>3. PICK c \in Nat : c = Count(R!Climate[m + 1])
    BY <1>5, <2>2
  <2>4. c >= Count("0102T") - 1 /\ (m = 0 => c = Count("0102T"))
    BY <1>5, <2>2, <2>3
  <2>5. answer' = Append(answer, c) /\ Count("0102T")' = Count("0102T")
    BY <1>1, <1>7, <2>1, <2>3 DEF Count
  <2>6. Appends(answer, m, c, Count("0102T"))
    BY <1>3, <1>4, <2>1, <2>4 DEF Appends
  <2>7. /\ Append(answer, c) \in Seq(Nat) /\ Len(Append(answer, c)) <= 4 /\ Append(answer, c)[1] <= Count("0102T")
        /\ \A k \in 1 .. Len(Append(answer, c)) : Append(answer, c)[k] >= Append(answer, c)[1] - 1
    BY <1>4, <2>6, AnswerAppended
  <2>8. AnswerInv'
    BY <2>5, <2>7 DEF AnswerInv
  <2> QED BY <1>2, <2>8 DEF ChainInv
<1> QED BY <1>6, <1>7

LEMMA ChainNext == ChainInv /\ [R!Next]_(R!vars) => ChainInv'
<1>1. ASSUME ChainInv, UNCHANGED R!vars PROVE ChainInv'
  BY <1>1 DEF R!vars, ChainInv, AirInv, KeptInv, PutsInv, AnswerInv, Waiting, Even, Waits, Count, Refers
<1> QED BY <1>1, SendChains, AirChains, ReceiveChains, PutChains, GetChains DEF R!Next

(* Whatever is lost in the net, however many frames lose their end or a byte of
   their payload on the air, and however the gateway fares, a value kept is one
   its node measured, up to what the decoding loses, or the zero of a cut frame;
   and no climate value of an answer is more than one frame older than its
   temperature.  Movements are excepted. *)
THEOREM KeepsWhatWasMeasured == R!Spec => []AnswersAreMeasured
<1>1. ChainInv => AnswersAreMeasured
  <2>1. ASSUME ChainInv PROVE R!KeptWasMeasured
    BY <2>1 DEF R!Sound, R!KeptWasMeasured, ChainInv, KeptInv
  <2>2. ASSUME ChainInv PROVE R!AnswerHangsTogether
    BY <2>2 DEF R!AnswerHangsTogether, ChainInv, AnswerInv
  <2> QED BY <2>1, <2>2 DEF AnswersAreMeasured, R!AnswersAreMeasured
<1> QED BY <1>1, ChainInitially, ChainNext, PTL DEF R!Spec

-----------------------------------------------------------------------------
(* The boot loader: the parser follows the sender field by field, hex_check is
   the sum of what has been heard of the line, and the page buffer the part of
   the file's image that is not yet in the flash. *)

(* Induction over the natural numbers, for a set: from the least one outside it. *)
LEMMA SetInduction ==
  ASSUME NEW S, 0 \in S, \A n \in Nat : n \in S => n + 1 \in S
  PROVE  Nat \subseteq S
<1> SUFFICES ASSUME ~(Nat \subseteq S) PROVE FALSE
  OBVIOUS
<1> DEFINE Good == Nat \ S
<1>1. Good \subseteq Nat /\ Good # {}
  OBVIOUS
<1>2. PICK x \in Good : \A y \in Good : ~ (<<y, x>> \in OpToRel(<, Nat))
  <2> HIDE DEF Good
  <2> QED BY <1>1, NatLessThanWellFounded, WFMin, Zenon
<1>3. x \in Nat /\ x # 0 /\ x - 1 \in Nat /\ x - 1 < x
  OBVIOUS
<1>4. <<x - 1, x>> \in OpToRel(<, Nat)
  BY <1>3 DEF OpToRel
<1>5. x - 1 \notin Good
  BY <1>2, <1>4
<1>6. x - 1 \in S
  BY <1>3, <1>5
<1> QED BY <1>3, <1>6

Page(a) == a \div PageSize
Begin(p) == p * PageSize

(* A page is the multiple of its size that an address falls in. *)
LEMMA Paged ==
  ASSUME NEW a \in Nat
  PROVE  /\ Page(a) \in Nat /\ Begin(Page(a)) \in Nat /\ a % PageSize \in 0 .. PageSize - 1
         /\ a = Begin(Page(a)) + (a % PageSize) /\ L!PageOf(a) = Begin(Page(a))
         /\ Begin(Page(a)) <= a /\ a < Begin(Page(a)) + PageSize /\ a % PageSize = a - Begin(Page(a))
         /\ Page(a) + 1 \in Nat /\ Begin(Page(a) + 1) = Begin(Page(a)) + PageSize
<1> DEFINE q == a \div PageSize
           r == a % PageSize
<1>1. a = q * PageSize + r /\ r \in 0 .. PageSize - 1 /\ q \in Nat
  BY PageAssumption
<1> HIDE DEF q, r
<1>2. q * PageSize \in Nat
  BY <1>1, PageAssumption
<1>3. a - r = q * PageSize
  BY <1>1, <1>2
<1>4. (q + 1) * PageSize = q * PageSize + PageSize
  BY <1>1, PageAssumption
<1>5. q * PageSize <= a /\ a < q * PageSize + PageSize /\ r = a - q * PageSize /\ q + 1 \in Nat
  BY <1>1, <1>2, PageAssumption
<1> QED BY <1>1, <1>2, <1>3, <1>4, <1>5 DEF Page, Begin, L!PageOf, q, r

LEMMA Begins == ASSUME NEW p \in Nat PROVE Begin(p) \in Nat /\ Begin(p + 1) = Begin(p) + PageSize
BY PageAssumption DEF Begin

LEMMA LaterBegins ==
  ASSUME NEW p \in Nat, NEW q \in Nat, p < q PROVE Begin(p) + PageSize <= Begin(q)
<1>1. PICK d \in Nat : q = p + 1 + d
  <2>1. q - p - 1 \in Nat /\ q = p + 1 + (q - p - 1)
    OBVIOUS
  <2> QED BY <2>1
<1>2. d * PageSize \in Nat
  BY PageAssumption
<1>3. Begin(q) = Begin(p + 1) + d * PageSize
  BY <1>1, PageAssumption DEF Begin
<1> QED BY <1>2, <1>3, Begins, PageAssumption

LEMMA PageIs ==
  ASSUME NEW p \in Nat, NEW a \in Nat, Begin(p) <= a, a < Begin(p) + PageSize
  PROVE  Page(a) = p /\ a % PageSize = a - Begin(p)
<1>1. /\ Page(a) \in Nat /\ Begin(Page(a)) \in Nat /\ Begin(p) \in Nat
      /\ Begin(Page(a)) <= a /\ a < Begin(Page(a)) + PageSize /\ PageSize \in Nat
      /\ a % PageSize = a - Begin(Page(a))
  BY Paged, Begins, PageAssumption
<1>2. ~ (Page(a) < p) /\ ~ (p < Page(a))
  BY <1>1, LaterBegins
<1> QED BY <1>1, <1>2

(* The byte after the last one of a page is the first of the next. *)
LEMMA NextByte ==
  ASSUME NEW a \in Nat
  PROVE  IF (a % PageSize) + 1 = PageSize THEN Page(a + 1) = Page(a) + 1 /\ (a + 1) % PageSize = 0
         ELSE Page(a + 1) = Page(a) /\ (a + 1) % PageSize = (a % PageSize) + 1
<1>1. /\ Page(a) \in Nat /\ Begin(Page(a)) \in Nat /\ a % PageSize \in 0 .. PageSize - 1
      /\ a = Begin(Page(a)) + (a % PageSize) /\ PageSize \in Nat \ {0}
      /\ Page(a) + 1 \in Nat /\ Begin(Page(a) + 1) = Begin(Page(a)) + PageSize
  BY Paged, Begins, PageAssumption
<1>2. CASE (a % PageSize) + 1 = PageSize
  <2>1. a + 1 = Begin(Page(a) + 1)
    BY <1>1, <1>2
  <2> QED BY <1>1, <1>2, <2>1, PageIs
<1>3. CASE (a % PageSize) + 1 # PageSize
  <2>1. a + 1 \in Nat /\ Begin(Page(a)) <= a + 1 /\ a + 1 < Begin(Page(a)) + PageSize
    BY <1>1, <1>3
  <2>2. Page(a + 1) = Page(a) /\ (a + 1) % PageSize = a + 1 - Begin(Page(a))
    BY <1>1, <2>1, PageIs
  <2> QED BY <1>1, <1>3, <2>2
<1> QED BY <1>2, <1>3

LEMMA LaterPage ==
  ASSUME NEW a \in Nat, NEW b \in Nat, a <= b
  PROVE  Page(a) <= Page(b) /\ (b <= a + PageSize => Page(b) <= Page(a) + 1)
<1>1. /\ Page(a) \in Nat /\ Begin(Page(a)) \in Nat /\ Begin(Page(a)) <= a /\ a < Begin(Page(a)) + PageSize
      /\ Page(b) \in Nat /\ Begin(Page(b)) \in Nat /\ Begin(Page(b)) <= b /\ b < Begin(Page(b)) + PageSize
      /\ PageSize \in Nat /\ Page(a) + 1 \in Nat /\ Begin(Page(a) + 1) = Begin(Page(a)) + PageSize
  BY Paged, Begins, PageAssumption
<1>2. ~ (Page(b) < Page(a))
  BY <1>1, LaterBegins
<1>3. b <= a + PageSize => ~ (Page(a) + 1 < Page(b))
  BY <1>1, LaterBegins
<1> QED BY <1>1, <1>2, <1>3

(* TailLost compares an address with the begin of a page. *)
LEMMA BeforePage ==
  ASSUME NEW a \in Nat, NEW b \in Nat PROVE a < L!PageOf(b) <=> Page(a) < Page(b)
<1>1. /\ Page(a) \in Nat /\ Begin(Page(a)) \in Nat /\ Begin(Page(a)) <= a /\ a < Begin(Page(a)) + PageSize
      /\ Page(b) \in Nat /\ Begin(Page(b)) \in Nat /\ L!PageOf(b) = Begin(Page(b)) /\ PageSize \in Nat
  BY Paged, PageAssumption
<1>2. Page(a) < Page(b) => Begin(Page(a)) + PageSize <= Begin(Page(b))
  BY <1>1, LaterBegins
<1>3. Page(b) < Page(a) => Begin(Page(b)) + PageSize <= Begin(Page(a))
  BY <1>1, LaterBegins
<1> QED BY <1>1, <1>2, <1>3

LEMMA Elements == ASSUME NEW S, NEW s \in Seq(S) PROVE Len(s) \in Nat /\ \A j \in 1 .. Len(s) : s[j] \in S
OBVIOUS

(* A byte, and the bytes of a line. *)
LEMMA Octet == ASSUME NEW b \in Octets PROVE b \in Nat /\ b <= 255
BY DEF Octets

LEMMA DoubleOctet == ASSUME NEW a \in DoubleOctets PROVE a \in Nat /\ a \div 256 \in Nat /\ a \div 256 <= 255
<1>1. a \in Nat /\ a <= 65535
  BY SMT DEF DoubleOctets
<1> QED BY <1>1, SMT

LEMMA OctetElements ==
  ASSUME NEW s \in Seq(Octets) PROVE Len(s) \in Nat /\ \A j \in 1 .. Len(s) : s[j] \in Octets /\ s[j] \in Nat
BY Elements, Octet, Zenon

(* The sums of the first bytes of a line. *)
LEMMA SumsAre ==
  ASSUME NEW b \in Seq(Octets)
  PROVE  /\ L!Sums(b) \in [0 .. Len(b) -> Nat] /\ L!Sums(b)[0] = 0
         /\ \A j \in 1 .. Len(b) : L!Sums(b)[j] = L!Sums(b)[j - 1] + b[j]
<1> DEFINE n == Len(b)
           Sum(g, m) == g[0] = 0 /\ \A j \in 1 .. m : g[j] = g[j - 1] + b[j]
           Good == {m \in Nat : m <= n => \E g \in [0 .. m -> Nat] : Sum(g, m)}
<1>1. n \in Nat /\ \A j \in 1 .. n : b[j] \in Nat
  BY OctetElements
<1>2. 0 \in Good
  <2>1. [j \in 0 .. 0 |-> 0] \in [0 .. 0 -> Nat] /\ Sum([j \in 0 .. 0 |-> 0], 0)
    OBVIOUS
  <2> QED BY <2>1
<1>3. ASSUME NEW m \in Nat, m \in Good PROVE m + 1 \in Good
  <2> SUFFICES ASSUME m + 1 <= n PROVE \E g \in [0 .. m + 1 -> Nat] : Sum(g, m + 1)
    <3>1. m + 1 \in Nat
      OBVIOUS
    <3> QED BY <3>1, Zenon
  <2>0. m <= n
    BY <1>1
  <2>1. PICK g \in [0 .. m -> Nat] : Sum(g, m)
    BY <1>3, <2>0
  <2> DEFINE h == [j \in 0 .. m + 1 |-> IF j <= m THEN g[j] ELSE g[m] + b[m + 1]]
  <2>2. g[m] \in Nat /\ b[m + 1] \in Nat
    BY <1>1
  <2>3. h \in [0 .. m + 1 -> Nat]
    BY <2>2
  <2>4. h[0] = 0
    BY <2>1
  <2>5. ASSUME NEW j \in 1 .. m + 1 PROVE h[j] = h[j - 1] + b[j]
    <3>1. CASE j <= m
      BY <2>1, <3>1
    <3>2. CASE j = m + 1
      BY <3>2
    <3> QED BY <3>1, <3>2
  <2> QED BY <2>3, <2>4, <2>5
<1>4. n \in Good
  <2> HIDE DEF Good
  <2> QED BY <1>1, <1>2, <1>3, SetInduction
<1>5. PICK g \in [0 .. n -> Nat] : Sum(g, n)
  BY <1>1, <1>4
<1> DEFINE Is(f) == f = [i \in 0 .. n |-> IF i = 0 THEN 0 ELSE f[i - 1] + b[i]]
<1>6. Is(g)
  <2>1. \A i \in 0 .. n : g[i] = IF i = 0 THEN 0 ELSE g[i - 1] + b[i]
    BY <1>5, <1>1
  <2> QED BY <2>1
<1>7. Is(L!Sums(b))
  <2>1. L!Sums(b) = CHOOSE f : Is(f)
    BY DEF L!Sums
  <2> QED BY <1>6, <2>1
<1> DEFINE S == L!Sums(b)
<1>8. DOMAIN S = 0 .. n /\ S = [i \in 0 .. n |-> S[i]] /\ Sum(S, n)
  <2>1. \A i \in 0 .. n : S[i] = IF i = 0 THEN 0 ELSE S[i - 1] + b[i]
    BY <1>7
  <2> QED BY <1>1, <1>7, <2>1
<1> DEFINE U == {m \in Nat : m <= n => S[m] = g[m]}
<1> HIDE DEF S, Is
<1>9. 0 \in U /\ \A m \in Nat : m \in U => m + 1 \in U
  <2>1. 0 \in U
    BY <1>1, <1>5, <1>8
  <2>2. ASSUME NEW m \in Nat, m \in U PROVE m + 1 \in U
    <3>1. m + 1 \in Nat /\ (m + 1 <= n => m <= n /\ m + 1 \in 1 .. n /\ m + 1 - 1 = m)
      BY <1>1
    <3>2. ASSUME m + 1 <= n PROVE S[m + 1] = g[m + 1]
      <4> DEFINE k == m + 1
      <4>1. k \in 1 .. n /\ k - 1 = m /\ S[m] = g[m]
        BY <2>2, <3>1, <3>2
      <4> HIDE DEF k
      <4>2. S[k] = S[k - 1] + b[k]
        BY <1>8, <4>1
      <4>3. g[k] = g[k - 1] + b[k]
        BY <1>5, <4>1
      <4> QED BY <4>1, <4>2, <4>3 DEF k
    <3> QED BY <3>1, <3>2
  <2> QED BY <2>1, <2>2
<1>10. Nat \subseteq U
  <2> HIDE DEF U
  <2> QED BY <1>9, SetInduction
<1>11. \A i \in 0 .. n : S[i] \in Nat
  BY <1>1, <1>5, <1>10
<1> QED BY <1>8, <1>11 DEF S

(* A line of a file, and its fields. *)
LEMMA RecordOf ==
  ASSUME NEW A, NEW B, NEW C, NEW r \in [type : A, addr : B, data : C]
  PROVE  r.type \in A /\ r.addr \in B /\ r.data \in C
OBVIOUS

TypedLine(r) ==
  /\ r.type \in Nat /\ r.type <= 255
  /\ r.addr \in Nat /\ r.addr \div 256 \in Nat /\ r.addr \div 256 <= 255
  /\ r.data \in Seq(Octets) /\ Len(r.data) \in Nat

LEMMA HexLine == ASSUME NEW r \in HexLines PROVE TypedLine(r)
BY RecordOf, Octet, DoubleOctet, Elements, Zenon DEF TypedLine, HexLines

LEMMA NotEmpty == ASSUME NEW n \in 1 .. 255 PROVE n \in Nat /\ n <= 255 /\ n > 0
OBVIOUS

Length(r) == Len(r.data)

(* All lines of a file have data, but for the end record. *)
LEMMA LineOf ==
  ASSUME file \in Files, NEW l \in 1 .. Len(file)
  PROVE  /\ TypedLine(file[l]) /\ Length(file[l]) \in Nat /\ Length(file[l]) <= 255
         /\ IF l = Len(file) THEN file[l].type = 1 /\ file[l].addr = 0 /\ Length(file[l]) = 0
            ELSE file[l].type # 1 /\ Length(file[l]) > 0
<1>1. file \in Seq(HexLines)
  BY FilesAssumption, Zenon
<1>2. file[l] \in HexLines
  BY <1>1, Elements, Zenon
<1>3. TypedLine(file[l])
  BY <1>2, HexLine, Zenon
<1>4. Len(file) \in Nat
  BY <1>1, Elements, Zenon
<1>5. CASE l = Len(file)
  <2>1. file[l] = EndRecord
    BY <1>5, FilesAssumption, Zenon
  <2>2. file[l].type = 1 /\ file[l].addr = 0 /\ file[l].data = << >> /\ Len(<< >>) = 0
    BY <2>1 DEF EndRecord
  <2>3. Length(file[l]) = 0
    BY <2>2 DEF Length
  <2>4. Length(file[l]) \in Nat /\ Length(file[l]) <= 255
    BY <2>3
  <2> QED BY <1>3, <1>5, <2>2, <2>3, <2>4, Zenon
<1>6. CASE l # Len(file)
  <2>1. l \in 1 .. Len(file) - 1
    BY <1>4, <1>6
  <2>2. file[l].type # 1 /\ Len(file[l].data) \in 1 .. 255
    BY <2>1, FilesAssumption, Zenon
  <2> QED BY <1>3, <1>6, <2>2, NotEmpty, Zenon DEF Length
<1> QED BY <1>5, <1>6

LEMMA FileEnds == ASSUME file \in Files PROVE Len(file) \in Nat /\ Len(file) > 0
<1>1. file \in Seq(HexLines) /\ file # << >>
  BY FilesAssumption, Zenon
<1> HIDE FilesAssumption
<1> QED BY <1>1

Field(r, k) == L!Fields(r)[k]

Followed(c, a, b, S, n, m) ==
  /\ c \in Seq(S) /\ Len(c) = n + m
  /\ \A j \in 1 .. n : c[j] = a[j]
  /\ \A j \in 1 .. m : c[n + j] = b[j]

(* The fields of a line are its head, its data and its checksum. *)
LEMMA Joined ==
  ASSUME NEW S, NEW a \in Seq(S), NEW b \in Seq(S), NEW n \in Nat, NEW m \in Nat, Len(a) = n, Len(b) = m
  PROVE  Followed(a \o b, a, b, S, n, m)
BY DEF Followed

Composed(g, h, d, k) ==
  /\ Len(g) = Len(d) + 5 /\ g[Len(d) + 5] = k
  /\ \A j \in 1 .. 4 : g[j] = h[j]
  /\ \A j \in 1 .. Len(d) : g[4 + j] = d[j]

LEMMA Between ==
  ASSUME NEW S, NEW h \in Seq(S), Len(h) = 4, NEW d \in Seq(S), NEW k \in S
  PROVE  Composed((h \o d) \o <<k>>, h, d, k)
<1> DEFINE n == Len(d)
           f == h \o d
           g == f \o <<k>>
<1>1. n \in Nat /\ <<k>> \in Seq(S) /\ Len(<<k>>) = 1 /\ <<k>>[1] = k
  OBVIOUS
<1>2. /\ f \in Seq(S) /\ Len(f) = n + 4
      /\ \A j \in 1 .. 4 : f[j] = h[j]
      /\ \A j \in 1 .. n : f[4 + j] = d[j]
  <2>1. \E m \in Nat : m = Len(d) /\ Followed(f, h, d, S, 4, m)
    <3>1. Len(d) \in Nat /\ 4 \in Nat
      OBVIOUS
    <3>2. Followed(h \o d, h, d, S, 4, Len(d))
      BY <3>1, Joined, Zenon
    <3> QED BY <3>1, <3>2
  <2> HIDE DEF f
  <2>2. PICK m \in Nat : m = Len(d) /\ Followed(f, h, d, S, 4, m)
    BY <2>1
  <2> QED BY <2>2 DEF Followed
<1> HIDE DEF f
<1>3. Len(g) = n + 5 /\ g[n + 5] = k /\ \A j \in 1 .. n + 4 : g[j] = f[j]
  BY <1>1, <1>2
<1> HIDE DEF g
<1>4. \A j \in 1 .. 4 : g[j] = h[j]
  BY <1>1, <1>2, <1>3
<1>5. \A j \in 1 .. n : g[4 + j] = d[j]
  BY <1>1, <1>2, <1>3
<1> QED BY <1>3, <1>4, <1>5 DEF f, g, Composed

LEMMA AsSequence ==
  ASSUME NEW d \in Seq(Octets) PROVE d \in Seq({":"} \cup Int)
<1>1. d \in [1 .. Len(d) -> Octets] /\ Len(d) \in Nat
  OBVIOUS
<1>2. \A b \in Octets : b \in {":"} \cup Int
  BY Octet
<1> QED BY <1>1, <1>2

LEMMA SumIsInt ==
  ASSUME NEW r, TypedLine(r)
  PROVE  /\ L!LowPlusHigh(r.addr) \in Nat /\ L!Sums(r.data)[Len(r.data)] \in Nat
         /\ L!Checksum(r) \in Nat /\ L!Checksum(r) <= 255
<1> DEFINE a == L!LowPlusHigh(r.addr)
           s == L!Sums(r.data)[Len(r.data)]
           n == Len(r.data)
<1>1. a \in Nat
  BY DEF TypedLine, L!LowPlusHigh
<1>2. s \in Nat
  <2>1. L!Sums(r.data) \in [0 .. n -> Nat] /\ n \in Nat
    BY SumsAre, Zenon DEF TypedLine
  <2> QED BY <2>1
<1>3. n \in Nat /\ r.type \in Nat
  BY DEF TypedLine
<1>4. L!Checksum(r) = (-(n + a + r.type + s)) % 256
  BY DEF L!Checksum
<1> HIDE DEF a, s, n
<1> DEFINE t == n + a + r.type + s
<1>5. t \in Nat
  BY <1>1, <1>2, <1>3
<1> HIDE DEF t
<1>6. (-t) % 256 \in Nat /\ (-t) % 256 <= 255
  BY <1>5
<1>7. L!Checksum(r) \in Nat /\ L!Checksum(r) <= 255
  BY <1>4, <1>6 DEF t
<1> QED BY <1>1, <1>2, <1>7 DEF a, s, n

LEMMA FieldsAre ==
  ASSUME NEW r, TypedLine(r)
  PROVE  /\ Len(L!Fields(r)) = Length(r) + 5
         /\ Field(r, 1) = ":" /\ Field(r, 2) = Length(r)
         /\ Field(r, 3) = r.addr /\ Field(r, 4) = r.type
         /\ \A j \in 1 .. Length(r) : Field(r, 4 + j) = r.data[j]
         /\ Field(r, Length(r) + 5) = L!Checksum(r)
<1> DEFINE d == r.data
           n == Len(d)
           head == <<":", n, r.addr, r.type>>
           S == {":"} \cup Int
           k == L!Checksum(r)
           g == (head \o d) \o <<k>>
<1>1. d \in Seq(Octets) /\ n \in Nat /\ r.addr \in Int /\ r.type \in Int
  BY DEF TypedLine
<1>2. k \in S
  BY SumIsInt
<1>3. head \in Seq(S) /\ Len(head) = 4
  BY <1>1
<1>4. d \in Seq(S)
  BY <1>1, AsSequence
<1>5. L!Fields(r) = g
  BY DEF L!Fields
<1>6. head[1] = ":" /\ head[2] = n /\ head[3] = r.addr /\ head[4] = r.type
  OBVIOUS
<1>7. /\ Len(g) = n + 5 /\ g[n + 5] = k
      /\ \A j \in 1 .. 4 : g[j] = head[j]
      /\ \A j \in 1 .. n : g[4 + j] = d[j]
  <2> HIDE DEF head, S, k, d
  <2>1. Composed(g, head, d, k)
    BY <1>2, <1>3, <1>4, Between, Zenon
  <2> QED BY <2>1 DEF Composed, n, d
<1> HIDE DEF g
<1>8. g[1] = head[1] /\ g[2] = head[2] /\ g[3] = head[3] /\ g[4] = head[4]
  <2>1. \A j \in 1 .. 4 : g[j] = head[j]
    BY <1>7
  <2> HIDE DEF head
  <2> QED BY <2>1
<1> QED BY <1>5, <1>6, <1>7, <1>8 DEF Field, Length

(* The sum of the fields of a line before one of them. *)
Summed(r, k) ==
  IF k <= 2 THEN 0 ELSE IF k = 3 THEN Length(r)
  ELSE IF k = 4 THEN Length(r) + L!LowPlusHigh(r.addr)
  ELSE Length(r) + L!LowPlusHigh(r.addr) + r.type + L!Sums(r.data)[k - 5]

(* What hex_check sums up, field by field. *)
LEMMA SummedIs ==
  ASSUME NEW r, TypedLine(r)
  PROVE  /\ \A k \in 1 .. Length(r) + 5 : Summed(r, k) \in Nat
         /\ Summed(r, 2) = 0 /\ Summed(r, 3) = Length(r)
         /\ Summed(r, 4) = Length(r) + L!LowPlusHigh(r.addr)
         /\ Summed(r, 5) = Summed(r, 4) + r.type
         /\ \A j \in 1 .. Length(r) : Summed(r, 5 + j) = Summed(r, 4 + j) + r.data[j]
         /\ L!Checksum(r) = (-Summed(r, Length(r) + 5)) % 256
<1> DEFINE d == r.data
           n == Len(d)
           a == L!LowPlusHigh(r.addr)
           t == r.type
           S == L!Sums(d)
           s(k) == IF k <= 2 THEN 0 ELSE IF k = 3 THEN n ELSE IF k = 4 THEN n + a ELSE n + a + t + S[k - 5]
<1>1. /\ d \in Seq(Octets) /\ n \in Nat /\ t \in Nat /\ a \in Nat
      /\ \A j \in 1 .. n : d[j] \in Nat
  BY SumIsInt, OctetElements, Zenon DEF TypedLine
<1>2. /\ S \in [0 .. n -> Nat] /\ S[0] = 0
      /\ \A j \in 1 .. n : S[j] = S[j - 1] + d[j]
  BY <1>1, SumsAre, Zenon
<1>3. L!Checksum(r) = (-(n + a + t + S[n])) % 256
  BY DEF L!Checksum
<1>4. \A k : Summed(r, k) = s(k)
  BY DEF Summed, Length
<1> HIDE DEF d, n, a, t, S
<1>5. ASSUME NEW k \in 1 .. n + 5 PROVE s(k) \in Nat
  <2>1. k > 4 => k - 5 \in 0 .. n
    BY <1>1
  <2>2. k > 4 => S[k - 5] \in Nat
    BY <1>2, <2>1
  <2> QED BY <1>1, <2>2
<1>6. ASSUME NEW j \in 1 .. n PROVE s(5 + j) = s(4 + j) + d[j]
  <2>1. S[j] = S[j - 1] + d[j]
    BY <1>2
  <2>2. j \in Nat /\ j > 0 /\ j - 1 \in 0 .. n /\ j \in 0 .. n /\ 5 + j - 5 = j /\ 4 + j - 5 = j - 1
    BY <1>1
  <2>3. S[j - 1] \in Nat /\ S[j] \in Nat /\ d[j] \in Nat
    BY <1>1, <1>2, <2>2
  <2>4. s(5 + j) = n + a + t + S[j] /\ s(4 + j) = n + a + t + S[j - 1]
    BY <2>2
  <2> QED BY <1>1, <2>1, <2>3, <2>4
<1>7. s(n + 5) = n + a + t + S[n]
  <2>1. ~ (n + 5 <= 2) /\ n + 5 # 3 /\ n + 5 # 4 /\ n + 5 - 5 = n
    BY <1>1
  <2> QED BY <1>1, <2>1
<1>8. s(5) = n + a + t /\ s(4) = n + a /\ s(3) = n /\ s(2) = 0
  BY <1>1, <1>2
<1> HIDE DEF s
<1>9. s(5) = s(4) + t
  BY <1>1, <1>8
<1> QED BY <1>3, <1>4, <1>5, <1>6, <1>7, <1>8, <1>9 DEF Length, d, n, a, t

StateAt(r, k) ==
  IF k = 1 THEN "START" ELSE IF k = 2 THEN "SIZE" ELSE IF k = 3 THEN "ADDRESS"
  ELSE IF k = 4 THEN "TYPE" ELSE IF k = Length(r) + 5 THEN "CHECKSUM" ELSE "DATA"

Small(d) == d \in Int /\ -256 < d /\ d < 256

(* The parser is before the k-th field of a line, which is the last one of its
   file or not, and of which a field has been changed or not. *)
Stage(r, k, last, changed) ==
  /\ k \in Nat /\ k > 0 /\ k <= Length(r) + 5
  /\ parser_state = StateAt(r, k)
  /\ k > 2 => hex_size = Length(r)
  /\ k > 4 => (hex_type = 1 <=> last)
  /\ k > 4 /\ k < Length(r) + 5 => hex_data_cnt = k - 5
  /\ k > 1 => /\ hex_check \in Int /\ Small(hex_check - Summed(r, k))
              /\ hex_check = Summed(r, k) <=> ~changed
  /\ changed => k > 3

InStep ==
  /\ line <= Len(file) /\ wrong \in {0, line}
  /\ Stage(file[line], place, line = Len(file), wrong = line)

(* The parser follows the sender until a changed type misleads it or a line
   does not sum up. *)
Following ==
  /\ line \in Nat /\ line > 0
  /\ \/ InStep
     \/ line > Len(file)
     \/ place = 5 /\ wrong = line /\ parser_state = "CHECKSUM" /\ hex_type = 1
     \/ place = 5 /\ wrong = line /\ parser_state = "DATA" /\ line = Len(file)
     \/ wrong \in Nat \ {0} /\ wrong < line /\ parser_state = "ERROR"

Misled == wrong # 0 => wrong = line - 1 \/ (wrong = line /\ hex_type = 1)

(* What the loader hears is the next field, or a changed one. *)
LEMMA Hears ==
  ASSUME file \in Files, line \in Nat, line > 0, NEW c, L!Hear(c)
  PROVE  /\ line <= Len(file) /\ TypedLine(file[line])
         /\ \/ c = Field(file[line], place) /\ wrong' = wrong
            \/ wrong = 0 /\ place > 2 /\ c \in L!Changed(Field(file[line], place)) /\ wrong' = line
         /\ place < Length(file[line]) + 5 => place' = place + 1 /\ line' = line
         /\ ~ (place < Length(file[line]) + 5) => place' = 1 /\ line' = line + 1
         /\ file' = file /\ before' = before
<1>1. line <= Len(file) /\ file' = file /\ before' = before
  BY DEF L!Hear
<1>2. line \in 1 .. Len(file)
  BY <1>1, FileEnds
<1>3. TypedLine(file[line])
  BY <1>2, LineOf
<1>4. Len(L!Fields(file[line])) = Length(file[line]) + 5
  BY <1>3, FieldsAre
<1>5. /\ \/ c = Field(file[line], place) /\ wrong' = wrong
         \/ wrong = 0 /\ place > 2 /\ c \in L!Changed(Field(file[line], place)) /\ wrong' = line
      /\ IF place < Len(L!Fields(file[line])) THEN place' = place + 1 /\ line' = line
         ELSE place' = 1 /\ line' = line + 1
  BY DEF L!Hear, Field
<1> QED BY <1>1, <1>3, <1>4, <1>5

LEMMA GarbledIs == ASSUME NEW b \in Garbled PROVE b \in Nat /\ b <= 255
<1>1. b \in Octets
  BY PageAssumption
<1> QED BY <1>1, Octet

LEMMA HighAndLow ==
  ASSUME NEW a \in Nat PROVE a = 256 * (a \div 256) + (a % 256) /\ a % 256 \in 0 .. 255
OBVIOUS

(* An address with one changed byte. *)
LEMMA ChangedAddress ==
  ASSUME NEW r, TypedLine(r), place = 3, NEW c \in L!Changed(r.addr)
  PROVE  /\ L!LowPlusHigh(c) \in Int /\ Small(L!LowPlusHigh(c) - L!LowPlusHigh(r.addr))
         /\ L!LowPlusHigh(c) # L!LowPlusHigh(r.addr)
<1> DEFINE a == r.addr
<1>1. a \in Nat /\ a \div 256 \in Nat /\ a \div 256 <= 255
  BY DEF TypedLine
<1>2. PICK b \in Garbled : c # a /\ (c = 256 * (a \div 256) + b \/ c = 256 * b + (a % 256))
  BY DEF L!Changed
<1>3. b \in Nat /\ b <= 255
  BY GarbledIs
<1> HIDE DEF a
<1> DEFINE h == a \div 256
           l == a % 256
<1>4. a = 256 * h + l /\ l \in Nat /\ l <= 255 /\ h \in Nat /\ h <= 255
  BY <1>1, HighAndLow
<1>5. L!LowPlusHigh(a) = l + h
  BY DEF L!LowPlusHigh
<1> HIDE DEF h, l
<1>6. CASE c = 256 * h + b
  <2>1. c % 256 = b /\ c \div 256 = h
    BY <1>3, <1>4, <1>6
  <2>2. L!LowPlusHigh(c) = b + h /\ b # l
    BY <1>2, <1>4, <1>6, <2>1 DEF L!LowPlusHigh, h
  <2> QED BY <1>3, <1>4, <1>5, <2>2 DEF Small, a
<1>7. CASE c = 256 * b + l
  <2>1. c % 256 = l /\ c \div 256 = b
    BY <1>3, <1>4, <1>7
  <2>2. L!LowPlusHigh(c) = l + b /\ b # h
    BY <1>2, <1>4, <1>7, <2>1 DEF L!LowPlusHigh
  <2> QED BY <1>3, <1>4, <1>5, <2>2 DEF Small, a
<1> QED BY <1>2, <1>6, <1>7 DEF h, l

LEMMA ChangedByte ==
  ASSUME place # 3, NEW v \in Nat, v <= 255, NEW c \in L!Changed(v)
  PROVE  c \in Nat /\ c <= 255 /\ c # v /\ Small(c - v)
<1>1. c \in Garbled /\ c # v
  BY DEF L!Changed
<1> QED BY <1>1, GarbledIs DEF Small

(* A sum that is off by less than 256 is not 0 modulo 256. *)
LEMMA ModuloSum ==
  ASSUME NEW t \in Nat, NEW d \in Int, -256 < d, d < 256
  PROVE  (t + d + ((-t) % 256)) % 256 = 0 <=> d = 0
<1> DEFINE x == (-t) % 256
           q == (-t) \div 256
<1>1. -t = 256 * q + x /\ q \in Int /\ x \in Int
  OBVIOUS
<1>2. t + d + x = d - 256 * q
  BY <1>1
<1> HIDE DEF x, q
<1>3. (d - 256 * q) % 256 = 0 <=> d = 0
  BY <1>1
<1> QED BY <1>2, <1>3 DEF x

(* The step of a parser that follows, to the next field of the line. *)
LEMMA StartFollows ==
  ASSUME file \in Files, line \in Nat, line > 0, InStep, NEW c, L!Hear(c), L!ParseStart(c)
  PROVE  Following' /\ mode' = mode
<1> DEFINE r == file[line]
<1>1. /\ line <= Len(file) /\ TypedLine(r) /\ Length(r) \in Nat
      /\ file' = file /\ wrong \in {0, line}
  BY Hears DEF TypedLine, Length, InStep
<1>2. place = 1
  BY <1>1 DEF InStep, Stage, StateAt, L!ParseStart
<1>3. wrong = 0 /\ c = ":" /\ wrong' = wrong /\ place' = 2 /\ line' = line
  BY <1>1, <1>2, Hears, FieldsAre DEF InStep, Stage
<1>4. parser_state' = "SIZE" /\ hex_check' = 0 /\ mode' = mode
  BY <1>3 DEF L!ParseStart
<1>5. Summed(r, 2) = 0
  BY <1>1, SummedIs
<1> HIDE DEF r
<1>6. Stage(r, 2, line = Len(file), FALSE)'
  <2>1. r' = r
    BY <1>1, <1>3 DEF r
  <2> QED BY <1>1, <1>4, <1>5, <2>1 DEF Stage, StateAt, Small
<1> QED BY <1>1, <1>3, <1>4, <1>6 DEF Following, InStep, Stage, r

LEMMA SizeFollows ==
  ASSUME file \in Files, line \in Nat, line > 0, InStep, NEW c, L!Hear(c), L!ParseSize(c)
  PROVE  Following' /\ mode' = mode
<1> DEFINE r == file[line]
<1>1. /\ line <= Len(file) /\ TypedLine(r) /\ Length(r) \in Nat
      /\ file' = file /\ wrong \in {0, line}
  BY Hears DEF TypedLine, Length, InStep
<1>2. place = 2
  BY <1>1 DEF InStep, Stage, StateAt, L!ParseSize
<1>3. wrong = 0 /\ c = Length(r) /\ wrong' = wrong /\ place' = 3 /\ line' = line
  BY <1>1, <1>2, Hears, FieldsAre DEF InStep, Stage
<1>4. hex_check = 0
  BY <1>1, <1>2, <1>3, SummedIs DEF InStep, Stage
<1>5. parser_state' = "ADDRESS" /\ hex_check' = Length(r) /\ hex_size' = Length(r) /\ mode' = mode
  BY <1>1, <1>3, <1>4 DEF L!ParseSize
<1>6. Summed(r, 3) = Length(r)
  BY <1>1, SummedIs
<1> HIDE DEF r
<1>7. Stage(r, 3, line = Len(file), FALSE)'
  <2>1. r' = r
    BY <1>1, <1>3 DEF r
  <2> QED BY <1>1, <1>5, <1>6, <2>1 DEF Stage, StateAt, Small
<1> QED BY <1>1, <1>3, <1>5, <1>7 DEF Following, InStep, Stage, r

LEMMA AddressFollows ==
  ASSUME file \in Files, line \in Nat, line > 0, InStep, NEW c, L!Hear(c), L!ParseAddress(c)
  PROVE  Following' /\ mode' = mode
<1> DEFINE r == file[line]
<1>1. /\ line <= Len(file) /\ TypedLine(r) /\ Length(r) \in Nat
      /\ file' = file /\ wrong \in {0, line}
  BY Hears DEF TypedLine, Length, InStep
<1>2. place = 3
  BY <1>1 DEF InStep, Stage, StateAt, L!ParseAddress
<1>3. wrong = 0 /\ place' = 4 /\ line' = line
  BY <1>1, <1>2, Hears DEF InStep, Stage
<1>4. hex_check = Length(r) /\ hex_size = Length(r)
  BY <1>1, <1>2, <1>3, SummedIs DEF InStep, Stage
<1>5. parser_state' = "TYPE" /\ hex_check' = Length(r) + L!LowPlusHigh(c) /\ hex_size' = Length(r) /\ mode' = mode
  BY <1>4 DEF L!ParseAddress
<1>6. Summed(r, 4) = Length(r) + L!LowPlusHigh(r.addr) /\ L!LowPlusHigh(r.addr) \in Nat
  BY <1>1, SummedIs, SumIsInt
<1>7. \/ c = r.addr /\ wrong' = 0
      \/ c \in L!Changed(r.addr) /\ wrong' = line
  BY <1>1, <1>2, <1>3, Hears, FieldsAre
<1> HIDE DEF r
<1>8. r' = r
  BY <1>1, <1>3 DEF r
<1>9. CASE c = r.addr /\ wrong' = 0
  <2>1. Stage(r, 4, line = Len(file), FALSE)'
    BY <1>1, <1>5, <1>6, <1>8, <1>9 DEF Stage, StateAt, Small
  <2> QED BY <1>1, <1>3, <1>5, <1>9, <2>1 DEF Following, InStep, Stage, r
<1>10. CASE c \in L!Changed(r.addr) /\ wrong' = line
  <2>1. /\ L!LowPlusHigh(c) \in Int /\ Small(L!LowPlusHigh(c) - L!LowPlusHigh(r.addr))
        /\ L!LowPlusHigh(c) # L!LowPlusHigh(r.addr)
    BY <1>1, <1>2, <1>10, ChangedAddress
  <2>2. hex_check' \in Int /\ Small(hex_check' - Summed(r, 4)) /\ hex_check' # Summed(r, 4)
    BY <1>1, <1>5, <1>6, <2>1 DEF Small
  <2>3. Stage(r, 4, line = Len(file), TRUE)'
    BY <1>1, <1>5, <1>8, <2>2 DEF Stage, StateAt
  <2> QED BY <1>1, <1>3, <1>5, <1>10, <2>3 DEF Following, InStep, r
<1> QED BY <1>7, <1>9, <1>10

LEMMA TypeFollows ==
  ASSUME file \in Files, line \in Nat, line > 0, InStep, NEW c, L!Hear(c), L!ParseType(c)
  PROVE  Following' /\ mode' = mode
<1> DEFINE r == file[line]
<1>1. /\ line <= Len(file) /\ TypedLine(r) /\ Length(r) \in Nat
      /\ file' = file /\ wrong \in {0, line}
  BY Hears DEF TypedLine, Length, InStep
<1>2. place = 4
  BY <1>1 DEF InStep, Stage, StateAt, L!ParseType
<1>3. place' = 5 /\ line' = line /\ r.type \in Nat /\ r.type <= 255
  BY <1>1, <1>2, Hears DEF TypedLine
<1>4. /\ IF line = Len(file) THEN r.type = 1 /\ Length(r) = 0 ELSE r.type # 1 /\ Length(r) > 0
  <2>1. line \in 1 .. Len(file)
    BY <1>1, FileEnds
  <2> QED BY <2>1, LineOf
<1>5. /\ hex_size = Length(r) /\ hex_check \in Int /\ Small(hex_check - Summed(r, 4))
      /\ hex_check = Summed(r, 4) <=> wrong # line
  BY <1>2 DEF InStep, Stage
<1>6. /\ parser_state' = (IF c = 1 THEN "CHECKSUM" ELSE "DATA") /\ hex_type' = c /\ hex_check' = hex_check + c
      /\ hex_data_cnt' = 0 /\ hex_size' = Length(r) /\ mode' = mode
  BY <1>5 DEF L!ParseType
<1>7. Summed(r, 5) = Summed(r, 4) + r.type /\ Summed(r, 4) \in Nat
  BY <1>1, SummedIs
<1>8. \/ c = r.type /\ wrong' = wrong
      \/ wrong = 0 /\ c \in L!Changed(r.type) /\ wrong' = line
  BY <1>1, <1>2, Hears, FieldsAre
<1> HIDE DEF r
<1>9. r' = r
  BY <1>1, <1>3 DEF r
<1>10. CASE c = r.type /\ wrong' = wrong
  <2>1. /\ hex_check' \in Int /\ Small(hex_check' - Summed(r, 5))
        /\ hex_check' = Summed(r, 5) <=> wrong # line
    BY <1>3, <1>5, <1>6, <1>7, <1>10 DEF Small
  <2>2. parser_state' = StateAt(r, 5) /\ (hex_type' = 1 <=> line = Len(file))
    BY <1>1, <1>4, <1>6, <1>10 DEF StateAt
  <2>3. Stage(r, 5, line = Len(file), wrong = line)'
    BY <1>1, <1>3, <1>6, <1>9, <1>10, <2>1, <2>2 DEF Stage
  <2> QED BY <1>1, <1>3, <1>6, <1>10, <2>3 DEF Following, InStep, r
<1>11. CASE wrong = 0 /\ c \in L!Changed(r.type) /\ wrong' = line
  <2>1. c \in Nat /\ c <= 255 /\ c # r.type /\ Small(c - r.type)
    BY <1>2, <1>3, <1>11, ChangedByte
  <2>2. CASE c = 1
    BY <1>3, <1>6, <1>11, <2>2 DEF Following
  <2>3. CASE c # 1 /\ line = Len(file)
    BY <1>1, <1>3, <1>6, <1>11, <2>3 DEF Following
  <2>4. CASE c # 1 /\ line # Len(file)
    <3>1. hex_check = Summed(r, 4)
      BY <1>5, <1>11
    <3>2. hex_check' \in Int /\ Small(hex_check' - Summed(r, 5)) /\ hex_check' # Summed(r, 5)
      BY <1>3, <1>6, <1>7, <2>1, <3>1 DEF Small
    <3>3. parser_state' = StateAt(r, 5)
      BY <1>1, <1>4, <1>6, <2>4 DEF StateAt
    <3>4. Stage(r, 5, line = Len(file), TRUE)'
      BY <1>1, <1>3, <1>6, <1>9, <2>4, <3>2, <3>3 DEF Stage
    <3> QED BY <1>1, <1>3, <1>6, <1>11, <3>4 DEF Following, InStep, r
  <2> QED BY <2>2, <2>3, <2>4
<1> QED BY <1>8, <1>10, <1>11

LEMMA DataFollows ==
  ASSUME file \in Files, line \in Nat, line > 0, InStep, NEW c, L!Hear(c), L!ParseData(c)
  PROVE  Following' /\ mode' = mode
<1> DEFINE r == file[line]
           n == Length(r)
           j == place - 4
<1>1. /\ line <= Len(file) /\ TypedLine(r) /\ n \in Nat
      /\ file' = file /\ wrong \in {0, line}
  BY Hears DEF TypedLine, Length, InStep
<1>2. /\ place \in Nat /\ place > 4 /\ place < n + 5
      /\ n <= 255
  <2>1. place \in Nat /\ place > 4 /\ place < n + 5
    BY <1>1 DEF InStep, Stage, StateAt, L!ParseData
  <2>2. line \in 1 .. Len(file)
    BY <1>1, FileEnds
  <2> QED BY <2>1, <2>2, LineOf
<1>3. j \in 1 .. n /\ place = 4 + j /\ place' = 5 + j /\ line' = line
  BY <1>1, <1>2, Hears
<1>4. /\ hex_size = n /\ hex_data_cnt = j - 1 /\ (hex_type = 1 <=> line = Len(file))
      /\ hex_check \in Int /\ Small(hex_check - Summed(r, place))
      /\ hex_check = Summed(r, place) <=> wrong # line
  BY <1>2, <1>3 DEF InStep, Stage
<1>5. r.data[j] \in Nat /\ r.data[j] <= 255
  <2>1. r.data \in Seq(Octets) /\ n = Len(r.data)
    BY <1>1 DEF TypedLine, Length
  <2>2. r.data[j] \in Octets
    BY <1>3, <2>1, OctetElements
  <2> QED BY <2>2, Octet
<1>6. Summed(r, 5 + j) = Summed(r, 4 + j) + r.data[j] /\ Summed(r, 4 + j) \in Nat
  <2>1. 4 + j \in 1 .. n + 5
    BY <1>1, <1>3
  <2> QED BY <1>1, <1>3, <2>1, SummedIs
<1>7. \/ c = r.data[j] /\ wrong' = wrong
      \/ wrong = 0 /\ c \in L!Changed(r.data[j]) /\ wrong' = line
  <2>1. Field(r, 4 + j) = r.data[j]
    BY <1>1, <1>3, FieldsAre
  <2> QED BY <1>1, <1>3, <2>1, Hears
<1> HIDE DEF r, n, j
<1>8. (hex_data_cnt + 1) % 256 = j
  BY <1>1, <1>2, <1>3, <1>4
<1>9. /\ parser_state' = (IF j = n THEN "CHECKSUM" ELSE parser_state)
      /\ hex_data_cnt' = (IF j = n THEN 0 ELSE j)
      /\ hex_check' = hex_check + c /\ hex_size' = n /\ hex_type' = hex_type /\ mode' = mode
      /\ parser_state = "DATA"
  BY <1>4, <1>8 DEF L!ParseData
<1>10. r' = r
  BY <1>1, <1>3 DEF r
<1>11. /\ hex_check' \in Int /\ Small(hex_check' - Summed(r, 5 + j))
       /\ hex_check' = Summed(r, 5 + j) <=> wrong' # line
       /\ wrong' \in {0, line}
  <2>1. CASE c = r.data[j] /\ wrong' = wrong
    <3> DEFINE s == Summed(r, 4 + j)
               v == r.data[j]
    <3>1. s \in Nat /\ v \in Nat /\ hex_check \in Int /\ hex_check' = hex_check + v
      BY <1>4, <1>5, <1>6, <1>9, <2>1
    <3>2. Summed(r, 5 + j) = s + v /\ Small(hex_check - s) /\ (hex_check = s <=> wrong # line)
      BY <1>3, <1>4, <1>6
    <3> HIDE DEF s, v
    <3>3. hex_check' \in Int /\ hex_check' - (s + v) = hex_check - s /\ (hex_check' = s + v <=> hex_check = s)
      BY <3>1
    <3> QED BY <1>1, <2>1, <3>2, <3>3
  <2>2. CASE wrong = 0 /\ c \in L!Changed(r.data[j]) /\ wrong' = line
    <3>1. c \in Nat /\ c <= 255 /\ c # r.data[j] /\ Small(c - r.data[j])
      BY <1>2, <1>5, <2>2, ChangedByte
    <3>2. hex_check = Summed(r, 4 + j)
      BY <1>3, <1>4, <2>2
    <3> QED BY <1>5, <1>6, <1>9, <2>2, <3>1, <3>2 DEF Small
  <2> QED BY <1>7, <2>1, <2>2
<1>12. parser_state' = StateAt(r, 5 + j)
  BY <1>1, <1>3, <1>9 DEF StateAt, n
<1>13. 5 + j \in Nat /\ 5 + j > 4 /\ 5 + j <= n + 5 /\ (5 + j < n + 5 => hex_data_cnt' = 5 + j - 5)
  BY <1>1, <1>3, <1>9
<1>14. Stage(r, place, line = Len(file), wrong = line)'
  <2> DEFINE k == 5 + j
  <2>1. place' = k /\ k \in Nat /\ k > 4 /\ k <= n + 5 /\ (k < n + 5 => hex_data_cnt' = k - 5)
    BY <1>3, <1>13
  <2>2. /\ hex_check' \in Int /\ Small(hex_check' - Summed(r, k))
        /\ hex_check' = Summed(r, k) <=> wrong' # line
        /\ parser_state' = StateAt(r, k)
    BY <1>11, <1>12
  <2> HIDE DEF k
  <2>3. k > 0 /\ k > 3
    BY <2>1
  <2> QED BY <1>1, <1>3, <1>4, <1>9, <1>10, <2>1, <2>2, <2>3 DEF Stage, n
<1> QED BY <1>1, <1>3, <1>9, <1>11, <1>14 DEF Following, InStep, r

(* A line that sums up is followed by the next; another one stops the parser; the end record
   starts the application either way. *)
LEMMA ChecksumFollows ==
  ASSUME file \in Files, line \in Nat, line > 0, InStep, NEW c, L!Hear(c), L!ParseChecksum(c)
  PROVE  /\ hex_type = 1 <=> line = Len(file)
         /\ IF hex_type = 1 THEN mode' = "started" /\ Misled' ELSE mode' = mode /\ Following'
<1> DEFINE r == file[line]
           n == Length(r)
<1>1. /\ line <= Len(file) /\ TypedLine(r) /\ n \in Nat
      /\ file' = file /\ wrong \in {0, line}
  BY Hears DEF TypedLine, Length, InStep
<1>2. place = n + 5
  BY <1>1 DEF InStep, Stage, StateAt, L!ParseChecksum
<1>3. place' = 1 /\ line' = line + 1
  BY <1>1, <1>2, Hears
<1>4. /\ hex_type = 1 <=> line = Len(file)
      /\ hex_check \in Int /\ Small(hex_check - Summed(r, n + 5))
      /\ hex_check = Summed(r, n + 5) <=> wrong # line
  BY <1>1, <1>2 DEF InStep, Stage
<1>5. /\ L!Checksum(r) = (-Summed(r, n + 5)) % 256 /\ Summed(r, n + 5) \in Nat
      /\ L!Checksum(r) \in Nat /\ L!Checksum(r) <= 255
  BY <1>1, SummedIs, SumIsInt
<1>6. \/ c = L!Checksum(r) /\ wrong' = wrong
      \/ wrong = 0 /\ c \in L!Changed(L!Checksum(r)) /\ wrong' = line
  BY <1>1, <1>2, Hears, FieldsAre
<1> HIDE DEF r, n
<1>7. PICK d \in Int : Small(d) /\ hex_check + c = Summed(r, n + 5) + d + L!Checksum(r) /\ (d = 0 <=> wrong' # line)
  <2>1. CASE c = L!Checksum(r) /\ wrong' = wrong
    <3>1. /\ hex_check - Summed(r, n + 5) \in Int
          /\ hex_check + c = Summed(r, n + 5) + (hex_check - Summed(r, n + 5)) + L!Checksum(r)
          /\ hex_check - Summed(r, n + 5) = 0 <=> hex_check = Summed(r, n + 5)
      BY <1>4, <1>5, <2>1
    <3> QED BY <1>4, <2>1, <3>1
  <2>2. CASE wrong = 0 /\ c \in L!Changed(L!Checksum(r)) /\ wrong' = line
    <3>1. c \in Nat /\ c <= 255 /\ c # L!Checksum(r) /\ Small(c - L!Checksum(r))
      BY <1>1, <1>2, <1>5, <2>2, ChangedByte
    <3>2. hex_check = Summed(r, n + 5)
      BY <1>4, <2>2
    <3>3. /\ c - L!Checksum(r) \in Int /\ c - L!Checksum(r) # 0
          /\ hex_check + c = Summed(r, n + 5) + (c - L!Checksum(r)) + L!Checksum(r)
      <4> DEFINE s == Summed(r, n + 5)
                 k == L!Checksum(r)
      <4>1. s \in Nat /\ k \in Nat /\ c \in Nat /\ c # k /\ hex_check = s
        BY <1>5, <3>1, <3>2
      <4> HIDE DEF s, k
      <4>2. c - k \in Int /\ c - k # 0 /\ hex_check + c = s + (c - k) + k
        BY <4>1
      <4> QED BY <4>2 DEF s, k
    <3> QED BY <2>2, <3>1, <3>3
  <2> QED BY <1>6, <2>1, <2>2
<1>8. (hex_check + c) % 256 = 0 <=> wrong' # line
  <2>1. (Summed(r, n + 5) + d + ((-Summed(r, n + 5)) % 256)) % 256 = 0 <=> d = 0
    BY <1>5, <1>7, ModuloSum DEF Small
  <2> QED BY <1>5, <1>7, <2>1
<1>9. /\ parser_state' = (IF wrong' # line THEN "START" ELSE "ERROR")
      /\ IF hex_type = 1 THEN mode' = "started" ELSE mode' = mode
  BY <1>8 DEF L!ParseChecksum, L!NextState, L!SumsUp
<1>10. wrong' \in {0, line}
  BY <1>1, <1>6
<1>11. CASE hex_type = 1
  BY <1>3, <1>4, <1>9, <1>10, <1>11 DEF Misled
<1>12. CASE hex_type # 1 /\ wrong' = line
  BY <1>3, <1>4, <1>9, <1>12 DEF Following
<1>13. CASE hex_type # 1 /\ wrong' = 0
  <2>1. line' <= Len(file') /\ line' \in Nat /\ line' > 0 /\ wrong' # line'
    BY <1>1, <1>3, <1>4, <1>13, FileEnds
  <2>2. parser_state' = "START"
    BY <1>9, <1>13
  <2>3. Length(file'[line']) \in Nat
    <3>1. line' \in 1 .. Len(file) /\ file'[line'] = file[line']
      BY <1>1, <2>1, FileEnds
    <3>2. TypedLine(file[line'])
      BY <3>1, LineOf
    <3> QED BY <3>1, <3>2 DEF TypedLine, Length
  <2>4. Stage(file[line], place, line = Len(file), wrong = line)'
    BY <1>3, <1>13, <2>1, <2>2, <2>3 DEF Stage, StateAt
  <2> QED BY <1>4, <1>9, <1>13, <2>1, <2>4 DEF Following, InStep
<1> QED BY <1>4, <1>9, <1>10, <1>11, <1>12, <1>13

HeldByte(a) ==
  IF \E r \in L!Data : L!Holds(r, a)
  THEN LET r == CHOOSE r \in L!Data : L!Holds(r, a) IN r.data[a - r.addr + 1]
  ELSE 255

(* The address of the next byte, the page the file begins in, and the last
   line whose address has been heard. *)
At == IF line < Len(file) THEN file[line].addr + (IF place > 5 THEN place - 5 ELSE 0) ELSE L!End
First == Page(file[1].addr)
Begun == IF place > 3 /\ line < Len(file) THEN line ELSE line - 1

Loaded(p) == First <= p /\ p < Page(At)

(* What has been heard of a plain file is in the flash, page by page, and in
   the buffer.  A page has its address when a line has begun in it. *)
Buffered ==
  /\ flash = [p \in L!Pages |-> IF Loaded(p) THEN L!Image(p) ELSE before[p]]
  /\ \A p \in L!Pages : Loaded(p) => L!InFile(p)
  /\ flash_data = [j \in 1 .. At % PageSize |-> HeldByte(Begin(Page(At)) + j - 1)]
  /\ flash_page_flag \in {0, 1}
  /\ IF line = Len(file) /\ place > 3
     THEN flash_page_flag = 0 /\ flash_page = IF L!TailLost THEN 0 ELSE Begin(Page(At))
     ELSE /\ flash_page_flag = 1 <=> Begun = 0 \/ Page(file[Begun].addr) < Page(At)
          /\ flash_page_flag = 0 => flash_page = Begin(Page(At))

LoaderInv ==
  /\ flash = [p \in L!Pages |-> flash[p]] /\ before = [p \in L!Pages |-> before[p]]
  /\ mode \in {"menu", "parser", "started"}
  /\ mode = "menu" =>
       /\ file = << >> /\ line = 1 /\ place = 1 /\ wrong = 0 /\ parser_state = "START"
       /\ flash_data = << >> /\ flash_page_flag = 1 /\ before = flash
  /\ mode = "parser" =>
       /\ file \in Files /\ Following
       /\ L!Plain /\ wrong = 0 /\ line <= Len(file) => Buffered
  /\ L!LoadsOrStops

(* What a file says stays while the file does. *)
LEMMA SameImage ==
  ASSUME file' = file
  PROVE  /\ L!End' = L!End /\ (L!TailLost' <=> L!TailLost) /\ (L!Plain' <=> L!Plain)
         /\ \A p : L!Image(p)' = L!Image(p)
         /\ \A p : L!InFile(p)' <=> L!InFile(p)
         /\ \A a : HeldByte(a)' = HeldByte(a)
<1>1. L!Data' = L!Data
  BY DEF L!Data, L!Records
<1>2. L!End' = L!End /\ (L!TailLost' <=> L!TailLost) /\ (L!Plain' <=> L!Plain)
  BY DEF L!End, L!TailLost, L!Plain, L!PageOf
<1>3. \A a : HeldByte(a)' = HeldByte(a)
  BY <1>1, Zenon DEF HeldByte, L!Holds
<1>4. \A p : L!Image(p)' = L!Image(p)
  BY <1>1, Zenon DEF L!Image, L!Holds
<1>5. \A p : L!InFile(p)' <=> L!InFile(p)
  BY <1>1, Zenon DEF L!InFile, L!Holds
<1> QED BY <1>2, <1>3, <1>4, <1>5

(* The lines of a plain file: each begins where the one before has ended. *)
LEMMA PlainLine ==
  ASSUME file \in Files, L!Plain, NEW l \in Nat, 0 < l, l < Len(file)
  PROVE  /\ TypedLine(file[l]) /\ file[l].type = 0 /\ file[l].addr \in Nat
         /\ Length(file[l]) \in Nat /\ 0 < Length(file[l]) /\ Length(file[l]) <= PageSize
         /\ l + 1 < Len(file) => file[l + 1].addr = file[l].addr + Length(file[l])
         /\ l + 1 = Len(file) => L!End = file[l].addr + Length(file[l])
<1>1. Len(file) \in Nat
  BY FileEnds
<1>2. l \in 1 .. Len(file) /\ l # Len(file) /\ l \in 1 .. Len(file) - 1
  BY <1>1
<1>3. TypedLine(file[l]) /\ Length(file[l]) \in Nat /\ Length(file[l]) > 0
  BY <1>2, LineOf
<1>4. file[l].type = 0 /\ Length(file[l]) <= PageSize
  BY <1>2 DEF L!Plain, Length
<1>5. ASSUME l + 1 < Len(file) PROVE file[l + 1].addr = file[l].addr + Length(file[l])
  <2> DEFINE k == l + 1
  <2>1. k \in 2 .. Len(file) - 1 /\ k - 1 = l
    BY <1>1, <1>5
  <2> HIDE DEF k
  <2>2. file[k].addr = file[k - 1].addr + Len(file[k - 1].data)
    BY <2>1 DEF L!Plain
  <2> QED BY <2>1, <2>2 DEF k, Length
<1>6. ASSUME l + 1 = Len(file) PROVE L!End = file[l].addr + Length(file[l])
  <2>1. Len(file) - 1 = l
    BY <1>1, <1>6
  <2> QED BY <2>1 DEF L!End, Length
<1> QED BY <1>3, <1>4, <1>5, <1>6 DEF TypedLine

LEMMA PlainFile ==
  ASSUME file \in Files, L!Plain
  PROVE  /\ Len(file) \in Nat /\ Len(file) > 1 /\ file[1].addr % PageSize = 0
         /\ L!End \in Nat
         /\ file[Len(file)].type = 1 /\ file[Len(file)].addr = 0 /\ Length(file[Len(file)]) = 0
<1>1. Len(file) \in Nat /\ Len(file) > 1 /\ file[1].addr % PageSize = 0
  BY FileEnds DEF L!Plain
<1>2. L!End \in Nat
  <2> DEFINE l == Len(file) - 1
  <2>1. l \in Nat /\ 0 < l /\ l < Len(file) /\ l + 1 = Len(file)
    BY <1>1
  <2> HIDE DEF l
  <2> QED BY <2>1, PlainLine
<1>3. Len(file) \in 1 .. Len(file)
  BY <1>1
<1> QED BY <1>1, <1>2, <1>3, LineOf

(* By induction, no line of a plain file overlaps another. *)
LEMMA Ordered ==
  ASSUME file \in Files, L!Plain, NEW l \in Nat, NEW m \in Nat, 0 < l, l < m, m < Len(file)
  PROVE  file[l].addr + Length(file[l]) <= file[m].addr
<1> DEFINE M == {k \in Nat : l < k /\ k < Len(file) => file[l].addr + Length(file[l]) <= file[k].addr}
<1>1. Len(file) \in Nat
  BY FileEnds
<1>2. 0 \in M
  OBVIOUS
<1>3. ASSUME NEW k \in Nat, k \in M PROVE k + 1 \in M
  <2> SUFFICES ASSUME l < k + 1, k + 1 < Len(file)
               PROVE  file[l].addr + Length(file[l]) <= file[k + 1].addr
    OBVIOUS
  <2>1. k < Len(file) /\ 0 < k /\ (l = k \/ l < k)
    BY <1>1
  <2>2. /\ file[k].addr \in Nat /\ Length(file[k]) \in Nat
        /\ file[k + 1].addr = file[k].addr + Length(file[k])
    BY <2>1, PlainLine
  <2>3. CASE l = k
    BY <2>2, <2>3
  <2>4. CASE l < k
    <3>1. file[l].addr + Length(file[l]) <= file[k].addr
      BY <1>3, <2>1, <2>4
    <3>2. file[l].addr \in Nat /\ Length(file[l]) \in Nat
      BY <1>1, PlainLine
    <3> QED BY <2>2, <3>1, <3>2
  <2> QED BY <2>1, <2>3, <2>4
<1>4. m \in M
  <2> HIDE DEF M
  <2> QED BY <1>2, <1>3, SetInduction
<1> QED BY <1>4

LEMMA WithinFile ==
  ASSUME file \in Files, L!Plain, NEW l \in Nat, 0 < l, l < Len(file)
  PROVE  file[1].addr \in Nat /\ file[1].addr <= file[l].addr /\ file[l].addr + Length(file[l]) <= L!End
<1> DEFINE z == Len(file) - 1
<1>1. z \in Nat /\ 0 < z /\ z < Len(file) /\ z + 1 = Len(file) /\ l <= z
  BY PlainFile
<1> HIDE DEF z
<1>2. /\ file[z].addr \in Nat /\ Length(file[z]) \in Nat /\ L!End = file[z].addr + Length(file[z])
      /\ file[l].addr \in Nat /\ Length(file[l]) \in Nat
      /\ file[1].addr \in Nat /\ Length(file[1]) \in Nat
  <2>1. 1 \in Nat /\ 0 < 1 /\ 1 < Len(file)
    BY PlainFile
  <2> QED BY <1>1, <2>1, PlainLine
<1>3. l < z => file[l].addr + Length(file[l]) <= file[z].addr
  BY <1>1, Ordered
<1>4. 1 < l => file[1].addr + Length(file[1]) <= file[l].addr
  BY Ordered
<1> QED BY <1>1, <1>2, <1>3, <1>4

LEMMA DataIs ==
  ASSUME file \in Files, L!Plain
  PROVE  /\ \A l \in Nat : 0 < l /\ l < Len(file) => file[l] \in L!Data
         /\ \A r \in L!Data : \E l \in Nat : 0 < l /\ l < Len(file) /\ r = file[l]
<1>1. Len(file) \in Nat /\ file[Len(file)].type = 1
  BY PlainFile
<1>2. ASSUME NEW l \in Nat, 0 < l, l < Len(file) PROVE file[l] \in L!Data
  <2>1. l \in 1 .. Len(file)
    BY <1>1, <1>2
  <2> QED BY <1>2, <2>1, PlainLine DEF L!Data, L!Records
<1>3. ASSUME NEW r \in L!Data PROVE \E l \in Nat : 0 < l /\ l < Len(file) /\ r = file[l]
  <2>1. PICK l \in 1 .. Len(file) : r = file[l]
    BY DEF L!Data, L!Records
  <2>2. r.type = 0
    BY DEF L!Data
  <2>3. l # Len(file)
    BY <1>1, <2>1, <2>2
  <2> QED BY <1>1, <2>1, <2>3
<1> QED BY <1>2, <1>3

LEMMA HoldsIs ==
  ASSUME NEW r, r.addr \in Nat, Length(r) \in Nat, NEW a \in Nat
  PROVE  L!Holds(r, a) <=> r.addr <= a /\ a < r.addr + Length(r)
BY DEF L!Holds, Length

(* So a byte is held by one line. *)
LEMMA HeldOnce ==
  ASSUME file \in Files, L!Plain, NEW l \in Nat, 0 < l, l < Len(file), NEW j \in Nat, j < Length(file[l])
  PROVE  /\ file[l].addr + j \in Nat /\ file[l] \in L!Data /\ L!Holds(file[l], file[l].addr + j)
         /\ HeldByte(file[l].addr + j) = file[l].data[j + 1]
<1> DEFINE a == file[l].addr + j
<1>1. file[l].addr \in Nat /\ Length(file[l]) \in Nat
  BY PlainLine
<1>2. a \in Nat /\ file[l] \in L!Data /\ L!Holds(file[l], a)
  BY <1>1, DataIs, HoldsIs
<1>3. ASSUME NEW r \in L!Data, L!Holds(r, a) PROVE r = file[l]
  <2>1. PICK m \in Nat : 0 < m /\ m < Len(file) /\ r = file[m]
    BY DataIs
  <2>2. file[m].addr \in Nat /\ Length(file[m]) \in Nat
    BY <2>1, PlainLine
  <2>3. file[m].addr <= a /\ a < file[m].addr + Length(file[m])
    BY <1>2, <1>3, <2>1, <2>2, HoldsIs
  <2>4. m < l => file[m].addr + Length(file[m]) <= file[l].addr
    BY <2>1, Ordered
  <2>5. l < m => file[l].addr + Length(file[l]) <= file[m].addr
    BY <2>1, Ordered
  <2>6. ~ (m < l) /\ ~ (l < m)
    BY <1>1, <2>2, <2>3, <2>4, <2>5
  <2> QED BY <2>1, <2>6
<1>4. a - file[l].addr + 1 = j + 1
  BY <1>1
<1> HIDE DEF a
<1>5. (CHOOSE r \in L!Data : L!Holds(r, a)) = file[l]
  BY <1>2, <1>3
<1>6. HeldByte(a) = file[l].data[a - file[l].addr + 1]
  BY <1>2, <1>5 DEF HeldByte
<1> QED BY <1>2, <1>4, <1>6 DEF a

(* No line holds what lies before or behind the file. *)
LEMMA NotHeld ==
  ASSUME file \in Files, L!Plain, NEW a \in Nat, a < file[1].addr \/ L!End <= a, NEW r \in L!Data
  PROVE  ~ L!Holds(r, a)
<1>1. PICK m \in Nat : 0 < m /\ m < Len(file) /\ r = file[m]
  BY DataIs
<1>2. /\ file[m].addr \in Nat /\ Length(file[m]) \in Nat /\ file[1].addr \in Nat /\ L!End \in Nat
      /\ file[1].addr <= file[m].addr /\ file[m].addr + Length(file[m]) <= L!End
  BY <1>1, PlainLine, WithinFile, PlainFile
<1>3. L!Holds(r, a) <=> file[m].addr <= a /\ a < file[m].addr + Length(file[m])
  BY <1>1, <1>2, HoldsIs
<1> QED BY <1>2, <1>3

(* The parser follows a plain file none of whose fields has been changed. *)
Reading == file \in Files /\ line \in Nat /\ line > 0 /\ InStep /\ L!Plain /\ wrong = 0

(* Where the sender is, and the address of its next byte. *)
LEMMA Position ==
  ASSUME Reading
  PROVE  /\ Len(file) \in Nat /\ Len(file) > 1 /\ line <= Len(file)
         /\ Length(file[line]) \in Nat
         /\ place \in Nat /\ place > 0 /\ place <= Length(file[line]) + 5
         /\ parser_state = StateAt(file[line], place)
         /\ place > 4 => (hex_type = 1 <=> line = Len(file))
         /\ At \in Nat
         /\ line < Len(file) => /\ file[line].addr \in Nat /\ Length(file[line]) > 0
                                /\ Length(file[line]) <= PageSize
                                /\ At = file[line].addr + (IF place > 5 THEN place - 5 ELSE 0)
                                /\ file[1].addr \in Nat /\ file[1].addr <= file[line].addr
         /\ line = Len(file) => At = L!End /\ Length(file[line]) = 0 /\ file[line].addr = 0
<1>1. /\ file \in Files /\ L!Plain /\ line \in Nat /\ line > 0 /\ line <= Len(file)
      /\ Stage(file[line], place, line = Len(file), wrong = line)
  BY DEF Reading, InStep
<1>2. Len(file) \in Nat /\ Len(file) > 1 /\ L!End \in Nat /\ file[Len(file)].addr = 0 /\ Length(file[Len(file)]) = 0
  BY <1>1, PlainFile
<1>3. /\ place \in Nat /\ place > 0 /\ place <= Length(file[line]) + 5
      /\ parser_state = StateAt(file[line], place)
      /\ place > 4 => (hex_type = 1 <=> line = Len(file))
  BY <1>1 DEF Stage
<1>4. CASE line < Len(file)
  <2>1. /\ file[line].addr \in Nat /\ Length(file[line]) \in Nat
        /\ Length(file[line]) > 0 /\ Length(file[line]) <= PageSize
        /\ file[1].addr \in Nat /\ file[1].addr <= file[line].addr
    BY <1>1, <1>4, PlainLine, WithinFile
  <2>2. At = file[line].addr + (IF place > 5 THEN place - 5 ELSE 0)
    BY <1>4 DEF At
  <2>3. At \in Nat
    BY <1>3, <2>1, <2>2
  <2> QED BY <1>1, <1>2, <1>3, <1>4, <2>1, <2>2, <2>3
<1>5. CASE line = Len(file)
  <2>1. At = L!End
    BY <1>2, <1>5 DEF At
  <2> QED BY <1>1, <1>2, <1>3, <1>5, <2>1
<1> QED BY <1>1, <1>2, <1>4, <1>5

(* What is heard when nothing is changed. *)
LEMMA HearsNext ==
  ASSUME Reading, NEW c, L!Hear(c), wrong' = 0
  PROVE  /\ c = Field(file[line], place) /\ TypedLine(file[line])
         /\ place < Length(file[line]) + 5 => place' = place + 1 /\ line' = line
         /\ ~ (place < Length(file[line]) + 5) => place' = 1 /\ line' = line + 1
         /\ file' = file /\ before' = before
BY Hears DEF Reading

(* A field that is no data and no address leaves the buffer as it is. *)
LEMMA Stays ==
  ASSUME Buffered, file' = file, before' = before, flash' = flash,
         flash_data' = flash_data, flash_page' = flash_page, flash_page_flag' = flash_page_flag,
         At' = At, Begun' = Begun,
         (line' = Len(file) /\ place' > 3) <=> (line = Len(file) /\ place > 3)
  PROVE  Buffered'
<1>1. First' = First /\ Page(At)' = Page(At)
  BY DEF First, Page
<1>2. \A p : Loaded(p)' <=> Loaded(p)
  BY <1>1 DEF Loaded
<1>3. (flash = [p \in L!Pages |-> IF Loaded(p) THEN L!Image(p) ELSE before[p]])'
  BY <1>2, SameImage DEF Buffered
<1>4. (\A p \in L!Pages : Loaded(p) => L!InFile(p))'
  BY <1>2, SameImage DEF Buffered
<1>5. (flash_data = [j \in 1 .. At % PageSize |-> HeldByte(Begin(Page(At)) + j - 1)])'
  BY <1>1, SameImage DEF Buffered, Begin
<1>6. /\ flash_page_flag' \in {0, 1}
      /\ (IF line = Len(file) /\ place > 3
          THEN flash_page_flag = 0 /\ flash_page = IF L!TailLost THEN 0 ELSE Begin(Page(At))
          ELSE /\ flash_page_flag = 1 <=> Begun = 0 \/ Page(file[Begun].addr) < Page(At)
               /\ flash_page_flag = 0 => flash_page = Begin(Page(At)))'
  BY <1>1, SameImage DEF Buffered, Begin, Page
<1> QED BY <1>3, <1>4, <1>5, <1>6 DEF Buffered

LEMMA StartBuffers ==
  ASSUME Reading, Buffered, NEW c, L!Hear(c), wrong' = 0, L!ParseStart(c) \/ L!ParseSize(c) \/ L!ParseType(c)
  PROVE  Buffered'
<1>1. place \in {1, 2, 4}
  BY Position DEF StateAt, L!ParseStart, L!ParseSize, L!ParseType
<1>2. place' = place + 1 /\ line' = line /\ file' = file /\ before' = before
  BY <1>1, Position, HearsNext
<1>3. /\ flash' = flash /\ flash_data' = flash_data /\ flash_page' = flash_page
      /\ flash_page_flag' = flash_page_flag
  BY DEF L!ParseStart, L!ParseSize, L!ParseType, L!buffer
<1>4. At' = At
  BY <1>1, <1>2, SameImage DEF At
<1>5. Begun' = Begun
  BY <1>1, <1>2 DEF Begun
<1> QED BY <1>1, <1>2, <1>3, <1>4, <1>5, Stays

LEMMA ChecksumBuffers ==
  ASSUME Reading, Buffered, NEW c, L!Hear(c), wrong' = 0, L!ParseChecksum(c), hex_type # 1
  PROVE  Buffered'
<1> DEFINE r == file[line]
           n == Length(r)
<1>1. place = n + 5 /\ n \in Nat /\ Len(file) \in Nat
  BY Position DEF StateAt, L!ParseChecksum
<1>2. place' = 1 /\ line' = line + 1 /\ file' = file /\ before' = before
  BY <1>1, HearsNext
<1>3. line < Len(file) /\ n > 0 /\ r.addr \in Nat /\ line \in Nat /\ line > 0
  BY <1>1, Position DEF Reading
<1>4. /\ flash' = flash /\ flash_data' = flash_data /\ flash_page' = flash_page
      /\ flash_page_flag' = flash_page_flag
  BY DEF L!ParseChecksum, L!buffer
<1>5. At = r.addr + n
  <2>1. At = r.addr + (IF place > 5 THEN place - 5 ELSE 0)
    BY <1>3, Position
  <2> QED BY <1>1, <1>3, <2>1
<1>6. At' = At
  <2>1. /\ line + 1 < Len(file) => file[line + 1].addr = r.addr + n
        /\ line + 1 = Len(file) => L!End = r.addr + n
        /\ line + 1 < Len(file) => file[line + 1].addr \in Nat
    <3>1. line + 1 \in Nat /\ 0 < line + 1
      BY <1>3
    <3> QED BY <1>3, <3>1, PlainLine DEF Reading
  <2>2. L!End' = L!End
    BY <1>2, SameImage
  <2> HIDE DEF r, n
  <2>3. CASE line + 1 < Len(file)
    <3>1. At' = file[line + 1].addr + 0
      BY <1>2, <2>3 DEF At
    <3> QED BY <1>5, <2>1, <2>3, <3>1
  <2>4. CASE line + 1 = Len(file)
    <3>1. At' = L!End
      BY <1>1, <1>2, <2>2, <2>4 DEF At
    <3> QED BY <1>5, <2>1, <2>4, <3>1
  <2> QED BY <1>1, <1>3, <2>3, <2>4
<1>7. Begun' = Begun
  BY <1>1, <1>2, <1>3 DEF Begun
<1> QED BY <1>1, <1>2, <1>3, <1>4, <1>6, <1>7, Stays

(* The address of a line becomes that of the page when none has been heard in it. *)
LEMMA AddressBuffers ==
  ASSUME Reading, Buffered, NEW c, L!Hear(c), wrong' = 0, L!ParseAddress(c)
  PROVE  Buffered'
<1>1. place = 3 /\ Len(file) \in Nat /\ line \in Nat /\ line > 0 /\ line <= Len(file) /\ Len(file) > 1 /\ At \in Nat
  BY Position DEF StateAt, L!ParseAddress, Reading
<1>2. place' = 4 /\ line' = line /\ file' = file /\ before' = before
  BY <1>1, Position, HearsNext
<1>3. /\ flash' = flash /\ flash_data' = flash_data
      /\ IF flash_page_flag = 1 THEN flash_page' = L!PageOf(c) /\ flash_page_flag' = 0
         ELSE flash_page' = flash_page /\ flash_page_flag' = flash_page_flag
  BY DEF L!ParseAddress, L!PageFlag
<1>4. c = file[line].addr
  BY <1>1, HearsNext, FieldsAre
<1>5. At' = At
  BY <1>1, <1>2, SameImage DEF At
<1>6. First' = First /\ Page(At)' = Page(At) /\ Page(At) \in Nat
  BY <1>1, <1>2, <1>5, Paged DEF First, Page
<1>7. \A p : Loaded(p)' <=> Loaded(p)
  BY <1>6 DEF Loaded
<1>8. (flash = [p \in L!Pages |-> IF Loaded(p) THEN L!Image(p) ELSE before[p]])'
  BY <1>2, <1>3, <1>7, SameImage DEF Buffered
<1>9. (\A p \in L!Pages : Loaded(p) => L!InFile(p))'
  BY <1>2, <1>7, SameImage DEF Buffered
<1>10. (flash_data = [j \in 1 .. At % PageSize |-> HeldByte(Begin(Page(At)) + j - 1)])'
  BY <1>2, <1>3, <1>5, <1>6, SameImage DEF Buffered, Begin
<1>11. /\ flash_page_flag \in {0, 1}
       /\ flash_page_flag = 1 <=> Begun = 0 \/ Page(file[Begun].addr) < Page(At)
       /\ flash_page_flag = 0 => flash_page = Begin(Page(At))
  BY <1>1 DEF Buffered
<1>12. flash_page_flag' = 0
  BY <1>3, <1>11
<1>13. CASE line < Len(file)
  <2>1. At = file[line].addr /\ file[line].addr \in Nat
    BY <1>1, <1>13, Position
  <2>2. flash_page' = Begin(Page(At))
    BY <1>1, <1>3, <1>4, <1>11, <2>1, Paged
  <2>3. Begun' = line /\ ~ (line' = Len(file') /\ place' > 3)
    BY <1>1, <1>2, <1>13 DEF Begun
  <2>4. Page(file[Begun].addr)' = Page(At)
    BY <1>2, <2>1, <2>3 DEF Page
  <2>5. (flash_page_flag = 1 <=> Begun = 0 \/ Page(file[Begun].addr) < Page(At))'
    BY <1>1, <1>6, <1>12, <2>3, <2>4
  <2>6. (flash_page_flag = 0 => flash_page = Begin(Page(At)))'
    BY <1>6, <2>2 DEF Begin
  <2> QED BY <1>8, <1>9, <1>10, <1>12, <2>3, <2>5, <2>6 DEF Buffered
<1>14. CASE line = Len(file)
  <2> DEFINE l == Len(file) - 1
  <2>1. Begun = l /\ l \in Nat /\ l > 0 /\ l < Len(file)
    BY <1>1, <1>14 DEF Begun
  <2>2. At = L!End /\ c = 0
    BY <1>4, <1>14, Position
  <2>3. file[l].addr \in Nat
    BY <2>1, PlainLine DEF Reading
  <2>4. L!TailLost <=> file[l].addr < L!PageOf(L!End)
    BY DEF L!TailLost
  <2> HIDE DEF l
  <2>5. L!TailLost <=> Page(file[l].addr) < Page(At)
    BY <1>1, <2>2, <2>3, <2>4, BeforePage
  <2>6. flash_page_flag = 1 <=> L!TailLost
    BY <1>11, <2>1, <2>5
  <2>7. L!PageOf(0) = 0
    BY PageAssumption DEF L!PageOf
  <2>8. flash_page' = IF L!TailLost THEN 0 ELSE Begin(Page(At))
    BY <1>3, <1>11, <2>2, <2>6, <2>7
  <2>9. flash_page' = IF L!TailLost' THEN 0 ELSE Begin(Page(At))'
    BY <1>2, <1>6, <2>8, SameImage DEF Begin
  <2>10. line' = Len(file') /\ place' > 3
    BY <1>2, <1>14
  <2> QED BY <1>8, <1>9, <1>10, <1>12, <2>9, <2>10 DEF Buffered
<1> QED BY <1>1, <1>13, <1>14

(* The image of a page, byte by byte. *)
LEMMA ImageIs == \A p : L!Image(p) = [i \in 1 .. PageSize |-> HeldByte(Begin(p) + i - 1)]
BY Zenon DEF L!Image, HeldByte, Begin

LEMMA InFileAt ==
  ASSUME NEW a \in Nat, NEW r \in L!Data, L!Holds(r, a) PROVE L!InFile(Page(a))
<1>1. Begin(Page(a)) <= a /\ a < Begin(Page(a)) + PageSize /\ Begin(Page(a)) \in Nat /\ PageSize \in Nat
  BY Paged, PageAssumption
<1>2. a \in Begin(Page(a)) .. Begin(Page(a)) + PageSize - 1
  BY <1>1
<1> QED BY <1>2, Zenon DEF L!InFile, Begin

(* A page that has been begun, and one more byte. *)
LEMMA OneByteMore ==
  ASSUME NEW n \in Nat, NEW f, NEW g, f = [j \in 1 .. n |-> f[j]], g = [j \in 1 .. n + 1 |-> g[j]],
         \A j \in 1 .. n : f[j] = g[j]
  PROVE  Append(f, g[n + 1]) = g /\ Len(f) = n /\ Len(g) = n + 1
<1>1. Len(f) = n /\ Len(g) = n + 1
  OBVIOUS
<1>2. Append(f, g[n + 1]) = [j \in 1 .. n + 1 |-> IF j = n + 1 THEN g[n + 1] ELSE f[j]]
  BY <1>1
<1>3. \A j \in 1 .. n + 1 : (IF j = n + 1 THEN g[n + 1] ELSE f[j]) = g[j]
  OBVIOUS
<1> QED BY <1>1, <1>2, <1>3

(* A byte goes to the buffer, and the buffer to its page when it is full. *)
LEMMA DataBuffers ==
  ASSUME Reading, Buffered, NEW c, L!Hear(c), wrong' = 0, L!ParseData(c)
  PROVE  Buffered'
<1> DEFINE r == file[line]
           n == Length(r)
           a == At
           p == Page(a)
           g == [j \in 1 .. (a % PageSize) + 1 |-> HeldByte(Begin(p) + j - 1)]
<1>1. /\ place > 4 /\ place < n + 5 /\ n \in Nat /\ Len(file) \in Nat /\ place \in Nat
      /\ line \in Nat /\ line > 0 /\ line <= Len(file) /\ a \in Nat
      /\ line = Len(file) => n = 0
  BY Position DEF StateAt, L!ParseData, Reading
<1>2. place' = place + 1 /\ line' = line /\ file' = file /\ before' = before
  BY <1>1, HearsNext
<1>3. line < Len(file)
  BY <1>1
<1>4. /\ r.addr \in Nat /\ n <= PageSize /\ a = r.addr + (place - 5)
      /\ file[1].addr \in Nat /\ file[1].addr <= r.addr
  <2>1. /\ r.addr \in Nat /\ n <= PageSize /\ a = r.addr + (IF place > 5 THEN place - 5 ELSE 0)
        /\ file[1].addr \in Nat /\ file[1].addr <= r.addr
    BY <1>3, Position
  <2> QED BY <1>1, <2>1
<1>5. a + 1 <= r.addr + n /\ r.addr <= a
  BY <1>1, <1>4
<1>6. /\ c = HeldByte(a) /\ r \in L!Data /\ L!Holds(r, a)
  <2> DEFINE j == place - 5
  <2>1. j \in Nat /\ j < n /\ a = r.addr + j /\ place = 4 + (j + 1) /\ j + 1 \in 1 .. n
    BY <1>1, <1>4
  <2>2. TypedLine(r) /\ c = Field(r, place)
    BY HearsNext
  <2> HIDE DEF j
  <2>3. Field(r, 4 + (j + 1)) = r.data[j + 1]
    BY <2>1, <2>2, FieldsAre
  <2>4. r \in L!Data /\ L!Holds(r, r.addr + j) /\ HeldByte(r.addr + j) = r.data[j + 1]
    BY <1>1, <1>3, <2>1, HeldOnce DEF Reading
  <2> QED BY <2>1, <2>2, <2>3, <2>4
<1>7. /\ p \in Nat /\ Begin(p) \in Nat /\ a % PageSize \in Nat /\ a = Begin(p) + (a % PageSize)
      /\ PageSize \in Nat
  <2>1. PageSize \in Nat
    BY PageAssumption
  <2>2. a \in Nat
    BY <1>1
  <2> HIDE DEF a
  <2>3. /\ p \in Nat /\ Begin(p) \in Nat /\ a % PageSize \in 0 .. PageSize - 1
        /\ a = Begin(p) + (a % PageSize)
    BY <2>2, Paged
  <2>4. a % PageSize \in Nat
    BY <2>1, <2>3
  <2> QED BY <2>1, <2>3, <2>4
<1>8. At' = a + 1
  <2>1. At' = r.addr + (place + 1 - 5)
    BY <1>1, <1>2, <1>3 DEF At
  <2> HIDE DEF r, a
  <2> QED BY <1>1, <1>4, <2>1
<1>9. Begun = line /\ Begun' = line
  BY <1>1, <1>2, <1>3 DEF Begun
<1>10. ~ (line = Len(file) /\ place > 3) /\ ~ (line' = Len(file') /\ place' > 3)
  BY <1>2, <1>3
<1>11. /\ flash_data = [j \in 1 .. a % PageSize |-> HeldByte(Begin(p) + j - 1)]
       /\ flash_page_flag \in {0, 1}
       /\ flash_page_flag = 1 <=> Page(r.addr) < p
       /\ flash_page_flag = 0 => flash_page = Begin(p)
       /\ flash = [q \in L!Pages |-> IF Loaded(q) THEN L!Image(q) ELSE before[q]]
       /\ \A q \in L!Pages : Loaded(q) => L!InFile(q)
  BY <1>1, <1>9, <1>10 DEF Buffered
<1>12. Append(flash_data, c) = g /\ Len(flash_data) = a % PageSize /\ Len(g) = (a % PageSize) + 1
  <2> DEFINE k == a % PageSize
  <2>1. g[k + 1] = HeldByte(a)
    <3>1. k + 1 \in 1 .. k + 1 /\ Begin(p) + (k + 1) - 1 = a
      BY <1>7
    <3> QED BY <3>1
  <2>2. flash_data = [j \in 1 .. k |-> flash_data[j]] /\ g = [j \in 1 .. k + 1 |-> g[j]]
    BY <1>11
  <2>3. \A j \in 1 .. k : flash_data[j] = g[j]
    BY <1>7, <1>11
  <2>4. k \in Nat
    BY <1>7
  <2> HIDE DEF g, k
  <2>5. Append(flash_data, g[k + 1]) = g /\ Len(flash_data) = k /\ Len(g) = k + 1
    BY <2>2, <2>3, <2>4, OneByteMore
  <2> QED BY <1>6, <2>1, <2>5 DEF k
<1>13. IF Len(flash_data) + 1 = PageSize
       THEN /\ flash_data' = << >> /\ flash_page_flag' = 1
            /\ flash' = [flash EXCEPT ![flash_page \div PageSize] = L!Padded(Append(flash_data, c))]
       ELSE flash_data' = Append(flash_data, c) /\ flash' = flash /\ flash_page_flag' = flash_page_flag
  BY DEF L!ParseData, L!program_page
<1>14. flash_page' = flash_page /\ First' = First
  BY <1>2 DEF L!ParseData, First, Page
<1>15. Page(r.addr) <= p /\ First <= p /\ Page(r.addr) \in Nat /\ (a + 1 <= r.addr + PageSize => Page(a + 1) <= Page(r.addr) + 1)
  <2>1. a + 1 \in Nat
    BY <1>1
  <2>2. Page(r.addr) <= p /\ Page(file[1].addr) <= Page(r.addr)
    BY <1>1, <1>4, <1>5, LaterPage
  <2>3. Page(r.addr) \in Nat /\ Page(file[1].addr) \in Nat
    BY <1>4, Paged
  <2>4. r.addr <= a + 1
    BY <1>1, <1>4, <1>5
  <2>5. a + 1 <= r.addr + PageSize => Page(a + 1) <= Page(r.addr) + 1
    BY <1>4, <2>1, <2>4, LaterPage
  <2> QED BY <1>7, <2>2, <2>3, <2>5 DEF First
<1>16. a + 1 <= r.addr + PageSize
  <2>1. PageSize \in Nat
    BY PageAssumption
  <2> HIDE DEF r, n, a
  <2> QED BY <1>1, <1>4, <1>5, <2>1
<1>17. r' = r /\ Page(r.addr)' = Page(r.addr)
  BY <1>2 DEF Page
<1>18. CASE Len(flash_data) + 1 = PageSize
  <2>1. Page(a + 1) = p + 1 /\ (a + 1) % PageSize = 0
    BY <1>1, <1>12, <1>18, NextByte
  <2>2. flash_page_flag = 0 /\ flash_page = Begin(p)
    BY <1>7, <1>11, <1>15, <1>16, <2>1
  <2>3. flash_page \div PageSize = p
    <3>1. Page(Begin(p)) = p
      BY <1>7, PageIs, PageAssumption
    <3> QED BY <2>2, <3>1 DEF Page
  <2>4. L!Padded(g) = L!Image(p)
    <3>1. Len(g) = PageSize
      BY <1>12, <1>18
    <3>2. L!Padded(g) = [i \in 1 .. PageSize |-> IF i <= PageSize THEN g[i] ELSE 255]
      <4> HIDE DEF g
      <4> QED BY <3>1 DEF L!Padded
    <3>3. \A i \in 1 .. PageSize : (IF i <= PageSize THEN g[i] ELSE 255) = HeldByte(Begin(p) + i - 1)
      <4>1. PageSize = (a % PageSize) + 1
        <5> HIDE DEF a, g
        <5> QED BY <1>7, <1>12, <1>18
      <4>2. \A i \in 1 .. PageSize : g[i] = HeldByte(Begin(p) + i - 1)
        BY <4>1
      <4> HIDE DEF g, a
      <4> QED BY <1>7, <4>2
    <3>4. L!Image(p) = [i \in 1 .. PageSize |-> HeldByte(Begin(p) + i - 1)]
      BY ImageIs
    <3> HIDE DEF g, p
    <3> QED BY <3>2, <3>3, <3>4
  <2>5. flash' = [flash EXCEPT ![p] = L!Image(p)]
    BY <1>12, <1>13, <1>18, <2>3, <2>4
  <2> HIDE DEF g, r, n
  <2>6. Page(At)' = p + 1
    BY <1>8, <2>1 DEF Page
  <2>7. \A q \in L!Pages : Loaded(q)' <=> (Loaded(q) \/ q = p)
    <3>1. L!Pages \subseteq Int /\ First \in Int
      <4>1. Page(file[1].addr) \in Nat
        BY <1>4, Paged
      <4> QED BY <4>1, PageAssumption DEF L!Pages, First
    <3>2. \A q : Loaded(q)' <=> First <= q /\ q < p + 1
      BY <1>14, <2>6 DEF Loaded
    <3>3. \A q : Loaded(q) <=> First <= q /\ q < p
      BY DEF Loaded
    <3> HIDE DEF p
    <3> QED BY <1>7, <1>15, <3>1, <3>2, <3>3
  <2>8. (flash = [q \in L!Pages |-> IF Loaded(q) THEN L!Image(q) ELSE before[q]])'
    <3>1. flash' = [q \in L!Pages |-> IF q = p THEN L!Image(p) ELSE flash[q]]
      BY <1>11, <2>5
    <3>2. flash' = [q \in L!Pages |-> IF Loaded(q)' THEN L!Image(q) ELSE before[q]]
      <4>1. ASSUME NEW q \in L!Pages
            PROVE  (IF q = p THEN L!Image(p) ELSE flash[q]) = (IF Loaded(q)' THEN L!Image(q) ELSE before[q])
        BY <1>11, <2>7
      <4> QED BY <3>1, <4>1
    <3> QED BY <1>2, <3>2, SameImage
  <2>9. (\A q \in L!Pages : Loaded(q) => L!InFile(q))'
    <3>1. L!InFile(p)
      BY <1>1, <1>6, InFileAt
    <3> QED BY <1>2, <1>11, <2>7, <3>1, SameImage
  <2>10. (flash_data = [j \in 1 .. At % PageSize |-> HeldByte(Begin(Page(At)) + j - 1)])'
    <3>1. At' % PageSize = 0 /\ flash_data' = << >>
      BY <1>8, <1>13, <1>18, <2>1
    <3> QED BY <3>1
  <2>11. (flash_page_flag = 1 <=> Begun = 0 \/ Page(file[Begun].addr) < Page(At))'
    <3>1. Page(file[Begun].addr)' = Page(r.addr)
      BY <1>2, <1>9, <1>17 DEF r, Page
    <3> QED BY <1>7, <1>13, <1>15, <1>18, <2>6, <3>1
  <2>12. flash_page_flag' = 1
    BY <1>13, <1>18
  <2> QED BY <1>10, <2>8, <2>9, <2>10, <2>11, <2>12 DEF Buffered
<1>19. CASE Len(flash_data) + 1 # PageSize
  <2>1. Page(a + 1) = p /\ (a + 1) % PageSize = (a % PageSize) + 1
    BY <1>1, <1>12, <1>19, NextByte
  <2>2. flash_data' = g /\ flash' = flash /\ flash_page_flag' = flash_page_flag
    BY <1>12, <1>13, <1>19
  <2>3. Page(At)' = p /\ At' % PageSize = (a % PageSize) + 1
    BY <1>8, <2>1 DEF Page
  <2>4. \A q : Loaded(q)' <=> Loaded(q)
    BY <1>14, <2>3 DEF Loaded
  <2>5. (flash = [q \in L!Pages |-> IF Loaded(q) THEN L!Image(q) ELSE before[q]])'
    BY <1>2, <1>11, <2>2, <2>4, SameImage
  <2>6. (\A q \in L!Pages : Loaded(q) => L!InFile(q))'
    BY <1>2, <1>11, <2>4, SameImage
  <2>7. (flash_data = [j \in 1 .. At % PageSize |-> HeldByte(Begin(Page(At)) + j - 1)])'
    BY <1>2, <2>2, <2>3, SameImage DEF Begin
  <2> HIDE DEF g, r, n
  <2>8. Page(file[Begun].addr)' = Page(r.addr)
    BY <1>2, <1>9, <1>17 DEF r, Page
  <2>9. (flash_page_flag = 1 <=> Begun = 0 \/ Page(file[Begun].addr) < Page(At))'
    BY <1>1, <1>9, <1>11, <2>2, <2>3, <2>8
  <2>10. (flash_page_flag = 0 => flash_page = Begin(Page(At)))'
    BY <1>11, <1>14, <2>2, <2>3 DEF Begin
  <2>11. flash_page_flag' \in {0, 1}
    BY <1>11, <2>2
  <2> QED BY <1>10, <2>5, <2>6, <2>7, <2>9, <2>10, <2>11 DEF Buffered
<1> QED BY <1>18, <1>19

LEMMA Filled ==
  ASSUME NEW n \in Nat, NEW k \in Nat, NEW d, NEW f, NEW g,
         f = [i \in 1 .. n |-> IF i <= k THEN d[i] ELSE 255], g = [i \in 1 .. n |-> g[i]],
         \A i \in 1 .. n : (IF i <= k THEN d[i] ELSE 255) = g[i]
  PROVE  f = g
OBVIOUS

LEMMA ImageAt ==
  ASSUME NEW p
  PROVE  /\ L!Image(p) = [i \in 1 .. PageSize |-> L!Image(p)[i]]
         /\ \A i \in 1 .. PageSize : L!Image(p)[i] = HeldByte(Begin(p) + i - 1)
<1> DEFINE g == L!Image(p)
<1>1. g = [i \in 1 .. PageSize |-> HeldByte(Begin(p) + i - 1)]
  BY ImageIs
<1> HIDE DEF g
<1>2. g = [i \in 1 .. PageSize |-> g[i]] /\ \A i \in 1 .. PageSize : g[i] = HeldByte(Begin(p) + i - 1)
  BY <1>1
<1> QED BY <1>2 DEF g

(* The page the file ends in holds the rest of the file, and FF. *)
LEMMA RestIs ==
  ASSUME file \in Files, L!Plain, flash_data = [j \in 1 .. L!End % PageSize |-> HeldByte(Begin(Page(L!End)) + j - 1)]
  PROVE  L!Padded(flash_data) = L!Image(Page(L!End))
<1> DEFINE e == L!End
           k == e % PageSize
           p == Page(e)
<1>1. e \in Nat
  BY PlainFile
<1>2. p \in Nat /\ Begin(p) \in Nat /\ k \in 0 .. PageSize - 1 /\ e = Begin(p) + k /\ PageSize \in Nat
  BY <1>1, Paged, PageAssumption
<1> HIDE DEF k, p
<1>3. k \in Nat
  BY <1>2
<1>4. Len(flash_data) = k /\ \A j \in 1 .. k : flash_data[j] = HeldByte(Begin(p) + j - 1)
  BY <1>3 DEF k, p
<1>5. ASSUME NEW j \in 1 .. PageSize, ~ (j <= k) PROVE HeldByte(Begin(p) + j - 1) = 255
  <2> DEFINE a == Begin(p) + j - 1
  <2>1. a \in Nat /\ e <= a
    BY <1>2, <1>3, <1>5
  <2> HIDE DEF a
  <2>2. \A r \in L!Data : ~ L!Holds(r, a)
    BY <2>1, NotHeld
  <2>3. HeldByte(a) = 255
    BY <2>2, Zenon DEF HeldByte
  <2> QED BY <2>3 DEF a
<1>6. L!Padded(flash_data) = [i \in 1 .. PageSize |-> IF i <= k THEN flash_data[i] ELSE 255]
  <2>1. L!Padded(flash_data) = [i \in 1 .. PageSize |-> IF i <= Len(flash_data) THEN flash_data[i] ELSE 255]
    BY Zenon DEF L!Padded
  <2> QED BY <1>4, <2>1, Zenon
<1>7. \A i \in 1 .. PageSize : (IF i <= k THEN flash_data[i] ELSE 255) = HeldByte(Begin(p) + i - 1)
  <2> TAKE i \in 1 .. PageSize
  <2>1. i <= k => i \in 1 .. k
    BY <1>2, <1>3
  <2> QED BY <1>4, <1>5, <2>1
<1>8. /\ L!Image(p) = [i \in 1 .. PageSize |-> L!Image(p)[i]]
      /\ \A i \in 1 .. PageSize : L!Image(p)[i] = HeldByte(Begin(p) + i - 1)
  BY ImageAt
<1>9. L!Padded(flash_data) = L!Image(p)
  <2>1. \A i \in 1 .. PageSize : (IF i <= k THEN flash_data[i] ELSE 255) = L!Image(p)[i]
    BY <1>7, <1>8, Zenon
  <2>2. PageSize \in Nat /\ k \in Nat
    BY <1>2, <1>3
  <2> DEFINE d == flash_data
             f == L!Padded(d)
             g == L!Image(p)
  <2>3. f = [i \in 1 .. PageSize |-> IF i <= k THEN d[i] ELSE 255]
    BY <1>6
  <2>4. g = [i \in 1 .. PageSize |-> g[i]]
    BY <1>8
  <2>5. \A i \in 1 .. PageSize : (IF i <= k THEN d[i] ELSE 255) = g[i]
    BY <2>1
  <2> HIDE DEF d, f, g
  <2>6. f = g
    BY <2>2, <2>3, <2>4, <2>5, Filled
  <2> QED BY <2>6 DEF d, f, g
<1> QED BY <1>9 DEF p

(* No page outside the file's is touched. *)
LEMMA OutsideFile ==
  ASSUME file \in Files, L!Plain, NEW p \in Nat, p < First \/ Page(L!End) < p
  PROVE  ~ L!InFile(p)
<1> SUFFICES ASSUME NEW r \in L!Data, NEW a \in Begin(p) .. Begin(p) + PageSize - 1, L!Holds(r, a)
             PROVE  FALSE
  BY Zenon DEF L!InFile, Begin
<1>1. L!End \in Nat /\ file[1].addr \in Nat
  <2>1. 1 \in Nat /\ 0 < 1 /\ 1 < Len(file)
    BY PlainFile
  <2> QED BY <2>1, PlainFile, PlainLine
<1>2. PageSize \in Nat /\ Begin(p) \in Nat
  BY Begins, PageAssumption
<1>3. a \in Nat /\ Begin(p) <= a /\ a < Begin(p) + PageSize
  BY <1>2
<1>4. Page(a) = p
  BY <1>3, PageIs
<1>5. file[1].addr <= a => First <= p
  BY <1>1, <1>3, <1>4, LaterPage DEF First
<1>6. a <= L!End => p <= Page(L!End)
  BY <1>1, <1>3, <1>4, LaterPage
<1>7. First \in Nat /\ Page(L!End) \in Nat
  BY <1>1, Paged DEF First
<1>8. a < file[1].addr \/ L!End <= a
  BY <1>1, <1>3, <1>5, <1>6, <1>7
<1> QED BY <1>3, <1>8, NotHeld

(* The flash when the end record has been heard. *)
LEMMA EndLoads ==
  ASSUME Reading, Buffered, NEW c, L!Hear(c), wrong' = 0, L!ParseChecksum(c), hex_type = 1
  PROVE  (flash = L!Got)'
<1> DEFINE z == Len(file) - 1
           e == L!End
           p == Page(e)
<1>1. /\ file \in Files /\ L!Plain
      /\ place > 3 /\ line = Len(file) /\ At = e /\ Len(file) \in Nat /\ Len(file) > 1
      /\ e \in Nat
  <2>1. place = Length(file[line]) + 5 /\ Length(file[line]) \in Nat
    BY Position DEF StateAt, L!ParseChecksum
  <2>2. place > 4
    BY <2>1
  <2>3. place > 3
    BY <2>1
  <2> QED BY <2>2, <2>3, Position DEF Reading
<1>2. file' = file /\ before' = before
  BY HearsNext
<1>3. z \in Nat /\ z > 0 /\ z < Len(file) /\ z + 1 = Len(file)
  BY <1>1
<1>4. file[z].addr \in Nat /\ Length(file[z]) \in Nat /\ Length(file[z]) > 0 /\ e = file[z].addr + Length(file[z])
  BY <1>1, <1>3, PlainLine
<1>5. flash' = [flash EXCEPT ![flash_page \div PageSize] = L!Padded(flash_data)]
  BY DEF L!ParseChecksum, L!program_page
<1>6. /\ flash = [q \in L!Pages |-> IF Loaded(q) THEN L!Image(q) ELSE before[q]]
      /\ \A q \in L!Pages : Loaded(q) => L!InFile(q)
      /\ flash_data = [j \in 1 .. e % PageSize |-> HeldByte(Begin(p) + j - 1)]
      /\ flash_page = IF L!TailLost THEN 0 ELSE Begin(p)
  BY <1>1 DEF Buffered
<1>7. L!Padded(flash_data) = L!Image(p)
  BY <1>1, <1>6, RestIs
<1>8. p \in Nat /\ Begin(p) \in Nat /\ Begin(p) <= e /\ e < Begin(p) + PageSize /\ L!PageOf(e) = Begin(p)
      /\ PageSize \in Nat \ {0}
  BY <1>1, Paged, PageAssumption
<1>9. L!Pages \subseteq Nat /\ 0 \in L!Pages
  BY PageAssumption DEF L!Pages
<1>10. \A q : Loaded(q) <=> First <= q /\ q < p
  BY <1>1 DEF Loaded
<1>11. First \in Nat
  <2>1. 1 \in Nat /\ 0 < 1 /\ 1 < Len(file)
    BY <1>1
  <2> QED BY <1>1, <2>1, PlainLine, Paged DEF First
<1> HIDE DEF p, e, z
<1>12. ASSUME NEW q \in L!Pages, q # p PROVE flash[q] = L!Wanted[q]
  <2>1. flash[q] = IF Loaded(q) THEN L!Image(q) ELSE before[q]
    BY <1>6
  <2>2. L!Wanted[q] = IF L!InFile(q) THEN L!Image(q) ELSE before[q]
    BY DEF L!Wanted
  <2>3. Loaded(q) => L!InFile(q)
    BY <1>6
  <2>4. ~ Loaded(q) => ~ L!InFile(q)
    <3> SUFFICES ASSUME ~ Loaded(q) PROVE ~ L!InFile(q)
      OBVIOUS
    <3>1. q \in Nat /\ (q < First \/ p < q)
      BY <1>8, <1>9, <1>10, <1>11, <1>12
    <3> QED BY <1>1, <3>1, OutsideFile DEF p, e
  <2> QED BY <2>1, <2>2, <2>3, <2>4
<1>13. flash' = L!Got
  <2>1. CASE ~ L!TailLost
    <3>1. ~ (file[z].addr < Begin(p))
      BY <1>8, <2>1 DEF L!TailLost, z, e
    <3>2. Page(file[z].addr) = p
      <4> DEFINE a == file[z].addr
      <4>1. a \in Nat /\ Begin(p) <= a
        BY <1>4, <1>8, <3>1
      <4>2. a < Begin(p) + PageSize
        BY <1>4, <1>8
      <4> HIDE DEF a
      <4> QED BY <1>8, <4>1, <4>2, PageIs DEF a
    <3>3. L!InFile(p)
      <4>1. file[z] \in L!Data /\ L!Holds(file[z], file[z].addr)
        BY <1>1, <1>3, <1>4, DataIs, HoldsIs
      <4> QED BY <1>4, <3>2, <4>1, InFileAt
    <3>4. flash_page \div PageSize = p
      <4>1. Page(Begin(p)) = p
        BY <1>8, PageIs
      <4> QED BY <1>6, <2>1, <4>1 DEF Page
    <3>5. flash' = [q \in L!Pages |-> IF q = p THEN L!Image(p) ELSE flash[q]]
      BY <1>5, <1>6, <1>7, <3>4
    <3>6. ASSUME NEW q \in L!Pages PROVE (IF q = p THEN L!Image(p) ELSE flash[q]) = IF L!InFile(q) THEN L!Image(q) ELSE before[q]
      <4>1. L!Wanted[q] = IF L!InFile(q) THEN L!Image(q) ELSE before[q]
        BY DEF L!Wanted
      <4> QED BY <1>12, <3>3, <4>1
    <3>7. flash' = L!Wanted
      BY <3>5, <3>6 DEF L!Wanted
    <3> QED BY <2>1, <3>7 DEF L!Got
  <2>2. CASE L!TailLost
    <3>1. flash_page \div PageSize = 0
      BY <1>6, <1>8, <2>2
    <3>2. flash' = [q \in L!Pages |-> IF q = 0 THEN L!Image(p) ELSE flash[q]]
      BY <1>5, <1>6, <1>7, <3>1
    <3>3. L!Tail0 = L!Image(p)
      <4>1. CASE e % PageSize = 0
        <5>1. e = Begin(p)
          BY <1>1, <4>1, Paged DEF p
        <5>2. ASSUME NEW i \in 1 .. PageSize PROVE HeldByte(Begin(p) + i - 1) = 255
          <6> DEFINE a == Begin(p) + i - 1
          <6>1. a \in Nat /\ e <= a
            BY <1>8, <5>1
          <6> HIDE DEF a
          <6>2. \A r \in L!Data : ~ L!Holds(r, a)
            BY <1>1, <6>1, NotHeld DEF e
          <6>3. HeldByte(a) = 255
            BY <6>2, Zenon DEF HeldByte
          <6> QED BY <6>3 DEF a
        <5>3. L!Image(p) = [i \in 1 .. PageSize |-> HeldByte(Begin(p) + i - 1)]
          BY ImageIs
        <5>4. L!Image(p) = L!Erased
          BY <5>2, <5>3 DEF L!Erased
        <5> QED BY <4>1, <5>4 DEF L!Tail0, e
      <4>2. CASE e % PageSize # 0
        BY <4>2 DEF L!Tail0, e, p, Page
      <4> QED BY <4>1, <4>2
    <3>4. ~ Loaded(p) /\ L!End \div PageSize = p
      BY <1>8, <1>10 DEF p, e, Page
    <3>5. ASSUME NEW q \in L!Pages
          PROVE  (IF q = 0 THEN L!Image(p) ELSE flash[q])
                   = (IF q = 0 THEN L!Tail0 ELSE IF q = L!End \div PageSize THEN before[q] ELSE L!Wanted[q])
      BY <1>6, <1>12, <3>3, <3>4
    <3> QED BY <2>2, <3>2, <3>5 DEF L!Got
  <2> QED BY <2>1, <2>2
<1>14. L!Got' = L!Got
  <2>1. L!Wanted' = L!Wanted
    BY <1>2, SameImage DEF L!Wanted
  <2>2. L!Tail0' = L!Tail0
    BY <1>2, SameImage DEF L!Tail0
  <2> QED BY <1>2, <2>1, <2>2, SameImage DEF L!Got
<1> QED BY <1>13, <1>14

Entering ==
  /\ file \in Files /\ line = 1 /\ place = 1 /\ wrong = 0 /\ parser_state = "START"
  /\ flash = before /\ before = [p \in L!Pages |-> before[p]]
  /\ flash_data = << >> /\ flash_page_flag = 1

(* Before the first field there is nothing in the buffer. *)
LEMMA Entered == Entering => Following /\ (L!Plain => Buffered)
<1> SUFFICES ASSUME Entering PROVE Following /\ (L!Plain => Buffered)
  OBVIOUS
<1> USE DEF Entering
<1>1. Len(file) \in Nat /\ Len(file) > 0 /\ 1 \in 1 .. Len(file)
  <2>1. Len(file) \in Nat /\ Len(file) > 0
    BY FileEnds
  <2> QED BY <2>1
<1>2. TypedLine(file[1]) /\ Length(file[1]) \in Nat
  BY <1>1, LineOf
<1>3. Stage(file[line], place, line = Len(file), wrong = line)
  BY <1>2 DEF Stage, StateAt
<1>4. Following
  BY <1>1, <1>3 DEF Following, InStep
<1>5. ASSUME L!Plain PROVE Buffered
  <2> DEFINE a == file[1].addr
  <2>1. a \in Nat /\ 1 < Len(file) /\ a % PageSize = 0
    <3>1. 1 < Len(file) /\ 1 \in Nat /\ 0 < 1 /\ file[1].addr % PageSize = 0
      BY <1>5, PlainFile
    <3> QED BY <1>5, <3>1, PlainLine
  <2>2. At = a
    <3>1. At = a + 0
      BY <2>1 DEF At
    <3> QED BY <2>1, <3>1
  <2>3. Page(a) \in Nat /\ First = Page(a)
    BY <2>1, Paged DEF First
  <2>4. Begun = 0
    BY DEF Begun
  <2> HIDE DEF a
  <2>5. \A p \in L!Pages : ~ Loaded(p)
    <3>1. L!Pages \subseteq Nat
      BY PageAssumption DEF L!Pages
    <3> QED BY <2>2, <2>3, <3>1 DEF Loaded
  <2>6. flash = [p \in L!Pages |-> IF Loaded(p) THEN L!Image(p) ELSE before[p]]
    <3>1. \A p \in L!Pages : (IF Loaded(p) THEN L!Image(p) ELSE before[p]) = before[p]
      BY <2>5
    <3> QED BY <3>1
  <2>7. flash_data = [j \in 1 .. At % PageSize |-> HeldByte(Begin(Page(At)) + j - 1)]
    <3>1. At % PageSize = 0
      BY <2>1, <2>2
    <3> QED BY <3>1
  <2>8. ~ (line = Len(file) /\ place > 3)
    OBVIOUS
  <2> QED BY <2>4, <2>5, <2>6, <2>7, <2>8 DEF Buffered
<1> QED BY <1>4, <1>5

(* The flash has its pages whatever is programmed. *)
LEMMA KeepsPages ==
  ASSUME flash = [p \in L!Pages |-> flash[p]], NEW c, L!Parse(c)
  PROVE  flash' = [p \in L!Pages |-> flash'[p]]
<1>1. flash' = flash \/ \E q, v : flash' = [flash EXCEPT ![q] = v]
  BY Zenon DEF L!Parse, L!ParseStart, L!ParseSize, L!ParseAddress, L!ParseType, L!ParseData, L!ParseChecksum,
     L!ParseError, L!program_page
<1>2. CASE flash' = flash
  BY <1>2
<1>3. ASSUME NEW q, NEW v, flash' = [flash EXCEPT ![q] = v] PROVE flash' = [p \in L!Pages |-> flash'[p]]
  BY <1>3
<1> QED BY <1>1, <1>2, <1>3

(* A field that is heard and parsed in step. *)
LEMMA InStepKeeps ==
  ASSUME file \in Files, line \in Nat, line > 0, InStep, mode = "parser",
         L!Plain /\ wrong = 0 => Buffered, NEW c, L!Hear(c), L!Parse(c)
  PROVE  /\ mode' \in {"parser", "started"}
         /\ mode' = "parser" => Following' /\ (L!Plain /\ wrong = 0 => Buffered)'
         /\ mode' = "started" => Misled' /\ (L!Plain /\ wrong = 0 => flash = L!Got)'
<1>1. file' = file /\ (wrong' = 0 => wrong = 0)
  BY Hears
<1>2. L!Plain' <=> L!Plain
  BY <1>1, SameImage
<1>3. L!Plain' /\ wrong' = 0 => Reading /\ Buffered
  BY <1>1, <1>2 DEF Reading
<1>4. parser_state # "ERROR"
  BY DEF InStep, Stage, StateAt
<1>5. CASE L!ParseStart(c)
  <2>1. Following' /\ mode' = mode
    BY <1>5, StartFollows
  <2> QED BY <1>3, <1>5, <2>1, StartBuffers
<1>6. CASE L!ParseSize(c)
  <2>1. Following' /\ mode' = mode
    BY <1>6, SizeFollows
  <2> QED BY <1>3, <1>6, <2>1, StartBuffers
<1>7. CASE L!ParseAddress(c)
  <2>1. Following' /\ mode' = mode
    BY <1>7, AddressFollows
  <2> QED BY <1>3, <1>7, <2>1, AddressBuffers
<1>8. CASE L!ParseType(c)
  <2>1. Following' /\ mode' = mode
    BY <1>8, TypeFollows
  <2> QED BY <1>3, <1>8, <2>1, StartBuffers
<1>9. CASE L!ParseData(c)
  <2>1. Following' /\ mode' = mode
    BY <1>9, DataFollows
  <2> QED BY <1>3, <1>9, <2>1, DataBuffers
<1>10. CASE L!ParseChecksum(c)
  <2>1. IF hex_type = 1 THEN mode' = "started" /\ Misled' ELSE mode' = mode /\ Following'
    BY <1>10, ChecksumFollows
  <2>2. CASE hex_type = 1
    BY <1>3, <1>10, <2>1, <2>2, EndLoads
  <2>3. CASE hex_type # 1
    BY <1>3, <1>10, <2>1, <2>3, ChecksumBuffers
  <2> QED BY <2>2, <2>3
<1>11. ~ L!ParseError(c)
  BY <1>4 DEF L!ParseError
<1> QED BY <1>5, <1>6, <1>7, <1>8, <1>9, <1>10, <1>11 DEF L!Parse

(* A field that is heard after a line that does not sum up, or with a changed type. *)
LEMMA OutOfStep ==
  ASSUME file \in Files, Following, ~ InStep, mode = "parser", NEW c, L!Hear(c), L!Parse(c)
  PROVE  /\ mode' \in {"parser", "started"} /\ wrong' # 0
         /\ mode' = "parser" => Following'
         /\ mode' = "started" => Misled'
<1>1. line \in Nat /\ line > 0 /\ line <= Len(file) /\ file' = file /\ Len(file) \in Nat
  BY Hears, FileEnds DEF Following
<1>2. wrong # 0 /\ wrong' = wrong /\ (place < Length(file[line]) + 5 \/ line' = line + 1) /\ (line' = line \/ line' = line + 1)
  BY <1>1, Hears DEF Following
<1>3. CASE place = 5 /\ wrong = line /\ parser_state = "CHECKSUM" /\ hex_type = 1
  <2>1. mode' = "started" /\ hex_type' = 1
    BY <1>3 DEF L!Parse, L!ParseStart, L!ParseSize, L!ParseAddress, L!ParseType, L!ParseData, L!ParseChecksum, L!ParseError
  <2> QED BY <1>1, <1>2, <1>3, <2>1 DEF Misled
<1>4. CASE place = 5 /\ wrong = line /\ parser_state = "DATA" /\ line = Len(file)
  <2>1. mode' = mode
    BY <1>4 DEF L!Parse, L!ParseStart, L!ParseSize, L!ParseAddress, L!ParseType, L!ParseData, L!ParseChecksum, L!ParseError
  <2>2. Length(file[line]) = 0
    <3>1. Len(file) \in 1 .. Len(file)
      BY <1>1
    <3> QED BY <1>4, <3>1, LineOf
  <2>3. line' = line + 1
    BY <1>2, <1>4, <2>2
  <2>4. line' \in Nat /\ line' > 0 /\ line' > Len(file')
    BY <1>1, <1>4, <2>3
  <2> QED BY <1>2, <2>1, <2>4 DEF Following
<1>5. CASE wrong \in Nat \ {0} /\ wrong < line /\ parser_state = "ERROR"
  <2>1. mode' = mode /\ parser_state' = "ERROR"
    BY <1>5 DEF L!Parse, L!ParseStart, L!ParseSize, L!ParseAddress, L!ParseType, L!ParseData, L!ParseChecksum, L!ParseError,
       L!parser
  <2>2. line' \in Nat /\ line' > 0 /\ wrong' \in Nat \ {0} /\ wrong' < line'
    BY <1>1, <1>2, <1>5
  <2> QED BY <1>2, <2>1, <2>2 DEF Following
<1> QED BY <1>1, <1>3, <1>4, <1>5 DEF Following

(* The invariant of the loader, and its steps. *)
LEMMA LoaderInit == L!Init => LoaderInv
<1> SUFFICES ASSUME L!Init PROVE LoaderInv
  OBVIOUS
<1> USE DEF L!Init
<1>1. flash = [p \in L!Pages |-> flash[p]] /\ before = flash /\ before = [p \in L!Pages |-> before[p]]
  OBVIOUS
<1>2. L!LoadsOrStops
  BY DEF L!LoadsOrStops, L!Loaded
<1> QED BY <1>1, <1>2 DEF LoaderInv

LEMMA LoaderNext == LoaderInv /\ [L!Next]_L!vars => LoaderInv'
<1> SUFFICES ASSUME LoaderInv, [L!Next]_L!vars PROVE LoaderInv'
  OBVIOUS
<1>1. /\ flash = [p \in L!Pages |-> flash[p]] /\ before = [p \in L!Pages |-> before[p]]
      /\ mode \in {"menu", "parser", "started"}
  BY DEF LoaderInv
<1>2. CASE L!Enter
  <2>1. /\ file = << >> /\ line = 1 /\ place = 1 /\ wrong = 0 /\ parser_state = "START"
        /\ flash_data = << >> /\ flash_page_flag = 1 /\ before = flash
    BY <1>2 DEF LoaderInv, L!Enter
  <2>2. /\ mode' = "parser" /\ file' \in Files /\ line' = line /\ place' = place /\ wrong' = wrong
        /\ parser_state' = parser_state /\ flash_data' = flash_data /\ flash_page_flag' = flash_page_flag
        /\ flash' = flash /\ before' = before
    BY <1>2 DEF L!Enter, L!parser, L!buffer
  <2>3. Entering'
    BY <1>1, <2>1, <2>2 DEF Entering, L!Pages
  <2>4. (Entering => Following /\ (L!Plain => Buffered))'
    BY Entered, PTL
  <2>5. L!LoadsOrStops'
    BY <2>2 DEF L!LoadsOrStops, L!Loaded
  <2> QED BY <1>1, <2>2, <2>3, <2>4, <2>5 DEF LoaderInv, L!Pages
<1>3. CASE L!Leave
  <2>1. /\ mode' = "started" /\ file' = file /\ flash' = flash /\ before' = before /\ file = << >>
    BY <1>3 DEF LoaderInv, L!Leave
  <2>2. L!LoadsOrStops'
    BY <2>1 DEF L!LoadsOrStops, L!Loaded
  <2> QED BY <1>1, <2>1, <2>2 DEF LoaderInv, L!Pages
<1>4. CASE L!Receive
  <2>1. PICK c : L!Hear(c) /\ L!Parse(c)
    BY <1>4 DEF L!Receive
  <2>2. mode = "parser" /\ line <= Len(file) /\ before' = before
    BY <2>1 DEF L!Hear
  <2>3. file \in Files /\ Following /\ (L!Plain /\ wrong = 0 => Buffered)
    BY <2>2 DEF LoaderInv
  <2>4. flash' = [p \in L!Pages |-> flash'[p]] /\ before' = [p \in L!Pages |-> before'[p]]
    BY <1>1, <2>1, <2>2, KeepsPages
  <2>5. file' = file /\ line \in Nat /\ line > 0
    BY <2>1, <2>3 DEF Following, L!Hear
  <2>6. /\ mode' \in {"parser", "started"}
        /\ mode' = "parser" => Following' /\ (L!Plain /\ wrong = 0 => Buffered)'
        /\ mode' = "started" => Misled' /\ (L!Plain /\ wrong = 0 => flash = L!Got)'
    <3>1. CASE InStep
      BY <2>1, <2>2, <2>3, <2>5, <3>1, InStepKeeps
    <3>2. CASE ~ InStep
      BY <2>1, <2>2, <2>3, <3>2, OutOfStep
    <3> QED BY <3>1, <3>2
  <2>7. L!LoadsOrStops'
    BY <2>6 DEF L!LoadsOrStops, L!Loaded, Misled
  <2>8. (flash = [p \in L!Pages |-> flash[p]] /\ before = [p \in L!Pages |-> before[p]])'
    BY <2>4 DEF L!Pages
  <2> QED BY <2>3, <2>5, <2>6, <2>7, <2>8 DEF LoaderInv
<1>5. CASE L!Restart
  <2>1. /\ mode' = "menu" /\ file' = << >> /\ line' = 1 /\ place' = 1 /\ wrong' = 0 /\ parser_state' = "START"
        /\ flash_data' = << >> /\ flash_page_flag' = 1 /\ before' = flash /\ flash' = flash
    BY <1>5 DEF L!Restart
  <2>2. L!LoadsOrStops'
    BY <2>1 DEF L!LoadsOrStops, L!Loaded
  <2> QED BY <1>1, <2>1, <2>2 DEF LoaderInv, L!Pages
<1>6. CASE UNCHANGED L!vars
  <2>1. UNCHANGED <<file, line, place, wrong, mode, parser_state, hex_size, hex_check, hex_type, hex_data_cnt,
                    flash_data, flash_page, flash_page_flag, flash, before>>
    BY <1>6 DEF L!vars, L!parser, L!buffer
  <2>2. At' = At /\ Begun' = Begun
    BY <2>1, SameImage DEF At, Begun
  <2>3. Buffered => Buffered'
    BY <2>1, <2>2, Stays
  <2>4. Following' <=> Following
    BY <2>1 DEF Following, InStep, Stage, StateAt
  <2>5. L!LoadsOrStops' <=> L!LoadsOrStops
    <3>1. L!Got' = L!Got
      <4>1. L!Wanted' = L!Wanted
        BY <2>1, SameImage DEF L!Wanted
      <4>2. L!Tail0' = L!Tail0
        BY <2>1, SameImage DEF L!Tail0
      <4> QED BY <2>1, <4>1, <4>2, SameImage DEF L!Got
    <3> QED BY <2>1, <3>1, SameImage DEF L!LoadsOrStops, L!Loaded
  <2> QED BY <2>1, <2>3, <2>4, <2>5, SameImage DEF LoaderInv, L!Pages
<1> QED BY <1>2, <1>3, <1>4, <1>5, <1>6 DEF L!Next

(* Whatever the file and the page size: a plain file that arrives unchanged is
   in the flash when the application is started, but for a tail whose page no line
   begins in; after a changed byte the loader stops, unless the line is or became
   the end record. *)
THEOREM LoadsWholeFiles == L!Spec => []LoadsOrStops
<1>1. LoaderInv => LoadsOrStops
  BY DEF LoaderInv, LoadsOrStops
<1> QED BY <1>1, LoaderInit, LoaderNext, PTL DEF L!Spec
=============================================================================
