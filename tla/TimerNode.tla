------------------------------ MODULE TimerNode ------------------------------
(***************************************************************************)
(* The timer node (timer-tiny85/main.c) switches a load on and off for     *)
(* times that a master writes to the receive buffer of its I2C driver,     *)
(* byte by byte between two markers.  Every byte wakes the main loop, as   *)
(* do the ticks of the watchdog, which the loop counts in a variable that  *)
(* it reads and resets one byte at a time.                                 *)
(***************************************************************************)
EXTENDS Integers, Sequences

CONSTANTS
  Byte,        \* the numbers of a byte of the tick counter, 256 in fact
  Times,       \* what a master orders: the two low bytes of a number of milliseconds
  DefaultOn, DefaultOff,
  MaxTicks     \* bound on the ticks of a phase; after one overlap no more orders come

VARIABLES
  rxbuffer,                   \* its first marker, the two low bytes, and the last marker: 3, 4, 5, 8
  lWDTMaxOn, lWDTMaxOff, lWDTcounter,
  phase, lMax,                \* which SleepLoop runs, and its argument
  pc, low,                    \* where the loop is, and the byte it has read
  order,                      \* what the master still has to write
  ticks, overlap              \* history: the phase's ticks; an order began before the last was taken

limits == <<lWDTMaxOn, lWDTMaxOff>>
loop == <<phase, lMax, pc, low>>
vars == <<rxbuffer, limits, lWDTcounter, loop, order, ticks, overlap>>

On == "0xbb"
Off == "0xaa"
Restart == "0x99"
None == "0"

Init ==
  /\ rxbuffer = [p \in {3, 4, 5, 8} |-> IF p \in {3, 8} THEN None ELSE 0]
  /\ lWDTMaxOn = DefaultOn /\ lWDTMaxOff = DefaultOff /\ lWDTcounter = 0
  /\ phase = "on" /\ lMax = DefaultOn /\ pc = "low" /\ low = 0
  /\ order = << >> /\ ticks = 0 /\ overlap = FALSE

\* The sum has the 16 bits of an int: the two high bytes are lost, and the sign is not.
Limit(b4, b5) ==
  LET sum == b4 + 256 * b5 IN (IF sum < 32768 THEN sum ELSE sum - 65536) \div 16

-----------------------------------------------------------------------------
(* The master, which may also break off. *)
Complete == rxbuffer[3] = rxbuffer[8] /\ rxbuffer[3] # None

Order ==
  /\ order = << >> /\ ~overlap
  /\ \E kind \in {On, Off, Restart}, time \in Times :
       order' = <<<<3, kind>>, <<4, time[1]>>, <<5, time[2]>>, <<8, kind>>>>
  /\ overlap' = (overlap \/ Complete)
  /\ UNCHANGED <<rxbuffer, limits, lWDTcounter, loop, ticks>>

Woken == IF pc = "sleep" THEN "low" ELSE pc

WriteByte ==
  /\ order # << >> /\ pc # "dead" /\ order' = Tail(order)
  /\ rxbuffer' = [rxbuffer EXCEPT ![Head(order)[1]] = Head(order)[2]]
  /\ pc' = Woken
  /\ UNCHANGED <<limits, lWDTcounter, phase, lMax, low, ticks, overlap>>

BreakOff ==
  /\ order # << >> /\ order' = << >>
  /\ UNCHANGED <<rxbuffer, limits, lWDTcounter, loop, ticks, overlap>>

(* ISR(WDT_vect) *)
Tick ==
  /\ pc # "dead" /\ (ticks < MaxTicks \/ pc = "sleep") /\ ticks' = ticks + 1
  /\ lWDTcounter' = lWDTcounter + 1
  /\ pc' = Woken
  /\ UNCHANGED <<rxbuffer, limits, phase, lMax, low, order, overlap>>

-----------------------------------------------------------------------------
(* SleepLoop *)
ReadLow ==
  /\ pc = "low" /\ pc' = "high" /\ low' = lWDTcounter % Byte
  /\ UNCHANGED <<rxbuffer, limits, lWDTcounter, phase, lMax, order, ticks, overlap>>

ReadHigh ==
  /\ pc = "high"
  /\ pc' = IF lWDTcounter - (lWDTcounter % Byte) + low >= lMax THEN "switch" ELSE "DoI2c"
  /\ UNCHANGED <<rxbuffer, limits, lWDTcounter, phase, lMax, low, order, ticks, overlap>>

\* The other phase begins: the counter is reset, one of its bytes first.
Switch ==
  /\ pc = "switch"
  /\ phase' = IF phase = "on" THEN "off" ELSE "on"
  /\ lMax' = IF phase = "on" THEN lWDTMaxOff ELSE lWDTMaxOn
  /\ ticks' = 0
  /\ \/ lWDTcounter' = lWDTcounter - (lWDTcounter % Byte) /\ pc' = "reset_high"
     \/ lWDTcounter' = lWDTcounter % Byte /\ pc' = "reset_low"
  /\ UNCHANGED <<rxbuffer, limits, low, order, overlap>>

Reset ==
  /\ pc \in {"reset_low", "reset_high"} /\ pc' = "low"
  /\ lWDTcounter' = IF pc = "reset_high" THEN lWDTcounter % Byte ELSE lWDTcounter - (lWDTcounter % Byte)
  /\ UNCHANGED <<rxbuffer, limits, phase, lMax, low, order, ticks, overlap>>

Ordered_ByFirst(kind) == rxbuffer[3] = kind

\* Both markers are there.
Ordered(kind) == rxbuffer[3] = kind /\ rxbuffer[8] = kind

Taken == [rxbuffer EXCEPT ![3] = None, ![8] = None]
Time == Limit(rxbuffer[4], rxbuffer[5])

\* One restart marker leaves the interrupts disabled, and the loop asleep for ever.
DoI2c ==
  /\ pc = "DoI2c"
  /\ \/ rxbuffer[3] = Restart /\ pc' = "dead" /\ UNCHANGED <<rxbuffer, limits>>
     \/ Ordered(Off) /\ pc' = "sleep" /\ rxbuffer' = Taken /\ lWDTMaxOff' = Time /\ UNCHANGED lWDTMaxOn
     \/ Ordered(On) /\ pc' = "sleep" /\ rxbuffer' = Taken /\ lWDTMaxOn' = Time /\ UNCHANGED lWDTMaxOff
     \/ /\ rxbuffer[3] # Restart /\ ~Ordered(Off) /\ ~Ordered(On)
        /\ pc' = "sleep" /\ UNCHANGED <<rxbuffer, limits>>
  /\ UNCHANGED <<lWDTcounter, phase, lMax, low, order, ticks, overlap>>

\* The watchdog, no longer answered, resets the node.
WatchdogReset ==
  /\ pc = "dead"
  /\ rxbuffer' = [p \in {3, 4, 5, 8} |-> IF p \in {3, 8} THEN None ELSE 0]
  /\ lWDTMaxOn' = DefaultOn /\ lWDTMaxOff' = DefaultOff /\ lWDTcounter' = 0
  /\ phase' = "on" /\ lMax' = DefaultOn /\ pc' = "low" /\ low' = 0
  /\ order' = << >> /\ ticks' = 0 /\ overlap' = FALSE

Next ==
  \/ Order \/ WriteByte \/ BreakOff \/ Tick
  \/ ReadLow \/ ReadHigh \/ Switch \/ Reset \/ DoI2c \/ WatchdogReset

Spec == Init /\ [][Next]_vars

-----------------------------------------------------------------------------
Written(default) == {default} \cup {Limit(time[1], time[2]) : time \in Times}

(* A limit is the default or one that a master has written whole, unless an
   order began before the last was taken. *)
LimitsOrdered == overlap \/ (lWDTMaxOn \in Written(DefaultOn) /\ lWDTMaxOff \in Written(DefaultOff))

(* A phase lasts its ticks, but for those that a reset and a comparison torn
   by the tick interrupt can pretend: each one less than a carry. *)
Torn == 2 * (Byte - 1)
LastsAsLimited == phase' # phase /\ pc # "dead" => ticks >= lMax - Torn

(* The load is switched by what was ordered. *)
TimesAsOrdered == [][LimitsOrdered' /\ LastsAsLimited]_vars
=============================================================================
