------------------------------ MODULE MCDevices ------------------------------
(***************************************************************************)
(* The small devices, each beside its own partner: the I2C driver of the   *)
(* ATtiny85 nodes, the timer node above it, the boot loader of the clock,  *)
(* and the chain of the radio nodes.  These share no state: a behaviour is *)
(* one of them.                                                            *)
(***************************************************************************)
EXTENDS UsiTwiSlave, Sequences

CONSTANTS
  Byte, Times, DefaultOn, DefaultOff, MaxTicks,     \* of TimerNode
  PageSize, LastPage, Files, Garbled,               \* of HexLoader
  Measurements, MaxFrames, MaxNodes, MaxDamaged, Changes, FreeConns    \* of RadioChain

ASSUME TimerAssumption ==
  /\ Byte \in Nat \ {0} /\ DefaultOn \in Int /\ DefaultOff \in Int
  /\ \A time \in Times : time[1] \in 0 .. 255 /\ time[2] \in 0 .. 255

Word == {q \in Int : -32768 <= q /\ q <= 32767}

\* The quantities are the 16-bit numbers of the nodes.
ASSUME MeasurementAssumption ==
  \A kind \in DOMAIN Measurements :
    /\ kind \in {"T", "f", "g", "M"}
    /\ \A quantities \in Measurements[kind] :
         /\ quantities \in Seq(Word)
         /\ Len(quantities) = (IF kind \in {"T", "M"} THEN 1 ELSE 3)

Octets == 0 .. 255
DoubleOctets == 0 .. 65535
HexLines == [type : Octets, addr : DoubleOctets, data : Seq(Octets)]
EndRecord == [type |-> 1, addr |-> 0, data |-> << >>]

\* A file has lines with data, and the end record.
ASSUME FilesAssumption ==
  \A f \in Files :
    /\ f \in Seq(HexLines)
    /\ f # << >> /\ f[Len(f)] = EndRecord
    /\ \A l \in 1 .. Len(f) - 1 : f[l].type # 1 /\ Len(f[l].data) \in 1 .. 255

ASSUME PageAssumption == PageSize \in Nat \ {0} /\ LastPage \in Nat /\ Garbled \subseteq Octets

\* Four ticks, and more than an int can hold.
MCTimes == {<<64, 0>>, <<16, 128>>}

(* Files with pages of four bytes: one that leaves a rest, one that fills its
   last page, one whose last line begins a page, one of another first page
   whose last line crosses a page, one with a gap, one that begins within a page, one with another record. *)
DataLine(addr, n) == [type |-> 0, addr |-> addr, data |-> [k \in 1 .. n |-> addr + k]]
MCFiles == {
  <<DataLine(0, 3), DataLine(3, 3), EndRecord>>,
  <<DataLine(0, 3), DataLine(3, 3), DataLine(6, 2), EndRecord>>,
  <<DataLine(0, 4), DataLine(4, 1), EndRecord>>,
  <<DataLine(4, 2), DataLine(6, 3), EndRecord>>,
  <<DataLine(0, 2), DataLine(4, 2), EndRecord>>,
  <<DataLine(2, 3), EndRecord>>,
  <<[type |-> 4, addr |-> 0, data |-> <<0, 0>>], DataLine(0, 3), EndRecord>> }

(* Temperatures below and above zero; climate below zero and with a humidity
   low enough to be kept; an acceleration beyond a byte. *)
MCMeasurements == [
  T |-> {<<-8>>, <<256>>}, f |-> {<<-5, -3, 1000>>}, g |-> {<<-300, 5, 0>>}, M |-> {<<257>>}]

VARIABLES
  part,
  orderbuffer, lWDTMaxOn, lWDTMaxOff, lWDTcounter, phase, lMax, pc, low, order, ticks, overlap,
  file, line, place, wrong, mode, parser_state, hex_size, hex_check, hex_type, hex_data_cnt,
  flash_data, flash_page, flash_page_flag, flash, before,
  log, air, conns, g_conn, net, receiver, puts, values, answer

timer == <<orderbuffer, lWDTMaxOn, lWDTMaxOff, lWDTcounter, phase, lMax, pc, low, order, ticks, overlap>>
loader == <<file, line, place, wrong, mode, parser_state, hex_size, hex_check, hex_type, hex_data_cnt,
            flash_data, flash_page, flash_page_flag, flash, before>>
chain == <<log, air, conns, g_conn, net, receiver, puts, values, answer>>

T == INSTANCE TimerNode WITH rxbuffer <- orderbuffer
L == INSTANCE HexLoader
R == INSTANCE RadioChain

MCInit ==
  /\ part \in {"driver", "timer", "loader", "chain"}
  /\ Init /\ T!Init /\ L!Init /\ R!Init

DriverStep == part = "driver" /\ Next /\ UNCHANGED <<part, timer, loader, chain>>
TimerStep == part = "timer" /\ T!Next /\ UNCHANGED <<part, vars, loader, chain>>
LoaderStep == part = "loader" /\ L!Next /\ UNCHANGED <<part, vars, timer, chain>>
ChainStep == part = "chain" /\ R!Next /\ UNCHANGED <<part, vars, timer, loader>>

MCSpec == MCInit /\ [][DriverStep \/ TimerStep \/ LoaderStep \/ ChainStep]_<<part, vars, timer, loader, chain>>
MCLoaderInit == MCInit /\ part = "loader"
MCLoaderSpec == MCLoaderInit /\ [][LoaderStep]_<<part, vars, timer, loader, chain>>

TimesAsOrdered == T!TimesAsOrdered
LoadsOrStops == L!LoadsOrStops
EndWritesTheRest == L!EndWritesTheRest
AnswersAreMeasured == R!AnswersAreMeasured
=============================================================================
