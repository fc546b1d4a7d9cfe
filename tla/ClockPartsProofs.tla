-------------------------- MODULE ClockPartsProofs --------------------------
(***************************************************************************)
(* The parts of wordclock/ around its main program.                        *)
(*                                                                         *)
(* For every ring size and every set of readings the running sum of        *)
(* wordclock/ldr.c is the sum of the last Size measurements.  No induction *)
(* over the ring is needed: the history variable since turns the sum into  *)
(* a difference of neighbours.                                             *)
(*                                                                         *)
(* For every alphabet, line length and buffer that holds a line the serial *)
(* mailbox implements LineMail.  MailInv says at each moment which part of *)
(* the line on the wire has been stored: from the marker on everything, or *)
(* something that does not begin with the marker.                          *)
(*                                                                         *)
(* For every day of the century the steps of the date move the clock by    *)
(* their amount, for every zone the local day is the shifted one, and in   *)
(* Germany summer time is that of the law but for the named hours.  Days   *)
(* and minutes are numbered (Number, Minute); a step adds to the number; a *)
(* zone is up to thirteen steps; days around the 29th of February 2000,    *)
(* which the steps do not know, are followed one by one.                   *)
(*                                                                         *)
(* The words lit at any minute of the day, read in German, say the time.   *)
(***************************************************************************)
EXTENDS MCClockParts, Sequences, FiniteSetTheorems, TLAPS

Inv == TypeOK /\ WindowInv

(* Positions relative to the oldest slot are slots. *)
LEMMA SlotIsSlot ==
  ASSUME curr_index \in Slots, NEW k \in Slots
  PROVE  Slot(k) \in Slots /\ Slot(0) = curr_index /\ (k # 0 => Slot(k) # curr_index)
BY LightAssumption DEF Slots, Slot

(* Advancing turns position k + 1 into position k, the oldest into the newest. *)
LEMMA Rotation ==
  ASSUME curr_index \in Slots, curr_index' = Advance
  PROVE  /\ curr_index' \in Slots /\ Slot(0)' = curr_index'
         /\ \A k \in 0 .. Size - 2 : Slot(k)' = Slot(k + 1)
         /\ Slot(Size - 1)' = curr_index
BY LightAssumption DEF Slots, Slot, Advance

(* Arithmetic of a ring filled with one reading. *)
LEMMA Times == ASSUME NEW a \in 0 .. 255, NEW n \in Nat PROVE a * n \in 0 .. 255 * n
BY SMT

LEMMA Difference ==
  ASSUME NEW a \in 0 .. 255, NEW n \in Int, NEW k \in Int
  PROVE  a = a * (n - k) - a * (n - (k + 1))
BY SMT

LEMMA Fits ==
  ASSUME NEW n \in 1 .. 255, NEW x \in 0 .. 255 * n
  PROVE  x \in 0 .. Word - 1 /\ x % Word = x
<1>1. x \in Int /\ 0 <= x /\ x <= 255 * n /\ n \in Int /\ n <= 255
  OBVIOUS
<1>2. x < Word
  BY <1>1, SMT DEF Word
<1>3. x % Word = x /\ Word \in Int
  BY <1>1, <1>2, SMT DEF Word
<1> QED BY <1>1, <1>2, <1>3

LEMMA Start == Init => Inv
<1> SUFFICES ASSUME Init PROVE Inv
  OBVIOUS
<1>1. adch \in 0 .. 255 /\ Size \in 1 .. 255 /\ Size \in Nat
  BY LightAssumption DEF Init
<1>2. \A i \in 0 .. Size : adch * i \in 0 .. 255 * i
  <2> TAKE i \in 0 .. Size
  <2>1. i \in Nat
    BY <1>1
  <2> QED BY <1>1, <2>1, Times
<1>3. adch * Size \in 0 .. Word - 1 /\ curr_sum = adch * Size
  <2>1. adch * Size \in 0 .. 255 * Size
    BY <1>1, Times
  <2>2. adch * Size \in 0 .. Word - 1 /\ (adch * Size) % Word = adch * Size
    BY <1>1, <2>1, Fits
  <2> QED BY <2>2 DEF Init
<1>4. TypeOK
  <2>1. \A i \in Slots : adch * (Size - i) \in Nat
    BY <1>1, <1>2 DEF Slots
  <2>2. since \in [Slots -> Nat]
    BY <2>1 DEF Init
  <2>3. array \in [Slots -> Levels] /\ curr_index \in Slots
    BY <1>1 DEF Init, Slots
  <2>4. curr_sum \in 0 .. Word - 1
    BY <1>3
  <2> QED BY <2>2, <2>3, <2>4 DEF Init, TypeOK
<1>5. \A k \in Slots : Slot(k) = k /\ since[k] = adch * (Size - k) /\ array[k] = adch
  BY <1>1 DEF Init, Slot, Slots
<1>6. SumOfWindow
  <2>1. 0 \in Slots /\ curr_index = 0
    BY <1>1 DEF Init, Slots
  <2> QED BY <1>1, <1>3, <1>5, <2>1 DEF SumOfWindow
<1>7. \A k \in 0 .. Size - 2 : adch = adch * (Size - k) - adch * (Size - (k + 1))
  <2> TAKE k \in 0 .. Size - 2
  <2> QED BY <1>1, Difference
<1>8. Telescope
  <2>1. \A k \in Slots : since[Slot(k)] \in 0 .. 255 * (Size - k)
    BY <1>1, <1>2, <1>5 DEF Slots
  <2>2. \A k \in 0 .. Size - 2 : array[Slot(k)] = since[Slot(k)] - since[Slot(k + 1)]
    <3> TAKE k \in 0 .. Size - 2
    <3>1. k \in Slots /\ k + 1 \in Slots
      BY <1>1 DEF Slots
    <3> QED BY <1>5, <1>7, <3>1
  <2>3. array[Slot(Size - 1)] = since[Slot(Size - 1)]
    <3>1. Size - 1 \in Slots /\ adch * (Size - (Size - 1)) = adch
      BY <1>1 DEF Slots
    <3> QED BY <1>5, <3>1
  <2> QED BY <2>1, <2>2, <2>3 DEF Telescope
<1> QED BY <1>4, <1>6, <1>8 DEF Inv, WindowInv

LEMMA ReadKeeps == Inv /\ ldr_read => Inv'
<1> SUFFICES ASSUME Inv, ldr_read PROVE Inv'
  OBVIOUS
<1> USE DEF Inv, WindowInv
<1>0. /\ Size \in 1 .. 255 /\ adch \in 0 .. 255 /\ curr_index \in Slots
      /\ array \in [Slots -> Levels] /\ since \in [Slots -> Nat]
      /\ adch' = adch
  BY LightAssumption DEF TypeOK, ldr_read
<1>1. /\ curr_index' \in Slots /\ Slot(0)' = curr_index'
      /\ \A k \in 0 .. Size - 2 : Slot(k)' = Slot(k + 1)
      /\ Slot(Size - 1)' = curr_index
  BY <1>0, Rotation DEF ldr_read
<1>2. \A k \in Slots : Slot(k) \in Slots /\ Slot(0) = curr_index /\ (k # 0 => Slot(k) # curr_index)
  BY <1>0, SlotIsSlot
<1>3. \A k \in 0 .. Size - 2 :
        /\ k + 1 \in Slots
        /\ since'[Slot(k)'] = since[Slot(k + 1)] + adch
        /\ array'[Slot(k)'] = array[Slot(k + 1)]
  <2> TAKE k \in 0 .. Size - 2
  <2>1. k + 1 \in Slots /\ k + 1 # 0
    BY <1>0 DEF Slots
  <2>2. Slot(k + 1) \in Slots /\ Slot(k + 1) # curr_index
    BY <1>2, <2>1
  <2>3. Slot(k)' = Slot(k + 1)
    BY <1>1
  <2> QED BY <1>0, <2>1, <2>2, <2>3 DEF ldr_read
<1>4. since'[Slot(Size - 1)'] = adch /\ array'[Slot(Size - 1)'] = adch
  BY <1>0, <1>1 DEF ldr_read
<1>5. Telescope'
  <2>1. \A k \in Slots : since'[Slot(k)'] \in 0 .. 255 * (Size - k)
    <3> TAKE k \in Slots
    <3>1. CASE k = Size - 1
      BY <1>0, <1>4, <3>1
    <3>2. CASE k # Size - 1
      <4>1. k + 1 \in Slots /\ k \in 0 .. Size - 2
        BY <1>0, <3>2 DEF Slots
      <4>2. since[Slot(k + 1)] \in 0 .. 255 * (Size - (k + 1))
        BY <4>1 DEF Telescope
      <4> QED BY <1>0, <1>3, <4>1, <4>2
    <3> QED BY <3>1, <3>2
  <2>2. \A k \in 0 .. Size - 2 : array'[Slot(k)'] = since'[Slot(k)'] - since'[Slot(k + 1)']
    <3> TAKE k \in 0 .. Size - 2
    <3>1. since[Slot(k + 1)] \in Nat
      BY <1>0, <1>2, <1>3
    <3>2. CASE k = Size - 2
      <4>1. k + 1 = Size - 1 /\ array[Slot(k + 1)] = since[Slot(k + 1)]
        BY <1>0, <3>2 DEF Telescope
      <4> QED BY <1>0, <1>3, <1>4, <3>1, <4>1
    <3>3. CASE k # Size - 2
      <4>1. k + 1 \in 0 .. Size - 2 /\ k + 2 \in Slots /\ k + 1 + 1 = k + 2
        BY <1>0, <3>3 DEF Slots
      <4>2. array[Slot(k + 1)] = since[Slot(k + 1)] - since[Slot(k + 2)]
        BY <4>1 DEF Telescope
      <4>3. since[Slot(k + 2)] \in Nat
        BY <1>0, <1>2, <4>1
      <4>4. since'[Slot(k + 1)'] = since[Slot(k + 2)] + adch
        BY <1>3, <4>1
      <4> QED BY <1>0, <1>3, <3>1, <4>2, <4>3, <4>4
    <3> QED BY <3>2, <3>3
  <2>3. array'[Slot(Size - 1)'] = since'[Slot(Size - 1)']
    BY <1>4
  <2> QED BY <2>1, <2>2, <2>3 DEF Telescope, Slots, Slot
<1>6. curr_sum - array[curr_index] + adch = since'[curr_index']
  <2>1. curr_sum = since[Slot(0)] /\ since[Slot(0)] \in Nat /\ Slot(0) = curr_index
    <3>1. 0 \in Slots
      BY <1>0 DEF Slots
    <3> QED BY <1>0, <1>2, <3>1 DEF SumOfWindow
  <2>2. CASE Size = 1
    <3>1. array[Slot(0)] = since[Slot(0)] /\ Slot(Size - 1)' = Slot(0)'
      BY <1>0, <2>2 DEF Telescope, Slot
    <3> QED BY <1>0, <1>1, <1>4, <2>1, <3>1
  <2>3. CASE Size # 1
    <3>1. 0 \in 0 .. Size - 2 /\ 0 + 1 = 1 /\ 1 \in Slots
      BY <1>0, <2>3 DEF Slots
    <3>2. array[Slot(0)] = since[Slot(0)] - since[Slot(1)]
      BY <3>1 DEF Telescope
    <3>3. since[Slot(1)] \in Nat
      BY <1>0, <1>2, <3>1
    <3>4. since'[Slot(0)'] = since[Slot(1)] + adch
      BY <1>3, <3>1
    <3> QED BY <1>0, <1>1, <2>1, <3>2, <3>3, <3>4
  <2> QED BY <2>2, <2>3
<1>7. since'[curr_index'] \in 0 .. 255 * Size
  <2>1. 0 \in Slots
    BY <1>0 DEF Slots
  <2>2. since'[Slot(0)'] \in 0 .. 255 * (Size - 0)
    BY <1>5, <2>1 DEF Telescope, Slots, Slot
  <2> QED BY <1>0, <1>1, <2>2
<1>8. SumOfWindow' /\ curr_sum' \in 0 .. Word - 1
  <2>1. curr_sum' = since'[curr_index'] % Word
    BY <1>6 DEF ldr_read, Replaced
  <2>2. since'[curr_index'] \in 0 .. Word - 1 /\ since'[curr_index'] % Word = since'[curr_index']
    BY <1>0, <1>7, Fits
  <2> QED BY <2>1, <2>2 DEF SumOfWindow
<1>9. TypeOK'
  <2>1. since' \in [Slots -> Nat]
    BY <1>0 DEF ldr_read
  <2>2. array' \in [Slots -> Levels]
    BY <1>0 DEF ldr_read, TypeOK
  <2> QED BY <1>1, <1>8, <2>1, <2>2 DEF ldr_read, Restart, TypeOK
<1> QED BY <1>5, <1>8, <1>9

LEMMA OthersKeep == Inv /\ (Change \/ Convert \/ UNCHANGED vars) => Inv'
<1> SUFFICES ASSUME Inv, Change \/ Convert \/ UNCHANGED vars PROVE Inv'
  OBVIOUS
<1>1. /\ array' = array /\ since' = since /\ curr_index' = curr_index /\ curr_sum' = curr_sum
      /\ light' \in Levels /\ adch' \in Levels /\ converting' \in {0, 1}
  BY DEF Inv, TypeOK, Change, Convert, vars
<1>2. TypeOK'
  BY <1>1 DEF Inv, TypeOK
<1>3. SumOfWindow' /\ Telescope'
  BY <1>1 DEF Inv, WindowInv, SumOfWindow, Telescope, Slot
<1> QED BY <1>2, <1>3 DEF Inv, WindowInv

(* The running sum of wordclock/ldr.c is the sum of the last Size
   measurements and its 16-bit arithmetic never wraps, for every ring of up
   to 255 slots. *)
THEOREM SumExact == Spec => [](TypeOK /\ WindowInv)
<1>1. Inv /\ [Next]_vars => Inv'
  BY ReadKeeps, OthersKeep DEF Next
<1>2. Inv => TypeOK /\ WindowInv
  BY DEF Inv
<1> QED BY Start, <1>1, <1>2, PTL DEF Spec

-----------------------------------------------------------------------------
(* The serial mailbox. *)
MAX == UART_MAXSTRLEN
Stored == Letters \cup {">", "NUL"}

(* n characters of text and the two ends are still to come. *)
Rest(n) == wire \in Seq(Letters \cup {">", "CR", "LF"}) /\ Len(wire) = n + 2 /\ wire[n + 1] = "CR" /\ wire[n + 2] = "LF"
AtEnd ==
  /\ wire = << >> \/ wire = <<"LF">>
  /\ uart_str_count = 0 /\ sent = M!Nothing
AtStart ==
  \E n \in Nat :
    /\ Rest(n + 1) /\ wire[1] = ">" /\ uart_str_count = 0
    /\ sent \in M!Commands /\ Len(sent) = n /\ \A i \in 1 .. n : wire[i + 1] = sent[i]
NoMarker == uart_str_count > 0 => uart_string[0] \in Letters
Marked(k) ==
  /\ uart_str_count = k + 1 /\ uart_string[0] = ">"
  /\ \A i \in 1 .. k : uart_string[i] = sent[i]
InText ==
  \E n \in Nat :
    /\ Rest(n) /\ \A i \in 1 .. n : wire[i] \in Letters
    /\ \/ sent = M!Nothing /\ NoMarker
       \/ /\ sent \in M!Commands
          /\ \E k \in 0 .. Len(sent) :
               /\ n = Len(sent) - k /\ \A i \in 1 .. n : wire[i] = sent[k + i]
               /\ NoMarker \/ Marked(k)
EndsAt(string, m) == string[m] = "NUL" /\ \A i \in 0 .. m - 1 : string[i] # "NUL"
BoxInv ==
  /\ uart_str_complete \in {0, 1} /\ uart_string \in [0 .. MAX - 1 -> Stored]
  /\ uart_str_count \in 0 .. MAX - 1 /\ (uart_str_complete = 1 => uart_str_count = 0)
  /\ \A i \in 0 .. uart_str_count - 1 : uart_string[i] # "NUL"
  /\ uart_str_complete = 1 => \E m \in 0 .. MAX - 1 : EndsAt(uart_string, m)
MailInv == BoxInv /\ (AtEnd \/ AtStart \/ InText)

LEMMA LineSizes ==
  /\ MAX \in Nat /\ MaxLine \in Nat /\ MAX >= MaxLine + 2 /\ MAX - 1 \in Nat \ {0}
  /\ PatternLength \in Nat \ {0} /\ PatternLength <= MAX - 1
BY LineAssumption DEF MAX

LEMMA LineEnds ==
  ASSUME NEW m \in 0 .. MAX - 1, uart_string \in [0 .. MAX - 1 -> Stored], EndsAt(uart_string, m)
  PROVE  M!Line = [i \in 1 .. m |-> uart_string[i - 1]]
<1> DEFINE ends(j) == /\ j = UART_MAXSTRLEN \/ uart_string[j] = "NUL"
                      /\ \A i \in 0 .. j - 1 : uart_string[i] # "NUL"
           nul == CHOOSE j \in 0 .. UART_MAXSTRLEN : ends(j)
<1>1. m \in 0 .. UART_MAXSTRLEN /\ ends(m)
  BY LineSizes DEF EndsAt, MAX
<1>2. nul \in 0 .. UART_MAXSTRLEN /\ ends(nul)
  <2> HIDE DEF ends
  <2> QED BY <1>1
<1>3. M!Line = [i \in 1 .. nul |-> uart_string[i - 1]]
  BY DEF M!Line
<1> HIDE DEF nul
<1>4. nul = m
  <2>1. CASE nul < m
    <3>1. uart_string[nul] # "NUL" /\ nul # UART_MAXSTRLEN
      BY <1>1, <1>2, <2>1, LineSizes DEF MAX
    <3> QED BY <1>2, <3>1
  <2>2. CASE nul > m
    <3>1. uart_string[m] # "NUL"
      BY <1>2, <2>2
    <3> QED BY <3>1 DEF EndsAt
  <2> QED BY <1>2, <2>1, <2>2, LineSizes
<1> QED BY <1>3, <1>4

(* What the main loop obeys of a line without a marker, and of one with it. *)
LEMMA NonsenseObeyed ==
  ASSUME NEW m \in 0 .. MAX - 1, uart_string \in [0 .. MAX - 1 -> Stored], EndsAt(uart_string, m),
         m > 0 => uart_string[0] \in Letters
  PROVE  M!Obeyed = M!Nonsense
<1>1. M!Line = [i \in 1 .. m |-> uart_string[i - 1]]
  BY LineEnds
<1>2. CASE m = 0
  <2>1. M!Line = << >>
    BY <1>1, <1>2
  <2> QED BY <2>1 DEF M!Obeyed
<1>3. CASE m > 0
  <2>1. M!Line[1] = uart_string[0]
    BY <1>1, <1>3
  <2>2. M!Line[1] # ">"
    BY <1>3, <2>1, LineAssumption
  <2> QED BY <2>2 DEF M!Obeyed
<1> QED BY <1>2, <1>3, LineSizes

LEMMA ListIsFunction == ASSUME NEW S, NEW s \in Seq(S), NEW n \in Nat, Len(s) = n PROVE s \in [1 .. n -> S]
<1>1. s \in [1 .. Len(s) -> S]
  OBVIOUS
<1> QED BY <1>1

LEMMA CommandObeyed ==
  ASSUME NEW k \in Nat \ {0}, NEW command, command \in [1 .. k -> Letters], k + 1 \in 0 .. MAX - 1,
         uart_string \in [0 .. MAX - 1 -> Stored], EndsAt(uart_string, k + 1),
         uart_string[0] = ">", \A i \in 1 .. k : uart_string[i] = command[i], command \in M!Commands
  PROVE  M!Obeyed \in M!Found[command]
<1>1. PICK m \in Nat : m = k + 1
  OBVIOUS
<1>2. M!Line = [i \in 1 .. m |-> uart_string[i - 1]]
  BY <1>1, LineEnds
<1>3. \A i \in 1 .. m : uart_string[i - 1] \in Letters \cup {">"}
  BY <1>1
<1>4. M!Line \in Seq(Letters \cup {">"}) /\ Len(M!Line) = m
  BY <1>2, <1>3
<1>5. M!Line[1] = ">" /\ \A i \in 1 .. k : M!Line[i + 1] = command[i]
  BY <1>1, <1>2
<1>6. M!Line # << >> /\ Len(M!Line) > 1
  BY <1>1, <1>4
<1>7. M!Line[2] = command[1]
  BY <1>5
<1>8. PICK line : line = M!Line
  OBVIOUS
<1>9. Tail(line) = command
  <2>1. line \in Seq(Letters \cup {">"}) /\ Len(line) = k + 1 /\ \A i \in 1 .. k : line[i + 1] = command[i]
    BY <1>1, <1>4, <1>5, <1>8
  <2>2. Tail(line) \in Seq(Letters \cup {">"}) /\ Len(Tail(line)) = k /\ \A i \in 1 .. k : Tail(line)[i] = line[i + 1]
    BY <2>1
  <2>3. Tail(line) \in [1 .. k -> Letters \cup {">"}]
    BY <2>2, ListIsFunction
  <2> QED BY <2>1, <2>2, <2>3
<1>10. CASE command[1] # Pattern
  <2>1. M!Obeyed = Tail(M!Line)
    BY <1>4, <1>5, <1>6, <1>7, <1>10 DEF M!Obeyed
  <2>2. M!Found[command] = {command}
    BY <1>10 DEF M!Found
  <2> QED BY <1>8, <1>9, <2>1, <2>2
<1>11. CASE command[1] = Pattern
  <2>1. M!Obeyed = [i \in 1 .. PatternLength |-> uart_string[i]]
    BY <1>4, <1>5, <1>6, <1>7, <1>11 DEF M!Obeyed
  <2> DEFINE found == [i \in 1 .. PatternLength |-> uart_string[i]]
  <2>2. found \in [1 .. PatternLength -> Letters \cup {">", "NUL"}]
    <3>1. \A i \in 1 .. PatternLength : i \in 0 .. MAX - 1
      BY LineSizes
    <3> QED BY <3>1 DEF Stored
  <2>3. \A i \in 1 .. PatternLength :
          /\ i <= k => found[i] = command[i]
          /\ i = k + 1 => found[i] = "NUL"
    BY DEF EndsAt
  <2>4. Len(command) = k
    BY <1>4
  <2> HIDE DEF found
  <2>5. M!Found[command] =
          {text \in [1 .. PatternLength -> Letters \cup {">", "NUL"}] :
             \A i \in 1 .. PatternLength :
               /\ i <= Len(command) => text[i] = command[i]
               /\ i = Len(command) + 1 => text[i] = "NUL"}
    BY <1>11, Zenon DEF M!Found
  <2> QED BY <2>1, <2>2, <2>3, <2>4, <2>5 DEF found
<1> QED BY <1>10, <1>11

Characters == Letters \cup {">", "CR", "LF"}

LEMMA CommandIs ==
  ASSUME NEW c \in M!Commands
  PROVE  /\ Len(c) \in Nat \ {0} /\ Len(c) <= MaxLine /\ c \in [1 .. Len(c) -> Letters]
         /\ c \in Seq(Letters) /\ c # M!Nothing
<1>1. c # << >> /\ \E n \in 0 .. MaxLine : c \in [1 .. n -> Letters]
  BY DEF M!Commands, M!SeqOf
<1>2. PICK n \in 0 .. MaxLine : c \in [1 .. n -> Letters]
  BY <1>1
<1>3. n \in Nat /\ c \in Seq(Letters) /\ Len(c) = n
  BY <1>2, LineSizes
<1>4. n # 0
  BY <1>1, <1>2, <1>3
<1> QED BY <1>1, <1>2, <1>3, <1>4 DEF M!Nothing

LEMMA Joined ==
  ASSUME NEW S, NEW a \in Seq(S), NEW b \in Seq(S), NEW n \in Nat, NEW m \in Nat, Len(a) = n, Len(b) = m
  PROVE  /\ a \o b \in Seq(S) /\ Len(a \o b) = n + m
         /\ \A i \in 1 .. n : (a \o b)[i] = a[i]
         /\ \A i \in 1 .. m : (a \o b)[n + i] = b[i]
OBVIOUS

LEMMA PartOf ==
  ASSUME NEW S, NEW a \in Seq(S), NEW n \in Nat, Len(a) = n, NEW from \in {1, 2}, n >= 2
  PROVE  /\ SubSeq(a, from, n) \in Seq(S) /\ Len(SubSeq(a, from, n)) = n - from + 1
         /\ \A i \in 1 .. n - from + 1 : SubSeq(a, from, n)[i] = a[i + from - 1]
OBVIOUS

LEMMA Ends ==
  /\ <<"CR", "LF">> \in Seq(Characters) /\ Len(<<"CR", "LF">>) = 2
  /\ <<"CR", "LF">>[1] = "CR" /\ <<"CR", "LF">>[2] = "LF"
  /\ <<">">> \in Seq(Characters) /\ Len(<<">">>) = 1 /\ <<">">>[1] = ">"
BY DEF Characters

Framed(line, c, n) ==
  /\ line \in Seq(Characters) /\ Len(line) = n + 3 /\ n \in Nat
  /\ line[1] = ">" /\ line[n + 2] = "CR" /\ line[n + 3] = "LF"
  /\ \A i \in 1 .. n : line[i + 1] = c[i] /\ c[i] \in Letters

LEMMA LineIs == ASSUME NEW c \in M!Commands PROVE Framed(<<">">> \o c \o <<"CR", "LF">>, c, Len(c))
<1>0. PICK n, line : n = Len(c) /\ line = <<">">> \o c \o <<"CR", "LF">>
  OBVIOUS
<1>1. n = Len(c) /\ n \in Nat /\ c \in Seq(Characters) /\ \A i \in 1 .. n : c[i] \in Letters
  BY <1>0, CommandIs DEF Characters
<1>2. PICK a : a = <<">">> \o c
  OBVIOUS
<1>3. /\ a \in Seq(Characters) /\ Len(a) = 1 + n
      /\ \A i \in 1 .. 1 : a[i] = <<">">>[i]
      /\ \A i \in 1 .. n : a[1 + i] = c[i]
  BY <1>1, <1>2, Ends, Joined
<1>4. 1 + n \in Nat /\ a[1] = ">"
  BY <1>1, <1>3
<1>5. PICK m \in Nat : m = 1 + n
  BY <1>4
<1>6. Len(a) = m
  BY <1>3, <1>5
<1>7. /\ line \in Seq(Characters) /\ Len(line) = m + 2
      /\ \A i \in 1 .. m : line[i] = a[i]
      /\ \A i \in 1 .. 2 : line[m + i] = <<"CR", "LF">>[i]
  BY <1>0, <1>2, <1>3, <1>6, Ends, Joined
<1>8. line[m + 1] = "CR" /\ line[m + 2] = "LF"
  BY <1>7, Ends
<1>9. line[1] = ">" /\ \A i \in 1 .. n : line[i + 1] = c[i]
  BY <1>1, <1>3, <1>4, <1>5, <1>7
<1>10. Framed(line, c, n)
  BY <1>1, <1>5, <1>7, <1>8, <1>9 DEF Framed
<1> QED BY <1>0, <1>10

Box == IF uart_str_complete = 0 THEN M!Nothing ELSE M!Obeyed

\* What the main loop would find follows from what is in the buffer.
LEMMA BoxKept == UNCHANGED <<uart_str_complete, uart_string>> => Box' = Box
BY DEF Box, M!Obeyed, M!Line

LEMMA SendsLine ==
  ASSUME MailInv, M!SendLine
  PROVE  MailInv' /\ [M!Mail!Next]_(M!Mail!vars)
<1>1. wire = << >> /\ UNCHANGED <<uart_str_complete, uart_str_count, uart_string>>
  BY DEF M!SendLine
<1>2. BoxInv' /\ uart_str_count' = 0
  <2>1. wire # <<"LF">> /\ Len(wire) = 0
    BY <1>1
  <2>2. ~AtStart /\ ~InText
    BY <2>1 DEF AtStart, InText, Rest
  <2> QED BY <1>1, <2>2 DEF MailInv, BoxInv, AtEnd
<1>3. Box' = Box
  BY <1>1, BoxKept
<1>4. PICK command \in M!Commands, from \in {1, 2} :
        LET line == <<">">> \o command \o <<"CR", "LF">>
        IN  /\ wire' = SubSeq(line, from, Len(line))
            /\ sent' = IF from = 1 THEN command ELSE M!Nothing
  BY DEF M!SendLine
<1>5. PICK n, line : n = Len(command) /\ line = <<">">> \o command \o <<"CR", "LF">>
  OBVIOUS
<1>6. /\ line \in Seq(Characters) /\ Len(line) = n + 3 /\ n \in Nat
      /\ line[1] = ">" /\ line[n + 2] = "CR" /\ line[n + 3] = "LF"
      /\ \A i \in 1 .. n : line[i + 1] = command[i] /\ command[i] \in Letters
  <2>1. Framed(line, command, n)
    BY <1>5, LineIs
  <2> QED BY <2>1 DEF Framed
<1>7. wire' = SubSeq(line, from, n + 3)
  BY <1>4, <1>5, <1>6
<1>8. n + 3 \in Nat /\ n + 3 >= 2
  BY <1>6
<1>9. /\ wire' \in Seq(Characters) /\ Len(wire') = (n + 3) - from + 1
      /\ \A i \in 1 .. (n + 3) - from + 1 : wire'[i] = line[i + from - 1]
  BY <1>6, <1>7, <1>8, PartOf
<1>10. CASE from = 1
  <2>1. sent' = command /\ sent' \in M!Commands
    BY <1>4, <1>10
  <2>2. Len(wire') = (n + 1) + 2 /\ wire'[1] = ">" /\ wire'[(n + 1) + 1] = "CR" /\ wire'[(n + 1) + 2] = "LF"
    BY <1>6, <1>9, <1>10
  <2>3. \A i \in 1 .. n : wire'[i + 1] = sent'[i]
    BY <1>6, <1>9, <1>10, <2>1
  <2>4. AtStart'
    BY <1>2, <1>5, <1>6, <1>9, <2>1, <2>2, <2>3 DEF AtStart, Rest, Characters
  <2>5. M!Mail!Next
    BY <1>3, <2>1 DEF M!Mail!Next, M!Mail!Send, Box
  <2> QED BY <1>2, <2>4, <2>5 DEF MailInv
<1>11. CASE from = 2
  <2>1. sent' = M!Nothing
    BY <1>4, <1>11
  <2>2. Len(wire') = n + 2 /\ wire'[n + 1] = "CR" /\ wire'[n + 2] = "LF"
    BY <1>6, <1>9, <1>11
  <2>3. \A i \in 1 .. n : wire'[i] \in Letters
    BY <1>6, <1>9, <1>11
  <2>4. InText'
    BY <1>2, <1>6, <1>9, <2>1, <2>2, <2>3 DEF InText, Rest, Characters, NoMarker
  <2>5. M!Mail!Next
    BY <1>3, <2>1 DEF M!Mail!Next, M!Mail!Lose, Box
  <2> QED BY <1>2, <2>4, <2>5 DEF MailInv
<1> QED BY <1>10, <1>11

LEMMA SendsNoise ==
  ASSUME MailInv, M!SendNoise
  PROVE  MailInv' /\ [M!Mail!Next]_(M!Mail!vars)
<1>1. /\ wire = << >> /\ UNCHANGED <<uart_str_complete, uart_str_count, uart_string>> /\ sent' = M!Nothing
      /\ \E letter \in Letters : wire' = [i \in 1 .. MAX + 1 |-> letter] \o <<"CR", "LF">>
  BY DEF M!SendNoise, MAX
<1>2. BoxInv' /\ uart_str_count' = 0
  <2>1. wire # <<"LF">> /\ Len(wire) = 0
    BY <1>1
  <2>2. ~AtStart /\ ~InText
    BY <2>1 DEF AtStart, InText, Rest
  <2> QED BY <1>1, <2>2 DEF MailInv, BoxInv, AtEnd
<1>3. Box' = Box
  BY <1>1, BoxKept
<1>4. PICK letter \in Letters : wire' = [i \in 1 .. MAX + 1 |-> letter] \o <<"CR", "LF">>
  BY <1>1
<1>5. PICK n, noise : n = MAX + 1 /\ noise = [i \in 1 .. n |-> letter]
  OBVIOUS
<1>6. n \in Nat
  BY <1>5, LineSizes
<1>7. noise \in Seq(Characters) /\ Len(noise) = n /\ \A i \in 1 .. n : noise[i] = letter
  <2>1. noise \in [1 .. n -> Characters]
    BY <1>5 DEF Characters
  <2> QED BY <1>5, <1>6, <2>1
<1>8. wire' = noise \o <<"CR", "LF">>
  BY <1>4, <1>5
<1>9. /\ wire' \in Seq(Characters) /\ Len(wire') = n + 2
      /\ \A i \in 1 .. n : wire'[i] = noise[i]
      /\ \A i \in 1 .. 2 : wire'[n + i] = <<"CR", "LF">>[i]
  BY <1>6, <1>7, <1>8, Ends, Joined
<1>10. wire'[n + 1] = "CR" /\ wire'[n + 2] = "LF" /\ \A i \in 1 .. n : wire'[i] \in Letters
  BY <1>7, <1>9, Ends
<1>11. InText'
  <2>1. Rest(n)'
    BY <1>9, <1>10 DEF Rest, Characters
  <2>2. NoMarker'
    BY <1>2 DEF NoMarker
  <2> QED BY <1>1, <1>6, <1>10, <2>1, <2>2 DEF InText
<1>12. M!Mail!Next
  BY <1>1, <1>3 DEF M!Mail!Next, M!Mail!Lose, Box
<1> QED BY <1>2, <1>11, <1>12 DEF MailInv

LEMMA OneLeft == ASSUME NEW n \in Nat, n > 1 PROVE n - 1 # 0
OBVIOUS

LEMMA TailLeft == ASSUME NEW S, NEW s \in Seq(S), Len(s) > 1 PROVE Tail(s) # << >>
<1>1. Len(Tail(s)) = Len(s) - 1 /\ Len(s) \in Nat
  OBVIOUS
<1>2. Len(<< >>) = 0
  OBVIOUS
<1>3. PICK n \in Nat : n = Len(s)
  BY <1>1
<1>4. n > 1 /\ Len(Tail(s)) = n - 1
  BY <1>1, <1>3
<1>5. n - 1 # 0
  BY <1>4, OneLeft
<1> QED BY <1>2, <1>4, <1>5, Zenon

LEMMA Serves ==
  ASSUME MailInv, M!Serve
  PROVE  MailInv' /\ [M!Mail!Next]_(M!Mail!vars)
<1>1. /\ uart_str_complete = 1 /\ uart_str_complete' = 0
      /\ UNCHANGED <<wire, uart_str_count, uart_string, sent>>
  BY DEF M!Serve
<1>2. MailInv'
  BY <1>1 DEF MailInv, BoxInv, AtEnd, AtStart, InText, Rest, NoMarker, Marked, EndsAt
<1>3. Box' = M!Nothing
  BY <1>1 DEF Box
<1>4. Box # M!Nothing
  <2>1. PICK m \in 0 .. MAX - 1 : EndsAt(uart_string, m)
    BY <1>1 DEF MailInv, BoxInv
  <2>2. M!Line = [i \in 1 .. m |-> uart_string[i - 1]]
    BY <2>1, LineEnds DEF MailInv, BoxInv
  <2>3. m \in Nat /\ \A i \in 1 .. m : i - 1 \in 0 .. MAX - 1
    BY LineSizes
  <2>4. M!Line \in Seq(Stored)
    BY <2>2, <2>3 DEF MailInv, BoxInv
  <2>5. Len(M!Line) > 1 => Tail(M!Line) # << >>
    BY <2>4, TailLeft
  <2>6. M!Nonsense # << >>
    BY DEF M!Nonsense
  <2>7. M!Obeyed # << >>
    <3>1. [i \in 1 .. PatternLength |-> uart_string[i]] # << >>
      BY LineSizes
    <3>2. M!Line # << >> /\ Len(M!Line) # 1 => Len(M!Line) > 1
      BY <2>4
    <3> QED BY <2>5, <2>6, <3>1, <3>2 DEF M!Obeyed
  <2> QED BY <1>1, <2>7 DEF Box, M!Nothing
<1>5. M!Mail!Next
  BY <1>1, <1>3, <1>4 DEF M!Mail!Next, M!Mail!Take, Box
<1> QED BY <1>2, <1>5

(* One character received: the remaining ones, and what becomes of it. *)
LEMMA Remaining ==
  ASSUME NEW n \in Nat, NEW s \in Seq(Characters), Len(s) = n + 1
  PROVE  /\ Head(s) = s[1] /\ Tail(s) \in Seq(Characters) /\ Len(Tail(s)) = n
         /\ \A i \in 1 .. n : Tail(s)[i] = s[i + 1]
OBVIOUS

Received(c) ==
  IF ~M!Accepts THEN UNCHANGED <<uart_str_complete, uart_str_count, uart_string>>
  ELSE IF c \notin {"CR", "LF"} /\ M!Room THEN M!Store(c) ELSE M!Complete

LEMMA Dropped == ASSUME MailInv, NEW c, Received(c), ~M!Accepts
  PROVE  BoxInv' /\ Box' = Box /\ uart_str_count = 0 /\ uart_str_count' = 0
<1>1. UNCHANGED <<uart_str_complete, uart_str_count, uart_string>>
  BY DEF Received
<1>2. uart_str_count = 0
  BY DEF M!Accepts, MailInv, BoxInv
<1> QED BY <1>1, <1>2, BoxKept DEF MailInv, BoxInv

LEMMA StoredChar ==
  ASSUME MailInv, NEW c \in Letters \cup {">"}, M!Accepts, M!Room, Received(c)
  PROVE  /\ BoxInv' /\ Box' = Box /\ Box = M!Nothing
         /\ uart_str_count' = uart_str_count + 1 /\ uart_string'[uart_str_count] = c
         /\ \A i \in 0 .. uart_str_count - 1 : uart_string'[i] = uart_string[i]
<1>1. c \notin {"CR", "LF", "NUL"} /\ c \in Stored
  BY LineAssumption DEF Stored
<1>2. M!Store(c)
  BY <1>1 DEF Received
<1>3. PICK n \in 0 .. MAX - 1 : uart_str_count = n
  BY DEF MailInv, BoxInv
<1>4. /\ uart_string' = [uart_string EXCEPT ![n] = c] /\ uart_str_count' = n + 1
      /\ uart_str_complete' = 0 /\ uart_str_complete = 0 /\ n < MAX - 1
  BY <1>2, <1>3 DEF M!Store, M!Accepts, M!Room, MAX
<1>5. /\ uart_string \in [0 .. MAX - 1 -> Stored] /\ \A i \in 0 .. n - 1 : uart_string[i] # "NUL"
  BY <1>3 DEF MailInv, BoxInv
<1>6. /\ uart_string' \in [0 .. MAX - 1 -> Stored] /\ uart_string'[n] = c
      /\ \A i \in 0 .. n - 1 : uart_string'[i] = uart_string[i]
  BY <1>1, <1>4, <1>5, LineSizes
<1>7. BoxInv'
  <2>1. n + 1 \in 0 .. MAX - 1 /\ \A i \in 0 .. (n + 1) - 1 : uart_string'[i] # "NUL"
    BY <1>1, <1>4, <1>5, <1>6, LineSizes
  <2> QED BY <1>4, <1>6, <2>1 DEF BoxInv
<1>8. Box' = M!Nothing /\ Box = M!Nothing
  BY <1>4 DEF Box
<1> QED BY <1>3, <1>4, <1>6, <1>7, <1>8

LEMMA Completed ==
  ASSUME MailInv, NEW c, M!Accepts, c \in {"CR", "LF"} \/ ~M!Room, Received(c)
  PROVE  /\ BoxInv' /\ Box = M!Nothing /\ uart_str_count' = 0 /\ uart_str_complete' = 1
         /\ uart_string' \in [0 .. MAX - 1 -> Stored] /\ EndsAt(uart_string', uart_str_count)
         /\ uart_str_count \in 0 .. MAX - 1
         /\ \A i \in 0 .. uart_str_count - 1 : uart_string'[i] = uart_string[i]
<1>1. M!Complete
  BY DEF Received
<1>2. PICK n \in 0 .. MAX - 1 : uart_str_count = n
  BY DEF MailInv, BoxInv
<1>3. /\ uart_string' = [uart_string EXCEPT ![n] = "NUL"] /\ uart_str_count' = 0
      /\ uart_str_complete' = 1 /\ uart_str_complete = 0
  BY <1>1, <1>2 DEF M!Complete, M!Terminated, M!Accepts
<1>4. /\ uart_string \in [0 .. MAX - 1 -> Stored] /\ \A i \in 0 .. n - 1 : uart_string[i] # "NUL"
  BY <1>2 DEF MailInv, BoxInv
<1>5. /\ uart_string' \in [0 .. MAX - 1 -> Stored] /\ uart_string'[n] = "NUL"
      /\ \A i \in 0 .. n - 1 : uart_string'[i] = uart_string[i]
  BY <1>3, <1>4, LineSizes DEF Stored
<1>6. EndsAt(uart_string', n)
  BY <1>4, <1>5 DEF EndsAt
<1>7. BoxInv'
  <2>1. 0 \in 0 .. MAX - 1 /\ \A i \in 0 .. 0 - 1 : FALSE
    BY LineSizes
  <2> QED BY <1>3, <1>5, <1>6, <2>1 DEF BoxInv
<1>8. Box = M!Nothing
  BY <1>3 DEF Box
<1> QED BY <1>2, <1>3, <1>5, <1>6, <1>7, <1>8

(* What a full buffer gives the main loop, now and after a step. *)
Plain ==
  /\ uart_string \in [0 .. MAX - 1 -> Stored]
  /\ \E m \in 0 .. MAX - 1 : EndsAt(uart_string, m) /\ (m > 0 => uart_string[0] \in Letters)
Holds(command) ==
  /\ uart_string \in [0 .. MAX - 1 -> Stored]
  /\ \E k \in Nat \ {0} :
       /\ k + 1 \in 0 .. MAX - 1 /\ command \in [1 .. k -> Letters] /\ EndsAt(uart_string, k + 1)
       /\ uart_string[0] = ">" /\ \A i \in 1 .. k : uart_string[i] = command[i]
       /\ command \in M!Commands

LEMMA PlainFound == Plain => M!Obeyed = M!Nonsense
BY NonsenseObeyed DEF Plain

LEMMA PlainFoundNext == Plain' => M!Obeyed' = M!Nonsense
<1>1. (Plain => M!Obeyed = M!Nonsense)'
  BY PlainFound, PTL
<1> QED BY <1>1 DEF M!Nonsense

LEMMA HeldFound == ASSUME NEW CONSTANT command PROVE Holds(command) => M!Obeyed \in M!Found[command]
BY CommandObeyed DEF Holds

LEMMA HeldFoundNext == ASSUME NEW CONSTANT command PROVE Holds(command)' => M!Obeyed' \in M!Found[command]
<1>1. Holds(command) => M!Obeyed \in M!Found[command]
  BY HeldFound
<1>2. (Holds(command) => M!Obeyed \in M!Found[command])'
  BY <1>1, PTL
<1>3. M!Found' = M!Found
  BY DEF M!Found, M!Commands, M!SeqOf
<1> QED BY <1>2, <1>3

\* How the text on the wire and the buffer belong to what was sent, n characters before the ends.
Progress(n) ==
  \/ sent = M!Nothing /\ NoMarker
  \/ /\ sent \in M!Commands
     /\ \E k \in 0 .. Len(sent) :
          /\ n = Len(sent) - k /\ \A i \in 1 .. n : wire[i] = sent[k + i]
          /\ NoMarker \/ Marked(k)

LEMMA TextIs == InText <=> \E n \in Nat : Rest(n) /\ (\A i \in 1 .. n : wire[i] \in Letters) /\ Progress(n)
BY DEF InText, Progress

LEMMA TextNext ==
  ASSUME NEW n \in Nat, Rest(n)', \A i \in 1 .. n : wire'[i] \in Letters, Progress(n)'
  PROVE  InText'
<1>1. (\A i \in 1 .. n : wire[i] \in Letters)'
  OBVIOUS
<1> QED BY <1>1 DEF InText, Progress

LEMMA ReceivedIs ==
  ASSUME M!Receive, NEW n \in Nat, wire \in Seq(Characters), Len(wire) = n + 1
  PROVE  /\ wire' \in Seq(Characters) /\ Len(wire') = n /\ \A i \in 1 .. n : wire'[i] = wire[i + 1]
         /\ Received(wire[1])
         /\ sent' = IF wire[1] \in {"CR", "LF"} THEN M!Nothing ELSE sent
<1>1. /\ Head(wire) = wire[1] /\ Tail(wire) \in Seq(Characters) /\ Len(Tail(wire)) = n
      /\ \A i \in 1 .. n : Tail(wire)[i] = wire[i + 1]
  BY Remaining
<1>2. wire' = Tail(wire) /\ Received(Head(wire)) /\ sent' = IF Head(wire) \in {"CR", "LF"} THEN M!Nothing ELSE sent
  BY DEF M!Receive, Received
<1> QED BY <1>1, <1>2

\* Without its marker, whatever is completed is nonsense.
LEMMA PlainCompleted ==
  ASSUME MailInv, NEW c, M!Accepts, c \in {"CR", "LF"} \/ ~M!Room, Received(c),
         sent' = sent \/ sent' = M!Nothing, NoMarker
  PROVE  BoxInv' /\ uart_str_count' = 0 /\ M!Mail!Next
<1>1. /\ BoxInv' /\ Box = M!Nothing /\ uart_str_count' = 0 /\ uart_str_complete' = 1
      /\ uart_string' \in [0 .. MAX - 1 -> Stored] /\ EndsAt(uart_string', uart_str_count)
      /\ uart_str_count \in 0 .. MAX - 1
      /\ \A i \in 0 .. uart_str_count - 1 : uart_string'[i] = uart_string[i]
  BY Completed
<1>2. PICK m \in 0 .. MAX - 1 : m = uart_str_count
  BY <1>1
<1>3. EndsAt(uart_string, m)' /\ (m > 0 => uart_string'[0] \in Letters)
  BY <1>1, <1>2 DEF EndsAt, NoMarker
<1>4. Plain'
  BY <1>1, <1>3 DEF Plain
<1>5. Box' = M!Nonsense
  BY <1>1, <1>4, PlainFoundNext DEF Box
<1>6. M!Mail!Next
  BY <1>1, <1>5 DEF M!Mail!Next, M!Mail!Disturb, Box
<1> QED BY <1>1, <1>6

LEMMA EndReceived ==
  ASSUME MailInv, NEW c \in {"CR", "LF"}, Received(c), sent' = M!Nothing, NoMarker
  PROVE  BoxInv' /\ uart_str_count' = 0 /\ M!Mail!Next
<1>1. CASE ~M!Accepts
  <2>1. BoxInv' /\ uart_str_count' = 0 /\ Box' = Box
    BY <1>1, Dropped
  <2>2. M!Mail!Next
    BY <2>1 DEF M!Mail!Next, M!Mail!Lose, Box
  <2> QED BY <2>1, <2>2
<1>2. CASE M!Accepts
  BY <1>2, PlainCompleted
<1> QED BY <1>1, <1>2

LEMMA Receives ==
  ASSUME MailInv, M!Receive
  PROVE  MailInv' /\ [M!Mail!Next]_(M!Mail!vars)
<1>0. wire # << >>
  BY DEF M!Receive
<1>1. CASE AtEnd
  <2>1. wire = <<"LF">> /\ uart_str_count = 0 /\ 0 \in Nat
    BY <1>0, <1>1 DEF AtEnd
  <2>2. wire \in Seq(Characters) /\ Len(wire) = 0 + 1 /\ wire[1] = "LF"
    BY <2>1 DEF Characters
  <2>3. wire' \in Seq(Characters) /\ Len(wire') = 0 /\ Received("LF") /\ sent' = M!Nothing
    BY <2>1, <2>2, ReceivedIs
  <2>4. BoxInv' /\ uart_str_count' = 0 /\ M!Mail!Next
    BY <2>1, <2>3, EndReceived DEF NoMarker
  <2>5. wire' = << >>
    BY <2>3
  <2> QED BY <2>3, <2>4, <2>5 DEF MailInv, AtEnd
<1>2. CASE AtStart
  <2>1. PICK n \in Nat :
          /\ Rest(n + 1) /\ wire[1] = ">" /\ uart_str_count = 0
          /\ sent \in M!Commands /\ Len(sent) = n /\ \A i \in 1 .. n : wire[i + 1] = sent[i]
    BY <1>2 DEF AtStart
  <2>2. PICK m \in Nat : m = n + 2
    OBVIOUS
  <2>3. wire \in Seq(Characters) /\ Len(wire) = m + 1 /\ wire[n + 2] = "CR" /\ wire[n + 3] = "LF"
    BY <2>1, <2>2 DEF Rest, Characters
  <2>4. /\ wire' \in Seq(Characters) /\ Len(wire') = m /\ \A i \in 1 .. m : wire'[i] = wire[i + 1]
        /\ Received(">") /\ sent' = sent
    BY <2>1, <2>3, ReceivedIs
  <2>5. Rest(n)' /\ \A i \in 1 .. n : wire'[i] = sent[i]
    BY <2>1, <2>2, <2>3, <2>4 DEF Rest, Characters
  <2>6. \A i \in 1 .. n : sent[i] \in Letters
    BY <2>1, CommandIs
  <2>7. BoxInv' /\ Box' = Box /\ (NoMarker \/ Marked(0))'
    <3>1. CASE ~M!Accepts
      BY <2>4, <3>1, Dropped DEF NoMarker
    <3>2. CASE M!Accepts
      <4>1. M!Room
        BY <2>1, LineSizes DEF M!Room, MAX
      <4>2. BoxInv' /\ Box' = Box /\ uart_str_count' = uart_str_count + 1 /\ uart_string'[uart_str_count] = ">"
        BY <2>4, <3>2, <4>1, StoredChar
      <4> QED BY <2>1, <4>2 DEF Marked
    <3> QED BY <3>1, <3>2
  <2>8. Progress(n)'
    <3>1. 0 \in 0 .. n /\ n = n - 0 /\ \A i \in 1 .. n : wire'[i] = sent'[0 + i]
      BY <2>4, <2>5
    <3>2. sent' \in M!Commands /\ Len(sent') = n
      BY <2>1, <2>4
    <3> QED BY <2>7, <3>1, <3>2 DEF Progress
  <2>9. InText'
    BY <2>5, <2>6, <2>8, TextNext
  <2> QED BY <2>4, <2>7, <2>9 DEF MailInv, M!Mail!vars, Box
<1>3. CASE InText
  <2>1. PICK n \in Nat : Rest(n) /\ (\A i \in 1 .. n : wire[i] \in Letters) /\ Progress(n)
    BY <1>3, TextIs
  <2>2. PICK m \in Nat : m = n + 1
    OBVIOUS
  <2>3. wire \in Seq(Characters) /\ Len(wire) = m + 1 /\ wire[n + 1] = "CR" /\ wire[n + 2] = "LF"
    BY <2>1, <2>2 DEF Rest, Characters
  <2>4. /\ wire' \in Seq(Characters) /\ Len(wire') = m /\ \A i \in 1 .. m : wire'[i] = wire[i + 1]
        /\ Received(wire[1]) /\ sent' = IF wire[1] \in {"CR", "LF"} THEN M!Nothing ELSE sent
    BY <2>3, ReceivedIs
  <2>5. CASE n = 0
    <3>1. wire[1] = "CR" /\ sent' = M!Nothing /\ Received("CR") /\ wire' = <<"LF">>
      <4>1. wire[1] = "CR" /\ Len(wire') = 1 /\ wire'[1] = "LF" /\ wire' \in Seq(Characters)
        BY <2>2, <2>3, <2>4, <2>5
      <4>2. wire' = <<"LF">>
        BY <4>1
      <4> QED BY <2>4, <4>1, <4>2
    <3>2. BoxInv' /\ uart_str_count' = 0 /\ M!Mail!Next
      <4>1. CASE NoMarker
        BY <3>1, <4>1, EndReceived
      <4>2. CASE ~NoMarker
        <5>1. sent \in M!Commands /\ Marked(Len(sent)) /\ Len(sent) \in Nat \ {0} /\ sent \in [1 .. Len(sent) -> Letters]
              /\ sent # M!Nothing
          <6>1. PICK k \in 0 .. Len(sent) : sent \in M!Commands /\ 0 = Len(sent) - k /\ Marked(k)
            BY <2>1, <2>5, <4>2 DEF Progress
          <6>2. Len(sent) \in Nat /\ k = Len(sent)
            BY <6>1, CommandIs
          <6> QED BY <6>1, <6>2, CommandIs
        <5>2. PICK k \in Nat \ {0} : k = Len(sent)
          BY <5>1
        <5>3. /\ uart_str_count = k + 1 /\ uart_string[0] = ">" /\ (\A i \in 1 .. k : uart_string[i] = sent[i])
              /\ sent \in [1 .. k -> Letters]
          BY <5>1, <5>2 DEF Marked
        <5>4. M!Accepts
          BY <5>3 DEF MailInv, BoxInv, M!Accepts
        <5>5. /\ BoxInv' /\ Box = M!Nothing /\ uart_str_count' = 0 /\ uart_str_complete' = 1
              /\ uart_string' \in [0 .. MAX - 1 -> Stored] /\ EndsAt(uart_string', uart_str_count)
              /\ uart_str_count \in 0 .. MAX - 1
              /\ \A i \in 0 .. uart_str_count - 1 : uart_string'[i] = uart_string[i]
          BY <3>1, <5>4, Completed
        <5>6. PICK command : command = sent
          OBVIOUS
        <5>7. Holds(command)'
          <6>1. k + 1 \in 0 .. MAX - 1 /\ EndsAt(uart_string', k + 1)
            BY <5>3, <5>5
          <6>2. uart_string'[0] = ">" /\ \A i \in 1 .. k : uart_string'[i] = command[i]
            BY <5>3, <5>5, <5>6
          <6>3. command \in M!Commands
            BY <5>1, <5>6
          <6> QED BY <5>3, <5>5, <5>6, <6>1, <6>2, <6>3 DEF Holds, EndsAt
        <5>8. Box' \in M!Found[sent]
          BY <5>5, <5>6, <5>7, HeldFoundNext DEF Box
        <5>9. M!Mail!Next
          BY <3>1, <5>1, <5>5, <5>8 DEF M!Mail!Next, M!Mail!Arrive, Box
        <5> QED BY <5>5, <5>9
      <4> QED BY <4>1, <4>2
    <3> QED BY <3>1, <3>2 DEF MailInv, AtEnd
  <2>6. CASE n # 0
    <3>1. PICK j \in Nat : n = j + 1
      BY <2>6
    <3>2. wire[1] \in Letters /\ wire[1] \notin {"CR", "LF"} /\ sent' = sent
      BY <2>1, <2>4, <2>6, LineAssumption
    <3>3. Rest(j)' /\ \A i \in 1 .. j : wire'[i] = wire[i + 1] /\ wire'[i] \in Letters
      BY <2>1, <2>2, <2>3, <2>4, <3>1 DEF Rest, Characters
    <3>4. \/ sent = M!Nothing /\ NoMarker
          \/ \E k \in 0 .. Len(sent) - 1 :
               /\ sent \in M!Commands /\ j = Len(sent) - (k + 1) /\ wire[1] = sent[k + 1]
               /\ \A i \in 1 .. j : wire'[i] = sent[(k + 1) + i]
               /\ NoMarker \/ Marked(k)
      <4>1. CASE sent = M!Nothing /\ NoMarker
        BY <4>1
      <4>2. CASE sent \in M!Commands /\ \E k \in 0 .. Len(sent) :
                   /\ n = Len(sent) - k /\ \A i \in 1 .. n : wire[i] = sent[k + i]
                   /\ NoMarker \/ Marked(k)
        <5>1. PICK k \in 0 .. Len(sent) : n = Len(sent) - k /\ (\A i \in 1 .. n : wire[i] = sent[k + i]) /\ (NoMarker \/ Marked(k))
          BY <4>2
        <5>2. PICK l \in Nat : l = Len(sent)
          BY <4>2, CommandIs
        <5>3. k \in 0 .. l - 1 /\ j = l - (k + 1) /\ n = l - k
          BY <3>1, <5>1, <5>2
        <5>4. wire[1] = sent[k + 1]
          BY <2>6, <5>1
        <5>5. \A i \in 1 .. j : wire'[i] = sent[(k + 1) + i]
          <6> TAKE i \in 1 .. j
          <6>1. i + 1 \in 1 .. n /\ k + (i + 1) = (k + 1) + i
            BY <3>1, <5>3
          <6>2. wire[i + 1] = sent[k + (i + 1)]
            BY <5>1, <6>1
          <6> QED BY <3>3, <6>1, <6>2
        <5> QED BY <4>2, <5>1, <5>2, <5>3, <5>4, <5>5
      <4> QED BY <2>1, <4>1, <4>2 DEF Progress
    <3>5. ASSUME NEW k \in 0 .. Len(sent) - 1, sent \in M!Commands, j = Len(sent) - (k + 1),
                 \A i \in 1 .. j : wire'[i] = sent[(k + 1) + i], NoMarker' \/ Marked(k + 1)'
          PROVE  Progress(j)'
      <4>1. k + 1 \in 0 .. Len(sent)
        BY <3>5, CommandIs
      <4> QED BY <3>2, <3>5, <4>1 DEF Progress
    <3>6. NoMarker' => Progress(j)'
      BY <3>2, <3>4, <3>5 DEF Progress
    <3>7. CASE ~M!Accepts
      <4>1. BoxInv' /\ Box' = Box /\ uart_str_count' = 0
        BY <2>4, <3>7, Dropped
      <4>2. InText'
        BY <3>3, <3>6, <4>1, TextNext DEF NoMarker
      <4> QED BY <3>2, <4>1, <4>2 DEF MailInv, M!Mail!vars, Box
    <3>8. CASE M!Accepts /\ M!Room
      <4>1. /\ BoxInv' /\ Box' = Box
            /\ uart_str_count' = uart_str_count + 1 /\ uart_string'[uart_str_count] = wire[1]
            /\ \A i \in 0 .. uart_str_count - 1 : uart_string'[i] = uart_string[i]
        BY <2>4, <3>2, <3>8, StoredChar
      <4>2. uart_str_count \in Nat
        BY LineSizes DEF MailInv, BoxInv
      <4>3. NoMarker => NoMarker'
        BY <3>2, <4>1, <4>2 DEF NoMarker
      <4>4. ASSUME NEW k \in Nat, Marked(k), wire[1] = sent[k + 1] PROVE Marked(k + 1)'
        BY <3>2, <4>1, <4>2, <4>4 DEF Marked
      <4>5. Progress(j)'
        <5>1. CASE NoMarker
          BY <3>6, <4>3, <5>1
        <5>2. CASE ~NoMarker
          <6>1. PICK k \in 0 .. Len(sent) - 1 :
                  /\ sent \in M!Commands /\ j = Len(sent) - (k + 1) /\ wire[1] = sent[k + 1]
                  /\ \A i \in 1 .. j : wire'[i] = sent[(k + 1) + i]
                  /\ Marked(k)
            BY <3>4, <5>2
          <6>2. Marked(k + 1)'
            BY <4>4, <6>1
          <6> QED BY <3>5, <6>1, <6>2
        <5> QED BY <5>1, <5>2
      <4>6. InText'
        BY <3>3, <4>5, TextNext
      <4> QED BY <3>2, <4>1, <4>6 DEF MailInv, M!Mail!vars, Box
    <3>9. CASE M!Accepts /\ ~M!Room
      <4>1. NoMarker
        <5> SUFFICES ASSUME ~NoMarker PROVE FALSE
          OBVIOUS
        <5>1. PICK k \in 0 .. Len(sent) - 1 : sent \in M!Commands /\ Marked(k)
          BY <3>4
        <5>2. PICK l \in Nat : l = Len(sent) /\ l <= MaxLine
          BY <5>1, CommandIs
        <5>3. uart_str_count = k + 1 /\ k + 1 <= l
          BY <5>1, <5>2 DEF Marked
        <5> QED BY <3>9, <5>2, <5>3, LineSizes DEF M!Room, MAX
      <4>2. BoxInv' /\ uart_str_count' = 0 /\ M!Mail!Next
        BY <2>4, <3>2, <3>9, <4>1, PlainCompleted
      <4>3. InText'
        BY <3>3, <3>6, <4>2, TextNext DEF NoMarker
      <4> QED BY <4>2, <4>3 DEF MailInv
    <3> QED BY <3>7, <3>8, <3>9
  <2> QED BY <2>5, <2>6
<1> QED BY <1>1, <1>2, <1>3 DEF MailInv

LEMMA MailStart == M!Init => MailInv /\ M!Mail!Init
<1> SUFFICES ASSUME M!Init PROVE MailInv /\ M!Mail!Init
  OBVIOUS
<1>1. /\ wire = << >> /\ uart_str_complete = 0 /\ uart_str_count = 0 /\ sent = M!Nothing
      /\ uart_string = [i \in 0 .. MAX - 1 |-> "NUL"]
  BY DEF M!Init, MAX
<1>2. BoxInv
  BY <1>1, LineSizes DEF BoxInv, Stored
<1>3. AtEnd
  BY <1>1 DEF AtEnd
<1>4. M!Mail!Init
  BY <1>1 DEF M!Mail!Init
<1> QED BY <1>2, <1>3, <1>4 DEF MailInv

LEMMA MailNext == MailInv /\ [M!Next]_(M!vars) => MailInv' /\ [M!Mail!Next]_(M!Mail!vars)
<1>1. ASSUME MailInv, UNCHANGED M!vars PROVE MailInv' /\ UNCHANGED M!Mail!vars
  <2>1. UNCHANGED <<wire, uart_str_complete, uart_str_count, uart_string, sent>>
    BY <1>1 DEF M!vars
  <2>2. MailInv'
    BY <1>1, <2>1 DEF MailInv, BoxInv, AtEnd, AtStart, InText, Rest, NoMarker, Marked, EndsAt
  <2>3. Box' = Box
    BY <2>1, BoxKept
  <2> QED BY <2>1, <2>2, <2>3 DEF M!Mail!vars, Box
<1> QED BY <1>1, SendsLine, SendsNoise, Receives, Serves DEF M!Next

(* Whatever the main loop obeys is a command sent as a whole, each sent
   command at most once: not a line begun while the last one was being served,
   not one cut by a stray end, not what is left of longer lines in the buffer,
   whatever the letters, the length of the lines and the size of the buffer. *)
THEOREM ObeysWholeCommands == M!Spec => ActsLikeMail
BY MailStart, MailNext, PTL DEF M!Spec, ActsLikeMail, M!ActsLikeMail, M!Mail!Spec

-----------------------------------------------------------------------------
(* The calendar.  A day is counted from its year, month and day. *)
Moments == [YY : 0 .. 255, MM : 1 .. 12, DD : 1 .. 31, hh : 0 .. 23, mm : 0 .. 59]

At(y, m, d, h, k) == [YY |-> y, MM |-> m, DD |-> d, hh |-> h, mm |-> k]

Number(y, m, d) ==
  365 * y + (y + 3) \div 4 + A!Before[m] + (IF m > 2 /\ y % 4 = 0 THEN 1 ELSE 0) + d - 1

Real(y, m, d) == y \in 0 .. 99 /\ m \in 1 .. 12 /\ d \in 1 .. A!MonthDays(m, y)

Unknown(y, m, d) == y = 0 /\ <<m, d>> \in {<<2, 28>>, <<2, 29>>, <<3, 1>>}

LEMMA MonthsBefore ==
  /\ A!Before[1] = 0 /\ A!Before[12] = 334
  /\ \A m \in 1 .. 12 : A!Before[m] \in Nat /\ A!Before[m] <= 334
  /\ A!Before[2] = 31 /\ A!Before[3] = 59
  /\ \A m \in 4 .. 12 : A!Before[m] >= 90
  /\ \A m \in 1 .. 10 : A!Before[m] <= 273
  /\ \A m \in 1 .. 11 : A!Before[m + 1] = A!Before[m] + A!CommonDays(m)
<1>1. A!Before \in [1 .. 12 -> Nat]
  BY DEF A!Before
<1>2. /\ A!Before[1] = 0 /\ A!Before[2] = 31 /\ A!Before[3] = 59 /\ A!Before[4] = 90
      /\ A!Before[5] = 120 /\ A!Before[6] = 151 /\ A!Before[7] = 181 /\ A!Before[8] = 212
      /\ A!Before[9] = 243 /\ A!Before[10] = 273 /\ A!Before[11] = 304 /\ A!Before[12] = 334
  BY DEF A!Before
<1>3. ASSUME NEW m \in 1 .. 11
      PROVE  A!Before[m + 1] = A!Before[m] + A!CommonDays(m)
  <2>1. m \in {1, 2, 3, 4, 5, 6, 7, 8, 9, 10, 11}
    BY <1>3
  <2> QED BY <1>2, <2>1 DEF A!CommonDays
<1>4. ASSUME NEW m \in 1 .. 12
      PROVE  A!Before[m] <= 334 /\ (m >= 4 => A!Before[m] >= 90) /\ (m <= 10 => A!Before[m] <= 273)
  <2>1. m \in {1, 2, 3, 4, 5, 6, 7, 8, 9, 10, 11, 12}
    BY <1>4
  <2> QED BY <1>2, <2>1
<1> QED BY <1>1, <1>2, <1>3, <1>4

LEMMA Quarters ==
  ASSUME NEW y \in Nat
  PROVE  (y + 1 + 3) \div 4 = (y + 3) \div 4 + (IF y % 4 = 0 THEN 1 ELSE 0)
BY SMT

LEMMA Chip ==
  ASSUME NEW i \in 0 .. 255
  PROVE  /\ A!bcdtoi(A!itobcd(i)) \in 0 .. 255
         /\ i <= 100 => A!bcdtoi(A!itobcd(i)) = i
<1>1. PICK q : q = (i * 205) \div 2048
  OBVIOUS
<1>2. q \in 0 .. 25 /\ i - 10 * q \in -1 .. 10 /\ (i <= 100 => i - 10 * q \in 0 .. 9 /\ q \in 0 .. 10)
  BY <1>1, SMT
<1>3. A!itobcd(i) = ((q * 16) % 256) + (i - 10 * q)
  BY <1>1 DEF A!itobcd
<1> QED BY <1>2, <1>3, SMT DEF A!bcdtoi

LEMMA Months ==
  ASSUME NEW m \in Int, NEW y \in Int
  PROVE  /\ A!CommonDays(m) \in 28 .. 31 /\ A!MonthDays(m, y) \in 28 .. 31
         /\ A!DaysIn(m, y) \in 28 .. 31
         /\ y \in 0 .. 99 /\ ~(y = 0 /\ m = 2) => A!DaysIn(m, y) = A!MonthDays(m, y)
         /\ A!DaysIn(0, y) = 31 /\ A!MonthDays(12, y) = 31 /\ A!MonthDays(1, y) = 31
<1>1. A!CommonDays(m) \in 28 .. 31 /\ A!CommonDays(0) = 31 /\ A!CommonDays(12) = 31 /\ A!CommonDays(1) = 31
  BY DEF A!CommonDays
<1>2. y \in 0 .. 99 /\ y # 0 => y % 100 # 0
  OBVIOUS
<1> QED BY <1>1, <1>2 DEF A!MonthDays, A!DaysIn, A!LeapYear

(* The day after: the first of the next month, or of the next year. *)
LEMMA NextMonth ==
  ASSUME NEW y \in 0 .. 99, NEW m \in 1 .. 11
  PROVE  Number(y, m + 1, 1) = Number(y, m, A!MonthDays(m, y)) + 1
<1>1. /\ A!Before[m] \in Nat /\ A!Before[m + 1] = A!Before[m] + A!CommonDays(m)
      /\ A!CommonDays(m) \in 28 .. 31
  BY MonthsBefore, Months
<1>2. PICK leap \in {0, 1} : leap = IF y % 4 = 0 THEN 1 ELSE 0
  OBVIOUS
<1>3. A!MonthDays(m, y) = A!CommonDays(m) + IF m = 2 THEN leap ELSE 0
  BY <1>1, <1>2 DEF A!MonthDays, A!CommonDays, A!LeapYear
<1>4. PICK q \in Int : q = 365 * y + (y + 3) \div 4
  OBVIOUS
<1>5. /\ Number(y, m, A!MonthDays(m, y))
           = q + A!Before[m] + (IF m > 2 THEN leap ELSE 0) + A!MonthDays(m, y) - 1
      /\ Number(y, m + 1, 1) = q + A!Before[m + 1] + (IF m + 1 > 2 THEN leap ELSE 0) + 1 - 1
  BY <1>2, <1>4 DEF Number
<1> QED BY <1>1, <1>3, <1>5

LEMMA NextYear ==
  ASSUME NEW y \in 0 .. 99
  PROVE  Number(y + 1, 1, 1) = Number(y, 12, 31) + 1
BY MonthsBefore, Quarters DEF Number

LEMMA NumberAt ==
  ASSUME NEW y \in 0 .. 255, NEW m \in 1 .. 12, NEW d \in 1 .. 31, NEW h \in 0 .. 23, NEW k \in 0 .. 59
  PROVE  /\ Number(y, m, d) \in Int
         /\ A!DayNumber(At(y, m, d, h, k)) = Number(y, m, d)
         /\ A!HourNumber(At(y, m, d, h, k)) = 24 * Number(y, m, d) + h
         /\ A!MinuteNumber(At(y, m, d, h, k)) = 60 * (24 * Number(y, m, d) + h) + k
         /\ A!Exists(At(y, m, d, h, k)) <=> Real(y, m, d)
         /\ A!AroundLeapDay2000(At(y, m, d, h, k)) <=> Unknown(y, m, d)
         /\ At(y, m, d, h, k) \in Moments
<1>1. Number(y, m, d) \in Int
  BY MonthsBefore DEF Number
<1>2. A!DayNumber(At(y, m, d, h, k)) = Number(y, m, d)
  BY DEF At, A!DayNumber, Number, A!LeapYear
<1>3. At(y, m, d, h, k).hh = h /\ At(y, m, d, h, k).mm = k
  BY DEF At
<1>4. /\ A!Exists(At(y, m, d, h, k)) <=> Real(y, m, d)
      /\ A!AroundLeapDay2000(At(y, m, d, h, k)) <=> Unknown(y, m, d)
      /\ At(y, m, d, h, k) \in Moments
  BY DEF At, A!Exists, Real, A!AroundLeapDay2000, Unknown, Moments
<1> QED BY <1>1, <1>2, <1>3, <1>4 DEF A!HourNumber, A!MinuteNumber

LEMMA YearsWrap ==
  /\ \A y \in 0 .. 254 : (y + 1) % 256 = y + 1
  /\ \A y \in 1 .. 255 : (y - 1) % 256 = y - 1
  /\ \A y \in Int : y > -1 /\ y < 1 => (y - 1) % 256 = 255
  /\ \A y \in Int : y % 256 \in 0 .. 255
BY SMT

LEMMA YearSteps ==
  ASSUME NEW y \in Int, NEW m, NEW d, NEW h, NEW k
  PROVE  /\ A!add_year(At(y, m, d, h, k)) = At((y + 1) % 256, m, d, h, k)
         /\ A!sub_year(At(y, m, d, h, k)) = At((y - 1) % 256, m, d, h, k)
BY DEF A!add_year, A!sub_year, At

\* Adding may end on the first day after the century.
Reached(y, m, d) == Real(y, m, d) \/ (y = 100 /\ m = 1 /\ d = 1)

\* t is the day of number n, at the time of the day h : k.
IsDay(t, h, k, n) ==
  \E y \in 0 .. 255 : \E m \in 1 .. 12 : \E d \in 1 .. 31 :
    t = At(y, m, d, h, k) /\ Number(y, m, d) = n /\ Reached(y, m, d)

LEMMA DayIs ==
  ASSUME NEW y \in 0 .. 255, NEW m \in 1 .. 12, NEW d \in 1 .. 31,
         Reached(y, m, d), NEW h, NEW k
  PROVE  IsDay(At(y, m, d, h, k), h, k, Number(y, m, d))
BY DEF IsDay

LEMMA DayAdded ==
  ASSUME NEW y, NEW m, NEW d, Real(y, m, d), ~Unknown(y, m, d), NEW h, NEW k
  PROVE  IsDay(A!add_day(At(y, m, d, h, k)), h, k, Number(y, m, d) + 1)
<1>1. y \in 0 .. 99 /\ m \in 1 .. 12 /\ d \in 1 .. A!MonthDays(m, y)
  BY DEF Real
<1>2. /\ A!MonthDays(m, y) \in 28 .. 31 /\ A!DaysIn(m, y) \in 28 .. 31 /\ A!Before[m] \in Nat
      /\ ~(y = 0 /\ m = 2) => A!DaysIn(m, y) = A!MonthDays(m, y)
      /\ y = 0 /\ m = 2 => A!DaysIn(m, y) = 28 /\ A!MonthDays(m, y) = 29
  BY <1>1, Months, MonthsBefore DEF A!DaysIn, A!MonthDays, A!CommonDays, A!LeapYear
<1>3. d + 1 <= A!DaysIn(m, y) <=> d < A!MonthDays(m, y)
  <2>1. CASE y = 0 /\ m = 2
    <3>1. d # 28 /\ d # 29
      BY <2>1 DEF Unknown
    <3> QED BY <1>1, <1>2, <2>1, <3>1
  <2> QED BY <1>1, <1>2, <2>1
<1>4. A!add_day(At(y, m, d, h, k)) = IF d < A!MonthDays(m, y) THEN At(y, m, d + 1, h, k)
                                     ELSE A!add_month(At(y, m, 1, h, k))
  BY <1>3 DEF A!add_day, At
<1>5. CASE d < A!MonthDays(m, y)
  <2>1. Number(y, m, d) + 1 = Number(y, m, d + 1)
    BY <1>1, <1>2 DEF Number
  <2>2. Reached(y, m, d + 1) /\ d + 1 \in 1 .. 31 /\ y \in 0 .. 255 /\ m \in 1 .. 12
    BY <1>1, <1>2, <1>5 DEF Reached, Real
  <2>3. A!add_day(At(y, m, d, h, k)) = At(y, m, d + 1, h, k)
    BY <1>4, <1>5
  <2>4. IsDay(At(y, m, d + 1, h, k), h, k, Number(y, m, d + 1))
    BY <2>2, DayIs, Zenon
  <2> QED BY <2>1, <2>3, <2>4
<1>6. CASE d = A!MonthDays(m, y) /\ m < 12
  <2>1. A!add_month(At(y, m, 1, h, k)) = At(y, m + 1, 1, h, k)
    BY <1>6 DEF A!add_month, At
  <2>2. m \in 1 .. 11 /\ m + 1 \in 1 .. 12 /\ y \in 0 .. 255
    BY <1>1, <1>6
  <2>3. Reached(y, m + 1, 1)
    <3>1. A!MonthDays(m + 1, y) \in 28 .. 31
      BY <1>1, <2>2, Months
    <3> QED BY <1>1, <2>2, <3>1 DEF Reached, Real
  <2>4. Number(y, m, d) + 1 = Number(y, m + 1, 1)
    BY <1>1, <1>6, <2>2, NextMonth
  <2>5. A!add_day(At(y, m, d, h, k)) = At(y, m + 1, 1, h, k)
    BY <1>1, <1>2, <1>4, <1>6, <2>1
  <2>6. 1 \in 1 .. 31
    OBVIOUS
  <2>7. IsDay(At(y, m + 1, 1, h, k), h, k, Number(y, m + 1, 1))
    BY <2>2, <2>3, <2>6, DayIs, Zenon
  <2> QED BY <2>4, <2>5, <2>7
<1>7. CASE d = A!MonthDays(m, y) /\ m = 12
  <2>1. A!add_month(At(y, m, 1, h, k)) = At((y + 1) % 256, 1, 1, h, k)
    <3>1. A!add_month(At(y, m, 1, h, k)) = A!add_year(At(y, 1, 1, h, k))
      BY <1>7 DEF A!add_month, At
    <3> QED BY <1>1, <3>1, YearSteps
  <2>2. (y + 1) % 256 = y + 1 /\ y + 1 \in 1 .. 100 /\ d = 31
    BY <1>1, <1>7, Months
  <2>3. Reached(y + 1, 1, 1)
    <3>1. A!MonthDays(1, y + 1) = 31
      BY <1>1, Months
    <3> QED BY <2>2, <3>1 DEF Reached, Real
  <2>4. Number(y + 1, 1, 1) = Number(y, m, d) + 1
    BY <1>1, <1>7, <2>2, NextYear
  <2>5. A!add_day(At(y, m, d, h, k)) = At(y + 1, 1, 1, h, k)
    BY <1>1, <1>2, <1>4, <1>7, <2>1, <2>2
  <2>6. y + 1 \in 0 .. 255 /\ 1 \in 1 .. 12 /\ 1 \in 1 .. 31
    BY <2>2
  <2>7. IsDay(At(y + 1, 1, 1, h, k), h, k, Number(y + 1, 1, 1))
    BY <1>1, <2>3, <2>6, DayIs, Zenon
  <2> QED BY <2>4, <2>5, <2>7
<1> QED BY <1>1, <1>2, <1>5, <1>6, <1>7

LEMMA DayTaken ==
  ASSUME NEW y, NEW m, NEW d, Real(y, m, d), ~Unknown(y, m, d), NEW h, NEW k
  PROVE  \/ IsDay(A!sub_day(At(y, m, d, h, k)), h, k, Number(y, m, d) - 1)
         \/ /\ y = 0 /\ Number(y, m, d) = 0
            /\ A!sub_day(At(y, m, d, h, k)) = At(255, 12, 31, h, k)
<1>1. y \in 0 .. 99 /\ m \in 1 .. 12 /\ d \in 1 .. A!MonthDays(m, y)
  BY DEF Real
<1>2. /\ A!MonthDays(m, y) \in 28 .. 31 /\ A!Before[m] \in Nat
  BY <1>1, Months, MonthsBefore
<1>3. m - 1 \in Int /\ A!DaysIn(m - 1, y) \in 28 .. 31 /\ A!DaysIn(0, y) = 31
  BY <1>1, Months
<1>4. A!sub_day(At(y, m, d, h, k)) = IF d > 1 THEN At(y, m, d - 1, h, k)
                                     ELSE A!sub_month(At(y, m, A!DaysIn(m - 1, y), h, k))
  BY DEF A!sub_day, At
<1>5. CASE d > 1
  <2>1. Number(y, m, d) - 1 = Number(y, m, d - 1)
    BY <1>1, <1>2 DEF Number
  <2>2. Reached(y, m, d - 1) /\ d - 1 \in 1 .. 31 /\ y \in 0 .. 255 /\ m \in 1 .. 12
    BY <1>1, <1>2, <1>5 DEF Reached, Real
  <2>3. A!sub_day(At(y, m, d, h, k)) = At(y, m, d - 1, h, k)
    BY <1>4, <1>5
  <2>4. IsDay(At(y, m, d - 1, h, k), h, k, Number(y, m, d - 1))
    BY <2>2, DayIs, Zenon
  <2> QED BY <2>1, <2>3, <2>4
<1>6. CASE d = 1 /\ m > 1
  <2> DEFINE e == A!DaysIn(m - 1, y)
  <2>1. A!sub_month(At(y, m, e, h, k)) = At(y, m - 1, e, h, k)
    BY <1>6 DEF A!sub_month, At
  <2>2. m - 1 \in 1 .. 11 /\ m - 1 \in 1 .. 12 /\ e \in 1 .. 31
    BY <1>1, <1>3, <1>6
  <2>3. e = A!MonthDays(m - 1, y)
    <3>1. ~(y = 0 /\ m - 1 = 2)
      BY <1>1, <1>6 DEF Unknown
    <3> QED BY <1>1, <1>3, <3>1, Months
  <2>4. Reached(y, m - 1, e)
    BY <1>1, <2>2, <2>3 DEF Reached, Real
  <2>5. Number(y, m, d) = Number(y, m - 1, e) + 1
    <3>1. Number(y, (m - 1) + 1, 1) = Number(y, m - 1, A!MonthDays(m - 1, y)) + 1
      BY <1>1, <2>2, NextMonth
    <3>2. (m - 1) + 1 = m
      BY <1>1
    <3> QED BY <1>6, <2>3, <3>1, <3>2
  <2>6. Number(y, m - 1, e) \in Int
    BY <1>1, <2>2, MonthsBefore DEF Number
  <2>7. Number(y, m, d) - 1 = Number(y, m - 1, e)
    BY <2>5, <2>6
  <2>8. A!sub_day(At(y, m, d, h, k)) = At(y, m - 1, e, h, k) /\ y \in 0 .. 255
    BY <1>1, <1>4, <1>6, <2>1
  <2> HIDE DEF e
  <2>9. IsDay(At(y, m - 1, e, h, k), h, k, Number(y, m - 1, e))
    BY <2>2, <2>4, <2>8, DayIs, Zenon
  <2> QED BY <2>7, <2>8, <2>9
<1>7. CASE d = 1 /\ m = 1
  <2>1. A!sub_month(At(y, m, 31, h, k)) = At((y - 1) % 256, 12, 31, h, k)
    <3>1. A!sub_month(At(y, m, 31, h, k)) = A!sub_year(At(y, 12, 31, h, k))
      BY <1>7 DEF A!sub_month, At
    <3> QED BY <1>1, <3>1, YearSteps
  <2>2. A!sub_day(At(y, m, d, h, k)) = At((y - 1) % 256, 12, 31, h, k)
    <3>1. m - 1 = 0
      BY <1>7
    <3> QED BY <1>3, <1>4, <1>7, <2>1, <3>1
  <2>3. CASE y = 0
    <3>1. (y - 1) % 256 = 255
      <4>1. y \in Int /\ y > -1 /\ y < 1
        BY <2>3
      <4> QED BY <4>1, YearsWrap
    <3>2. Number(y, m, d) = 0
      BY <1>7, <2>3, MonthsBefore DEF Number
    <3>4. A!sub_day(At(y, m, d, h, k)) = At(255, 12, 31, h, k)
      BY <2>2, <3>1
    <3> QED BY <2>3, <3>2, <3>4
  <2>4. CASE y > 0
    <3>1. (y - 1) % 256 = y - 1 /\ y - 1 \in 0 .. 99
      BY <1>1, <2>4
    <3>2. Number((y - 1) + 1, 1, 1) = Number(y - 1, 12, 31) + 1
      BY <3>1, NextYear
    <3>3. (y - 1) + 1 = y /\ Number(y - 1, 12, 31) \in Int
      BY <1>1, <3>1, MonthsBefore DEF Number
    <3>4. Number(y, m, d) - 1 = Number(y - 1, 12, 31)
      BY <1>7, <3>2, <3>3
    <3>5. Reached(y - 1, 12, 31)
      BY <1>1, <3>1, Months DEF Reached, Real
    <3>6. A!sub_day(At(y, m, d, h, k)) = At(y - 1, 12, 31, h, k)
      BY <2>2, <3>1
    <3>7. y - 1 \in 0 .. 255 /\ 12 \in 1 .. 12 /\ 31 \in 1 .. 31
      BY <3>1
    <3>8. IsDay(At(y - 1, 12, 31, h, k), h, k, Number(y - 1, 12, 31))
      BY <3>5, <3>7, DayIs, Zenon
    <3> QED BY <3>4, <3>6, <3>8
  <2> QED BY <1>1, <2>3, <2>4
<1> QED BY <1>1, <1>2, <1>5, <1>6, <1>7

Minute(y, m, d, h, k) == 60 * (24 * Number(y, m, d) + h) + k

\* t is the minute of number n.
IsMinute(t, n) ==
  \E y \in 0 .. 255 : \E m \in 1 .. 12 : \E d \in 1 .. 31 : \E h \in 0 .. 23 : \E k \in 0 .. 59 :
    t = At(y, m, d, h, k) /\ Minute(y, m, d, h, k) = n /\ Reached(y, m, d)

LEMMA NumberIsInt ==
  ASSUME NEW y \in Int, NEW m \in 1 .. 12, NEW d \in Int
  PROVE  Number(y, m, d) \in Int
BY MonthsBefore DEF Number

LEMMA RealDay ==
  ASSUME NEW y, NEW m, NEW d, Real(y, m, d)
  PROVE  /\ y \in 0 .. 255 /\ m \in 1 .. 12 /\ d \in 1 .. 31
         /\ Reached(y, m, d) /\ Number(y, m, d) \in Int
<1>1. y \in 0 .. 99 /\ m \in 1 .. 12 /\ d \in 1 .. A!MonthDays(m, y)
  BY DEF Real
<1>2. A!MonthDays(m, y) \in 28 .. 31
  BY <1>1, Months
<1>3. y \in Int /\ d \in Int
  BY <1>1, <1>2
<1>4. Number(y, m, d) \in Int
  BY <1>1, <1>3, NumberIsInt, Zenon
<1> QED BY <1>1, <1>2, <1>4 DEF Reached

LEMMA MinuteIs ==
  ASSUME NEW y \in 0 .. 255, NEW m \in 1 .. 12, NEW d \in 1 .. 31, Reached(y, m, d),
         NEW h \in 0 .. 23, NEW k \in 0 .. 59
  PROVE  IsMinute(At(y, m, d, h, k), Minute(y, m, d, h, k))
BY DEF IsMinute

LEMMA MinuteOfDay ==
  ASSUME NEW t, NEW h \in 0 .. 23, NEW k \in 0 .. 59, NEW n \in Int, IsDay(t, h, k, n)
  PROVE  IsMinute(t, 60 * (24 * n + h) + k)
<1>1. PICK y \in 0 .. 255, m \in 1 .. 12, d \in 1 .. 31 :
        t = At(y, m, d, h, k) /\ Number(y, m, d) = n /\ Reached(y, m, d)
  BY DEF IsDay
<1>2. IsMinute(At(y, m, d, h, k), Minute(y, m, d, h, k))
  BY <1>1, MinuteIs
<1> QED BY <1>1, <1>2 DEF Minute

LEMMA HourAdded ==
  ASSUME NEW y, NEW m, NEW d, Real(y, m, d), ~Unknown(y, m, d), NEW h \in 0 .. 23, NEW k \in 0 .. 59
  PROVE  IsMinute(A!add_hour(At(y, m, d, h, k)), Minute(y, m, d, h, k) + 60)
<1>1. y \in 0 .. 255 /\ m \in 1 .. 12 /\ d \in 1 .. 31 /\ Reached(y, m, d) /\ Number(y, m, d) \in Int
  BY RealDay
<1>2. CASE h < 23
  <2>1. A!add_hour(At(y, m, d, h, k)) = At(y, m, d, h + 1, k) /\ h + 1 \in 0 .. 23
    BY <1>2 DEF A!add_hour, At
  <2>2. Minute(y, m, d, h, k) + 60 = Minute(y, m, d, h + 1, k)
    BY <1>1 DEF Minute
  <2>3. IsMinute(At(y, m, d, h + 1, k), Minute(y, m, d, h + 1, k))
    BY <1>1, <2>1, MinuteIs, Zenon
  <2> QED BY <2>1, <2>2, <2>3
<1>3. CASE h = 23
  <2>1. A!add_hour(At(y, m, d, h, k)) = A!add_day(At(y, m, d, 0, k))
    BY <1>3 DEF A!add_hour, At
  <2>2. IsDay(A!add_day(At(y, m, d, 0, k)), 0, k, Number(y, m, d) + 1)
    BY DayAdded
  <2>3. IsMinute(A!add_day(At(y, m, d, 0, k)), 60 * (24 * (Number(y, m, d) + 1) + 0) + k)
    <3>1. 0 \in 0 .. 23 /\ k \in 0 .. 59 /\ Number(y, m, d) + 1 \in Int
      BY <1>1
    <3> QED BY <2>2, <3>1, MinuteOfDay, Zenon
  <2>4. Minute(y, m, d, h, k) + 60 = 60 * (24 * (Number(y, m, d) + 1) + 0) + k
    BY <1>1, <1>3 DEF Minute
  <2> QED BY <2>1, <2>3, <2>4
<1> QED BY <1>2, <1>3

LEMMA HourTaken ==
  ASSUME NEW y, NEW m, NEW d, Real(y, m, d), ~Unknown(y, m, d), NEW h \in 0 .. 23, NEW k \in 0 .. 59
  PROVE  \/ IsMinute(A!sub_hour(At(y, m, d, h, k)), Minute(y, m, d, h, k) - 60)
         \/ Minute(y, m, d, h, k) < 60 /\ y = 0 /\ h = 0
<1>1. y \in 0 .. 255 /\ m \in 1 .. 12 /\ d \in 1 .. 31 /\ Reached(y, m, d) /\ Number(y, m, d) \in Int
  BY RealDay
<1>2. CASE h > 0
  <2>1. A!sub_hour(At(y, m, d, h, k)) = At(y, m, d, h - 1, k) /\ h - 1 \in 0 .. 23
    BY <1>2 DEF A!sub_hour, At
  <2>2. Minute(y, m, d, h, k) - 60 = Minute(y, m, d, h - 1, k)
    BY <1>1 DEF Minute
  <2>3. IsMinute(At(y, m, d, h - 1, k), Minute(y, m, d, h - 1, k))
    BY <1>1, <2>1, MinuteIs, Zenon
  <2> QED BY <2>1, <2>2, <2>3
<1>3. CASE h = 0
  <2>1. A!sub_hour(At(y, m, d, h, k)) = A!sub_day(At(y, m, d, 23, k))
    BY <1>3 DEF A!sub_hour, At
  <2>2. CASE IsDay(A!sub_day(At(y, m, d, 23, k)), 23, k, Number(y, m, d) - 1)
    <3>1. IsMinute(A!sub_day(At(y, m, d, 23, k)), 60 * (24 * (Number(y, m, d) - 1) + 23) + k)
      <4>1. 23 \in 0 .. 23 /\ k \in 0 .. 59 /\ Number(y, m, d) - 1 \in Int
        BY <1>1
      <4> QED BY <2>2, <4>1, MinuteOfDay, Zenon
    <3>2. Minute(y, m, d, h, k) - 60 = 60 * (24 * (Number(y, m, d) - 1) + 23) + k
      BY <1>1, <1>3 DEF Minute
    <3> QED BY <2>1, <3>1, <3>2
  <2>3. CASE y = 0 /\ Number(y, m, d) = 0
    BY <1>3, <2>3 DEF Minute
  <2> QED BY <2>2, <2>3, DayTaken
<1> QED BY <1>2, <1>3

LEMMA MinuteAdded ==
  ASSUME NEW y, NEW m, NEW d, Real(y, m, d), ~Unknown(y, m, d), NEW h \in 0 .. 23, NEW k \in 0 .. 59
  PROVE  IsMinute(A!add_minute(At(y, m, d, h, k)), Minute(y, m, d, h, k) + 1)
<1>1. y \in 0 .. 255 /\ m \in 1 .. 12 /\ d \in 1 .. 31 /\ Reached(y, m, d) /\ Number(y, m, d) \in Int
  BY RealDay
<1>2. CASE k < 59
  <2>1. A!add_minute(At(y, m, d, h, k)) = At(y, m, d, h, k + 1) /\ k + 1 \in 0 .. 59
    BY <1>2 DEF A!add_minute, At
  <2>2. Minute(y, m, d, h, k) + 1 = Minute(y, m, d, h, k + 1)
    BY <1>1 DEF Minute
  <2>3. IsMinute(At(y, m, d, h, k + 1), Minute(y, m, d, h, k + 1))
    BY <1>1, <2>1, MinuteIs, Zenon
  <2> QED BY <2>1, <2>2, <2>3
<1>3. CASE k = 59
  <2>1. A!add_minute(At(y, m, d, h, k)) = A!add_hour(At(y, m, d, h, 0))
    BY <1>3 DEF A!add_minute, At
  <2>2. IsMinute(A!add_hour(At(y, m, d, h, 0)), Minute(y, m, d, h, 0) + 60)
    <3>1. 0 \in 0 .. 59
      OBVIOUS
    <3> QED BY <3>1, HourAdded, Zenon
  <2>3. Minute(y, m, d, h, k) + 1 = Minute(y, m, d, h, 0) + 60
    BY <1>1, <1>3 DEF Minute
  <2> QED BY <2>1, <2>2, <2>3
<1> QED BY <1>2, <1>3

LEMMA MinuteTaken ==
  ASSUME NEW y, NEW m, NEW d, Real(y, m, d), ~Unknown(y, m, d), NEW h \in 0 .. 23, NEW k \in 0 .. 59
  PROVE  \/ IsMinute(A!sub_minute(At(y, m, d, h, k)), Minute(y, m, d, h, k) - 1)
         \/ Minute(y, m, d, h, k) < 1 /\ y = 0
<1>1. y \in 0 .. 255 /\ m \in 1 .. 12 /\ d \in 1 .. 31 /\ Reached(y, m, d) /\ Number(y, m, d) \in Int
  BY RealDay
<1>2. CASE k > 0
  <2>1. A!sub_minute(At(y, m, d, h, k)) = At(y, m, d, h, k - 1) /\ k - 1 \in 0 .. 59
    BY <1>2 DEF A!sub_minute, At
  <2>2. Minute(y, m, d, h, k) - 1 = Minute(y, m, d, h, k - 1)
    BY <1>1 DEF Minute
  <2>3. IsMinute(At(y, m, d, h, k - 1), Minute(y, m, d, h, k - 1))
    BY <1>1, <2>1, MinuteIs, Zenon
  <2> QED BY <2>1, <2>2, <2>3
<1>3. CASE k = 0
  <2>1. A!sub_minute(At(y, m, d, h, k)) = A!sub_hour(At(y, m, d, h, 59))
    BY <1>3 DEF A!sub_minute, At
  <2>2. CASE IsMinute(A!sub_hour(At(y, m, d, h, 59)), Minute(y, m, d, h, 59) - 60)
    <3>1. Minute(y, m, d, h, k) - 1 = Minute(y, m, d, h, 59) - 60
      BY <1>1, <1>3 DEF Minute
    <3> QED BY <2>1, <2>2, <3>1
  <2>3. CASE Minute(y, m, d, h, 59) < 60 /\ y = 0 /\ h = 0
    BY <1>1, <1>3, <2>3 DEF Minute
  <2>4. 59 \in 0 .. 59
    OBVIOUS
  <2>5. \/ IsMinute(A!sub_hour(At(y, m, d, h, 59)), Minute(y, m, d, h, 59) - 60)
        \/ Minute(y, m, d, h, 59) < 60 /\ y = 0 /\ h = 0
    BY <2>4, HourTaken, Zenon
  <2> QED BY <2>2, <2>3, <2>5
<1> QED BY <1>2, <1>3

LEMMA StepExact ==
  ASSUME NEW y, NEW m, NEW d, Real(y, m, d), ~Unknown(y, m, d), NEW h \in 0 .. 23, NEW k \in 0 .. 59,
         NEW step \in A!StepNames, A!Minutes(step) # 0
  PROVE  \/ IsMinute(A!Stepped(step, At(y, m, d, h, k)), Minute(y, m, d, h, k) + A!Minutes(step))
         \/ Minute(y, m, d, h, k) + A!Minutes(step) < 0
<1> DEFINE t == At(y, m, d, h, k)
           n == Minute(y, m, d, h, k)
<1>1. Number(y, m, d) \in Int /\ n \in Int /\ n = 60 * (24 * Number(y, m, d) + h) + k
  BY RealDay DEF Minute
<1>2. CASE step = "m+"
  <2>1. A!Stepped(step, t) = A!add_minute(t) /\ n + A!Minutes(step) = n + 1
    BY <1>2 DEF A!Stepped, A!Minutes
  <2> QED BY <2>1, MinuteAdded
<1>3. CASE step = "m-"
  <2>1. A!Stepped(step, t) = A!sub_minute(t) /\ A!Minutes(step) = -1
    BY <1>3 DEF A!Stepped, A!Minutes
  <2>2. IsMinute(A!sub_minute(t), n - 1) \/ n < 1
    BY MinuteTaken
  <2> HIDE DEF n
  <2>3. n + A!Minutes(step) = n - 1 /\ (n < 1 => n + A!Minutes(step) < 0)
    BY <1>1, <2>1
  <2> QED BY <2>1, <2>2, <2>3 DEF n
<1>4. CASE step = "h+"
  <2>1. A!Stepped(step, t) = A!add_hour(t) /\ n + A!Minutes(step) = n + 60
    BY <1>4 DEF A!Stepped, A!Minutes
  <2> QED BY <2>1, HourAdded
<1>5. CASE step = "h-"
  <2>1. A!Stepped(step, t) = A!sub_hour(t) /\ A!Minutes(step) = -60
    BY <1>5 DEF A!Stepped, A!Minutes
  <2>2. IsMinute(A!sub_hour(t), n - 60) \/ n < 60
    BY HourTaken
  <2> HIDE DEF n
  <2>3. n + A!Minutes(step) = n - 60 /\ (n < 60 => n + A!Minutes(step) < 0)
    BY <1>1, <2>1
  <2> QED BY <2>1, <2>2, <2>3 DEF n
<1>6. CASE step = "D+"
  <2>1. A!Stepped(step, t) = A!add_day(t) /\ A!Minutes(step) = 1440
    BY <1>6 DEF A!Stepped, A!Minutes
  <2>2. IsDay(A!add_day(t), h, k, Number(y, m, d) + 1) /\ Number(y, m, d) + 1 \in Int
    BY <1>1, DayAdded
  <2>3. IsMinute(A!add_day(t), 60 * (24 * (Number(y, m, d) + 1) + h) + k)
    <3> HIDE DEF t
    <3> QED BY <2>2, MinuteOfDay, Zenon
  <2>4. n + A!Minutes(step) = 60 * (24 * (Number(y, m, d) + 1) + h) + k
    <3> HIDE DEF n
    <3> QED BY <1>1, <2>1
  <2> QED BY <2>1, <2>3, <2>4
<1>7. CASE step = "D-"
  <2>1. A!Stepped(step, t) = A!sub_day(t) /\ A!Minutes(step) = -1440
    BY <1>7 DEF A!Stepped, A!Minutes
  <2>2. CASE IsDay(A!sub_day(t), h, k, Number(y, m, d) - 1)
    <3>1. Number(y, m, d) - 1 \in Int
      BY <1>1
    <3>2. IsMinute(A!sub_day(t), 60 * (24 * (Number(y, m, d) - 1) + h) + k)
      <4> HIDE DEF t
      <4> QED BY <2>2, <3>1, MinuteOfDay, Zenon
    <3>3. n + A!Minutes(step) = 60 * (24 * (Number(y, m, d) - 1) + h) + k
      <4> HIDE DEF n
      <4> QED BY <1>1, <2>1
    <3> QED BY <2>1, <3>2, <3>3
  <2>3. CASE Number(y, m, d) = 0
    <3> HIDE DEF n
    <3>1. n + A!Minutes(step) < 0
      BY <1>1, <2>1, <2>3
    <3> QED BY <3>1 DEF n
  <2> QED BY <2>2, <2>3, DayTaken
<1> QED BY <1>2, <1>3, <1>4, <1>5, <1>6, <1>7 DEF A!StepNames, A!Minutes

(* What comes back from the chip. *)
LEMMA StoredAt ==
  ASSUME NEW y \in 0 .. 255, NEW m \in 1 .. 12, NEW d \in 1 .. 31, NEW h \in 0 .. 23, NEW k \in 0 .. 59
  PROVE  /\ A!Stored(At(y, m, d, h, k)) = At(A!bcdtoi(A!itobcd(y)), m, d, h, k)
         /\ A!Stored(At(y, m, d, h, k)) \in Moments
         /\ y <= 100 => A!Stored(At(y, m, d, h, k)) = At(y, m, d, h, k)
<1> DEFINE c(i) == A!bcdtoi(A!itobcd(i))
<1>1. c(m) = m /\ c(d) = d /\ c(h) = h /\ c(k) = k /\ c(y) \in 0 .. 255 /\ (y <= 100 => c(y) = y)
  <2>1. \A i \in 0 .. 255 : c(i) \in 0 .. 255 /\ (i <= 100 => c(i) = i)
    BY Chip
  <2> HIDE DEF c
  <2>2. /\ m \in 0 .. 255 /\ d \in 0 .. 255 /\ h \in 0 .. 255 /\ k \in 0 .. 255
        /\ m <= 100 /\ d <= 100 /\ h <= 100 /\ k <= 100
    OBVIOUS
  <2> QED BY <2>1, <2>2, Zenon
<1>2. A!Stored(At(y, m, d, h, k)) = At(c(y), c(m), c(d), c(h), c(k))
  <2> HIDE DEF c
  <2>1. A!Stored(At(y, m, d, h, k)) = [f \in {"YY", "MM", "DD", "hh", "mm"} |-> c(At(y, m, d, h, k)[f])]
    BY DEF A!Stored, At, c
  <2> QED BY <2>1 DEF At
<1> HIDE DEF c
<1>3. At(c(y), m, d, h, k) \in Moments
  BY <1>1 DEF At, Moments
<1> QED BY <1>1, <1>2, <1>3 DEF c

LEMMA StoredMinute ==
  ASSUME NEW t, NEW n, IsMinute(t, n)
  PROVE  A!Stored(t) = t
<1>1. PICK y \in 0 .. 255, m \in 1 .. 12, d \in 1 .. 31, h \in 0 .. 23, k \in 0 .. 59 :
        t = At(y, m, d, h, k) /\ Reached(y, m, d)
  BY DEF IsMinute
<1>2. y <= 100
  BY <1>1 DEF Reached, Real
<1> QED BY <1>1, <1>2, StoredAt

(* Within the century a minute is a day that exists. *)
Century == 60 * (24 * 36525)

LEMMA MinuteExists ==
  ASSUME NEW t, NEW n \in Int, n < Century, IsMinute(t, n)
  PROVE  A!MinuteNumber(t) = n /\ A!Exists(t)
<1>1. PICK y \in 0 .. 255, m \in 1 .. 12, d \in 1 .. 31, h \in 0 .. 23, k \in 0 .. 59 :
        t = At(y, m, d, h, k) /\ Minute(y, m, d, h, k) = n /\ Reached(y, m, d)
  BY DEF IsMinute
<1>2. /\ A!MinuteNumber(t) = n /\ (A!Exists(t) <=> Real(y, m, d))
  BY <1>1, NumberAt DEF Minute
<1>3. y = 100 /\ m = 1 /\ d = 1 => Number(y, m, d) = 36525
  BY MonthsBefore DEF Number
<1>4. Number(y, m, d) # 36525
  <2>1. Number(y, m, d) \in Int
    <3>1. y \in Int /\ d \in Int
      OBVIOUS
    <3> QED BY <3>1, NumberIsInt, Zenon
  <2>2. n = 60 * (24 * Number(y, m, d) + h) + k /\ n < 60 * (24 * 36525)
    BY <1>1 DEF Minute, Century
  <2> QED BY <2>1, <2>2
<1> QED BY <1>1, <1>2, <1>3, <1>4 DEF Reached

LEMMA EndOfCentury == A!MinuteNumber([YY |-> 100, MM |-> 1, DD |-> 1, hh |-> 0, mm |-> 0]) = Century
<1> DEFINE end == [YY |-> 100, MM |-> 1, DD |-> 1, hh |-> 0, mm |-> 0]
<1>1. A!DayNumber(end) = 36525
  BY MonthsBefore DEF A!DayNumber, A!LeapYear
<1>2. A!HourNumber(end) = 24 * 36525
  BY <1>1 DEF A!HourNumber
<1> QED BY <1>2 DEF A!MinuteNumber, Century

LEMMA MomentIsAt ==
  ASSUME NEW t \in Moments
  PROVE  /\ t = At(t.YY, t.MM, t.DD, t.hh, t.mm)
         /\ t.YY \in 0 .. 255 /\ t.MM \in 1 .. 12 /\ t.DD \in 1 .. 31
         /\ t.hh \in 0 .. 23 /\ t.mm \in 0 .. 59
BY DEF Moments, At

LEMMA MomentAt ==
  ASSUME NEW t \in Moments
  PROVE  \E y \in 0 .. 255 : \E m \in 1 .. 12 : \E d \in 1 .. 31 : \E h \in 0 .. 23 : \E k \in 0 .. 59 :
           t = At(y, m, d, h, k)
<1>1. PICK y \in 0 .. 255 : y = t.YY
  BY MomentIsAt
<1>2. PICK m \in 1 .. 12 : m = t.MM
  BY MomentIsAt
<1>3. PICK d \in 1 .. 31 : d = t.DD
  BY MomentIsAt
<1>4. PICK h \in 0 .. 23 : h = t.hh
  BY MomentIsAt
<1>5. PICK k \in 0 .. 59 : k = t.mm
  BY MomentIsAt
<1>6. t = At(y, m, d, h, k)
  BY <1>1, <1>2, <1>3, <1>4, <1>5, MomentIsAt
<1> QED BY <1>6

(* No step leaves the digits of a clock. *)
LEMMA StepsTyped ==
  ASSUME NEW t \in Moments, NEW step \in A!StepNames
  PROVE  A!Stepped(step, t) \in Moments
<1>1. \A u \in Moments : A!add_year(u) \in Moments /\ A!sub_year(u) \in Moments
  BY YearsWrap DEF A!add_year, A!sub_year, Moments
<1>2. \A u \in Moments : A!add_month(u) \in Moments /\ A!sub_month(u) \in Moments
  <2> TAKE u \in Moments
  <2>1. [u EXCEPT !.MM = 1] \in Moments /\ [u EXCEPT !.MM = 12] \in Moments
    BY DEF Moments
  <2>2. u.MM < 12 => [u EXCEPT !.MM = @ + 1] \in Moments
    BY DEF Moments
  <2>3. u.MM > 1 => [u EXCEPT !.MM = @ - 1] \in Moments
    BY DEF Moments
  <2> QED BY <1>1, <2>1, <2>2, <2>3 DEF A!add_month, A!sub_month
<1>3. \A u \in Moments : A!add_day(u) \in Moments /\ A!sub_day(u) \in Moments
  <2> TAKE u \in Moments
  <2>1. u.YY \in Int /\ u.MM \in Int /\ u.MM - 1 \in Int
    BY MomentIsAt
  <2>2. A!DaysIn(u.MM, u.YY) \in 28 .. 31 /\ A!DaysIn(u.MM - 1, u.YY) \in 28 .. 31
    BY <2>1, Months, Zenon
  <2>3. /\ [u EXCEPT !.DD = 1] \in Moments
        /\ [u EXCEPT !.DD = A!DaysIn(u.MM - 1, u.YY)] \in Moments
    BY <2>2 DEF Moments
  <2>4. u.DD + 1 <= A!DaysIn(u.MM, u.YY) => [u EXCEPT !.DD = @ + 1] \in Moments
    BY <2>2 DEF Moments
  <2>5. u.DD > 1 => [u EXCEPT !.DD = @ - 1] \in Moments
    BY DEF Moments
  <2> QED BY <1>2, <2>3, <2>4, <2>5 DEF A!add_day, A!sub_day
<1>4. \A u \in Moments : A!add_hour(u) \in Moments /\ A!sub_hour(u) \in Moments
  <2> TAKE u \in Moments
  <2>1. [u EXCEPT !.hh = 0] \in Moments /\ [u EXCEPT !.hh = 23] \in Moments
    BY DEF Moments
  <2>2. u.hh < 23 => [u EXCEPT !.hh = @ + 1] \in Moments
    BY DEF Moments
  <2>3. u.hh > 0 => [u EXCEPT !.hh = @ - 1] \in Moments
    BY DEF Moments
  <2> QED BY <1>3, <2>1, <2>2, <2>3 DEF A!add_hour, A!sub_hour
<1>5. A!add_minute(t) \in Moments /\ A!sub_minute(t) \in Moments
  <2>1. [t EXCEPT !.mm = 0] \in Moments /\ [t EXCEPT !.mm = 59] \in Moments
    BY DEF Moments
  <2>2. t.mm < 59 => [t EXCEPT !.mm = @ + 1] \in Moments
    BY DEF Moments
  <2>3. t.mm > 0 => [t EXCEPT !.mm = @ - 1] \in Moments
    BY DEF Moments
  <2> QED BY <1>4, <2>1, <2>2, <2>3 DEF A!add_minute, A!sub_minute
<1> QED BY <1>1, <1>2, <1>3, <1>4, <1>5 DEF A!Stepped, A!StepNames

DateInv ==
  date \in Moments /\ done \in A!StepNames \cup {"none"} /\ steps \in 0 .. MaxSteps

LEMMA DateSet ==
  ASSUME NEW YY \in Years
  PROVE  LET t == A!Stored([YY |-> YY, MM |-> 1, DD |-> 1, hh |-> 0, mm |-> 0])
         IN  t \in Moments /\ A!Exists(t)
<1>1. YY \in 0 .. 255 /\ YY \in 0 .. 99 /\ YY <= 100
  BY DateAssumption
<1>2. 1 \in 1 .. 12 /\ 1 \in 1 .. 31 /\ 0 \in 0 .. 23 /\ 0 \in 0 .. 59
  OBVIOUS
<1>3. A!Stored(At(YY, 1, 1, 0, 0)) = At(YY, 1, 1, 0, 0) /\ At(YY, 1, 1, 0, 0) \in Moments
  BY <1>1, <1>2, StoredAt, NumberAt, Zenon
<1>4. A!Exists(At(YY, 1, 1, 0, 0))
  <2>1. A!MonthDays(1, YY) = 31
    BY <1>1, Months
  <2> QED BY <1>1, <2>1 DEF A!Exists, At
<1> QED BY <1>3, <1>4 DEF At

LEMMA DateStart == A!Init => DateInv
<1> SUFFICES ASSUME A!Init PROVE DateInv
  OBVIOUS
<1>1. Years \subseteq 0 .. 255 /\ MaxSteps \in Nat
  BY DateAssumption
<1>2. date \in Moments
  <2>1. date \in [YY : Years, MM : 1 .. 12, DD : {1, 2} \cup 27 .. 31, hh : {0, 23}, mm : {0, 59}]
    BY DEF A!Init
  <2>2. {1, 2} \cup 27 .. 31 \subseteq 1 .. 31 /\ {0, 23} \subseteq 0 .. 23 /\ {0, 59} \subseteq 0 .. 59
    OBVIOUS
  <2>3. /\ date = [YY |-> date.YY, MM |-> date.MM, DD |-> date.DD, hh |-> date.hh, mm |-> date.mm]
        /\ date.YY \in Years /\ date.MM \in 1 .. 12 /\ date.DD \in {1, 2} \cup 27 .. 31
        /\ date.hh \in {0, 23} /\ date.mm \in {0, 59}
    BY <2>1
  <2> QED BY <1>1, <2>2, <2>3 DEF Moments
<1> QED BY <1>1, <1>2 DEF A!Init, DateInv

LEMMA DateKept == DateInv /\ [A!Next]_(A!vars) => DateInv'
<1> SUFFICES ASSUME DateInv, [A!Next]_(A!vars) PROVE DateInv'
  OBVIOUS
<1>1. MaxSteps \in Nat /\ steps \in 0 .. MaxSteps
  BY DateAssumption DEF DateInv
<1>2. CASE UNCHANGED A!vars
  BY <1>2 DEF A!vars, DateInv
<1>3. CASE A!Set
  BY <1>1, <1>3, DateSet DEF A!Set, DateInv
<1>4. ASSUME NEW step \in A!StepNames, A!Adjust(step) PROVE DateInv'
  <2>1. PICK t \in Moments : t = A!Stepped(step, date)
    BY StepsTyped DEF DateInv
  <2>2. A!Stored(t) \in Moments
    <3>1. PICK y \in 0 .. 255, m \in 1 .. 12, d \in 1 .. 31, h \in 0 .. 23, k \in 0 .. 59 :
            t = At(y, m, d, h, k)
      BY MomentAt
    <3> QED BY <3>1, StoredAt
  <2> QED BY <1>1, <1>4, <2>1, <2>2 DEF A!Adjust, DateInv
<1> QED BY <1>2, <1>3, <1>4 DEF A!Next

(* Away from the ends of the century no step reaches them. *)
DayInside(p) == Century \in Int /\ 1440 <= p /\ p + 1440 < Century

LEMMA WithinCentury ==
  ASSUME NEW y \in 0 .. 255, 1 <= y, y <= 98,
         NEW m \in 1 .. 12, NEW d \in 1 .. 31, NEW h \in 0 .. 23, NEW k \in 0 .. 59
  PROVE  DayInside(Minute(y, m, d, h, k))
<1>1. Number(y, m, d) \in Int /\ Number(y, m, d) >= 1 /\ Number(y, m, d) <= 36500
  BY MonthsBefore DEF Number
<1> QED BY <1>1 DEF DayInside, Minute, Century

LEMMA AdjustExact ==
  ASSUME DateInv, NEW step \in A!StepNames, A!Adjust(step)
  PROVE  A!StepIsExact
<1>1. PICK y \in 0 .. 255, m \in 1 .. 12, d \in 1 .. 31, h \in 0 .. 23, k \in 0 .. 59 :
        date = At(y, m, d, h, k)
  BY MomentAt DEF DateInv
<1>2. PICK n \in Int : n = A!Minutes(step) /\ -1440 <= n /\ n <= 1440
  <2>1. A!Minutes(step) \in {1, -1, 60, -60, 1440, -1440, 0}
    BY DEF A!Minutes, A!StepNames
  <2> QED BY <2>1
<1>3. PICK p \in Int : p = Minute(y, m, d, h, k)
  <2>1. Number(y, m, d) \in Int
    <3>1. y \in Int /\ d \in Int
      OBVIOUS
    <3> QED BY <3>1, NumberIsInt, Zenon
  <2> QED BY <2>1 DEF Minute
<1>4. /\ A!MinuteNumber(date) = p
      /\ A!Exists(date) <=> Real(y, m, d)
      /\ A!AroundLeapDay2000(date) <=> Unknown(y, m, d)
      /\ date.YY = y /\ date.MM = m /\ date.DD = d
  BY <1>1, <1>3, NumberAt DEF Minute, At
<1>5. date' = A!Stored(A!Stepped(step, date)) /\ done' = step
  BY DEF A!Adjust
<1>6. n # 0 /\ A!Exists(date) /\ ~A!AroundLeapDay2000(date) /\ p + n >= 0 /\ p + n < Century
        => A!MinuteNumber(date') = p + n /\ A!Exists(date')
  <2> SUFFICES ASSUME n # 0, Real(y, m, d), ~Unknown(y, m, d), p + n >= 0, p + n < Century
               PROVE  A!MinuteNumber(date') = p + n /\ A!Exists(date')
    BY <1>4
  <2>1. IsMinute(A!Stepped(step, date), p + n) \/ p + n < 0
    BY <1>1, <1>2, <1>3, StepExact
  <2>2. IsMinute(A!Stepped(step, date), p + n)
    BY <2>1
  <2>3. date' = A!Stepped(step, date)
    BY <1>5, <2>2, StoredMinute
  <2> QED BY <2>2, <2>3, MinuteExists
<1>7. A!Exists(date) /\ ~A!Exists(date') => done' \in {"M+", "M-", "Y+", "Y-"} \/ date.YY \in {0, 99}
  <2> SUFFICES ASSUME Real(y, m, d), done' \notin {"M+", "M-", "Y+", "Y-"}, y \notin {0, 99}
               PROVE  A!Exists(date')
    BY <1>4
  <2>1. y \in 1 .. 98
    BY DEF Real
  <2>2. p + n >= 0 /\ p + n < Century
    <3>1. Century \in Int /\ 1440 <= p /\ p + 1440 < Century
      <4>1. 1 <= y /\ y <= 98
        BY <2>1
      <4>2. DayInside(Minute(y, m, d, h, k))
        BY <4>1, WithinCentury, Zenon
      <4> QED BY <1>3, <4>2 DEF DayInside
    <3> QED BY <1>2, <3>1
  <2>3. n # 0
    BY <1>2, <1>5 DEF A!Minutes, A!StepNames
  <2>4. ~Unknown(y, m, d)
    BY <2>1 DEF Unknown
  <2> QED BY <1>4, <1>6, <2>2, <2>3, <2>4
<1>8. ~A!Exists(date) /\ date.YY \in 1 .. 98 /\ done' = "D+" => A!Exists(date')
  <2> SUFFICES ASSUME ~Real(y, m, d), y \in 1 .. 98, step = "D+"
               PROVE  A!Exists(date')
    BY <1>4, <1>5
  <2>1. A!MonthDays(m, y) \in 28 .. 31 /\ d > A!MonthDays(m, y) /\ A!DaysIn(m, y) = A!MonthDays(m, y) /\ m # 12
    <3>1. A!MonthDays(m, y) \in 28 .. 31 /\ A!DaysIn(m, y) = A!MonthDays(m, y) /\ A!MonthDays(12, y) = 31
      BY Months
    <3> QED BY <3>1 DEF Real
  <2>2. A!Stepped(step, date) = At(y, m + 1, 1, h, k)
    <3>1. A!Stepped(step, date) = A!add_day(date)
      BY DEF A!Stepped
    <3>2. A!add_day(date) = A!add_month(At(y, m, 1, h, k))
      BY <1>1, <2>1 DEF A!add_day, At
    <3>3. A!add_month(At(y, m, 1, h, k)) = At(y, m + 1, 1, h, k)
      BY <2>1 DEF A!add_month, At
    <3> QED BY <3>1, <3>2, <3>3
  <2>3. m + 1 \in 1 .. 12 /\ 1 \in 1 .. 31 /\ y \in 0 .. 255 /\ y <= 100
    BY <2>1
  <2>4. date' = At(y, m + 1, 1, h, k)
    <3>1. A!Stored(At(y, m + 1, 1, h, k)) = At(y, m + 1, 1, h, k)
      BY <2>3, StoredAt
    <3> QED BY <1>5, <2>2, <3>1
  <2>5. A!MonthDays(m + 1, y) \in 28 .. 31
    BY <2>3, Months
  <2> QED BY <2>3, <2>4, <2>5 DEF A!Exists, At
<1>9. /\ A!Minutes(done') = n
      /\ p + n \in 0 .. Century - 1 => p + n >= 0 /\ p + n < Century
  <2>1. Century \in Int
    BY DEF Century
  <2>2. PICK c \in Int : c = Century
    BY <2>1
  <2>3. p + n \in 0 .. c - 1 => p + n >= 0 /\ p + n < c
    OBVIOUS
  <2> QED BY <1>2, <1>5, <2>2, <2>3
<1> QED BY <1>4, <1>6, <1>7, <1>8, <1>9, EndOfCentury DEF A!StepIsExact

LEMMA SetExact ==
  ASSUME A!Set
  PROVE  A!StepIsExact
<1>1. done' = "none" /\ A!Exists(date')
  BY DateSet DEF A!Set
<1>2. A!Minutes(done') = 0
  BY <1>1 DEF A!Minutes
<1> QED BY <1>1, <1>2 DEF A!StepIsExact

(* Through every end of a day, month and year of the century the adjusting
   steps move the clock by exactly their amount, whatever year they begin in
   and however many there are; the excluded days are the ones the property
   names. *)
THEOREM AdjustsExactly == A!Spec => StepsAreExact
<1>1. DateInv /\ [A!Next]_(A!vars) => [A!StepIsExact]_(A!vars)
  BY AdjustExact, SetExact DEF A!Next
<1> QED BY <1>1, DateStart, DateKept, PTL DEF A!Spec, StepsAreExact, A!StepsAreExact

-----------------------------------------------------------------------------
(* Local time.  The same calendar, instantiated for the two components. *)
LEMMA SameSteps ==
  ASSUME NEW t
  PROVE  T!add_hour(t) = A!add_hour(t) /\ T!sub_hour(t) = A!sub_hour(t)
<1>1. \A u : T!add_month(u) = A!add_month(u) /\ T!sub_month(u) = A!sub_month(u)
  BY DEF T!add_month, A!add_month, T!sub_month, A!sub_month, T!add_year, A!add_year, T!sub_year, A!sub_year
<1>2. \A m, y : T!DaysIn(m, y) = A!DaysIn(m, y)
  BY DEF T!DaysIn, A!DaysIn, T!CommonDays, A!CommonDays
<1>3. \A u : T!add_day(u) = A!add_day(u) /\ T!sub_day(u) = A!sub_day(u)
  BY <1>1, <1>2 DEF T!add_day, A!add_day, T!sub_day, A!sub_day
<1> QED BY <1>3 DEF T!add_hour, A!add_hour, T!sub_hour, A!sub_hour

LEMMA SameCount ==
  ASSUME NEW t
  PROVE  /\ T!DayNumber(t) = A!DayNumber(t) /\ T!HourNumber(t) = A!HourNumber(t)
         /\ T!Exists(t) <=> A!Exists(t)
         /\ T!Weekday(t) = A!Weekday(t)
<1>1. T!DayNumber(t) = A!DayNumber(t)
  BY DEF T!DayNumber, A!DayNumber, T!Before, A!Before, T!LeapYear, A!LeapYear
<1>2. \A m, y : T!MonthDays(m, y) = A!MonthDays(m, y)
  BY DEF T!MonthDays, A!MonthDays, T!CommonDays, A!CommonDays, T!LeapYear, A!LeapYear
<1>3. T!Exists(t) <=> A!Exists(t)
  BY <1>2 DEF T!Exists, A!Exists
<1>4. T!Weekday(t) = A!Weekday(t)
  BY DEF T!Weekday, A!Weekday, T!amziffer, A!amziffer
<1> QED BY <1>1, <1>3, <1>4 DEF T!HourNumber, A!HourNumber

(* Thirteen steps, one by one. *)
LEMMA ThirteenSteps ==
  ASSUME NEW S, 0 \in S, \A k \in 0 .. 12 : k \in S => k + 1 \in S
  PROVE  \A k \in 0 .. 13 : k \in S
<1>1. 1 \in S /\ 2 \in S /\ 3 \in S
  OBVIOUS
<1>2. 4 \in S /\ 5 \in S /\ 6 \in S
  BY <1>1
<1>3. 7 \in S /\ 8 \in S /\ 9 \in S
  BY <1>2
<1>4. 10 \in S /\ 11 \in S /\ 12 \in S /\ 13 \in S
  BY <1>3
<1>5. \A k \in 0 .. 13 : k \in {0, 1, 2, 3, 4, 5, 6, 7, 8, 9, 10, 11, 12, 13}
  OBVIOUS
<1> QED BY <1>1, <1>2, <1>3, <1>4, <1>5

\* The steps of a shift by n hours.
Step(n, t) == IF n > 0 THEN A!add_hour(t) ELSE A!sub_hour(t)

Walk(g, t, n, j) == g[0] = t /\ \A k \in 1 .. j : g[k] = Step(n, g[k - 1])

LEMMA WalkExists ==
  ASSUME NEW t, NEW n
  PROVE  \E g : Walk(g, t, n, 13)
<1> DEFINE S == {j \in 0 .. 13 : \E g : Walk(g, t, n, j)}
<1>1. 0 \in S
  <2>1. Walk([k \in 0 .. 0 |-> t], t, n, 0)
    BY DEF Walk
  <2> QED BY <2>1
<1>2. ASSUME NEW j \in 0 .. 12, j \in S PROVE j + 1 \in S
  <2>1. PICK g : Walk(g, t, n, j)
    BY <1>2
  <2> DEFINE h == [k \in 0 .. j + 1 |-> IF k = j + 1 THEN Step(n, g[j]) ELSE g[k]]
  <2>2. h[0] = t
    BY <2>1 DEF Walk
  <2>3. ASSUME NEW k \in 1 .. j + 1 PROVE h[k] = Step(n, h[k - 1])
    <3>1. CASE k = j + 1
      <4>1. h[k] = Step(n, g[j]) /\ h[k - 1] = g[j]
        BY <3>1
      <4> QED BY <4>1
    <3>2. CASE k # j + 1
      <4>1. k \in 1 .. j /\ h[k] = g[k] /\ h[k - 1] = g[k - 1]
        BY <3>2
      <4> QED BY <2>1, <4>1 DEF Walk
    <3> QED BY <3>1, <3>2
  <2>4. Walk(h, t, n, j + 1)
    BY <2>2, <2>3 DEF Walk
  <2> QED BY <2>4
<1>3. 13 \in S
  <2> HIDE DEF S
  <2> QED BY <1>1, <1>2, ThirteenSteps
<1> QED BY <1>3

LEMMA ShiftIsWalk ==
  ASSUME NEW t, NEW n \in -13 .. 13
  PROVE  \E g : Walk(g, t, n, 13) /\ T!ShiftHours(t, n) = g[IF n > 0 THEN n ELSE -n]
<1> DEFINE Is(f) == f = [k \in 0 .. 13 |-> IF k = 0 THEN t ELSE IF n > 0 THEN T!add_hour(f[k - 1])
                                                                      ELSE T!sub_hour(f[k - 1])]
           f == CHOOSE f : Is(f)
<1>1. \E g : Is(g)
  <2>1. PICK g : Walk(g, t, n, 13)
    BY WalkExists
  <2> DEFINE h == [k \in 0 .. 13 |-> g[k]]
             i == [k \in 0 .. 13 |-> IF k = 0 THEN t ELSE IF n > 0 THEN T!add_hour(h[k - 1])
                                                                     ELSE T!sub_hour(h[k - 1])]
  <2>2. \A k \in 0 .. 13 : h[k] = i[k]
    <3> TAKE k \in 0 .. 13
    <3>1. CASE k = 0
      BY <2>1, <3>1 DEF Walk
    <3>2. CASE k # 0
      <4>1. k \in 1 .. 13 /\ h[k - 1] = g[k - 1] /\ h[k] = Step(n, g[k - 1])
        BY <2>1, <3>2 DEF Walk
      <4> HIDE DEF h
      <4>2. i[k] = IF n > 0 THEN T!add_hour(g[k - 1]) ELSE T!sub_hour(g[k - 1])
        BY <3>2, <4>1
      <4> QED BY <4>1, <4>2, SameSteps DEF Step
    <3> QED BY <3>1, <3>2
  <2>3. h = i
    BY <2>2
  <2> QED BY <2>3
<1>2. Is(f)
  BY <1>1
<1>3. T!ShiftHours(t, n) = f[IF n > 0 THEN n ELSE -n]
  BY DEF T!ShiftHours
<1>4. Walk(f, t, n, 13)
  <2> HIDE DEF f
  <2>1. f[0] = t
    BY <1>2
  <2>2. ASSUME NEW k \in 1 .. 13 PROVE f[k] = Step(n, f[k - 1])
    <3>1. k \in 0 .. 13 /\ k # 0
      OBVIOUS
    <3>2. f[k] = IF n > 0 THEN T!add_hour(f[k - 1]) ELSE T!sub_hour(f[k - 1])
      BY <1>2, <3>1
    <3> QED BY <3>2, SameSteps DEF Step
  <2> QED BY <2>1, <2>2 DEF Walk
<1> QED BY <1>3, <1>4

(* Away from the leap day of 2000 a shift is exact; near it the days that are
   reached exist. *)
Far(p) == p < 60 * (24 * 45) \/ p >= 60 * (24 * 75)

LEMMA KnownFar ==
  ASSUME NEW y \in 0 .. 255, NEW m \in 1 .. 12, NEW d \in 1 .. 31, NEW h \in 0 .. 23, NEW k \in 0 .. 59,
         NEW p \in Int, p = Minute(y, m, d, h, k), p < 60 * (24 * 58) \/ p >= 60 * (24 * 61)
  PROVE  ~Unknown(y, m, d)
<1>1. Number(0, 2, 28) = 58 /\ Number(0, 2, 29) = 59 /\ Number(0, 3, 1) = 60
  BY MonthsBefore DEF Number
<1>2. Number(y, m, d) \in Int
  <2>1. y \in Int /\ d \in Int
    OBVIOUS
  <2> QED BY <2>1, NumberIsInt, Zenon
<1>3. Number(y, m, d) \notin {58, 59, 60}
  <2>1. p = 60 * (24 * Number(y, m, d) + h) + k
    BY DEF Minute
  <2> QED BY <1>2, <2>1
<1> QED BY <1>1, <1>3 DEF Unknown

LEMMA HourOn ==
  ASSUME NEW t, NEW p \in Int, IsMinute(t, p), p < 60 * (24 * 58) \/ p >= 60 * (24 * 61),
         p < Century + 60 * 23
  PROVE  IsMinute(A!add_hour(t), p + 60)
<1>1. PICK y \in 0 .. 255, m \in 1 .. 12, d \in 1 .. 31, h \in 0 .. 23, k \in 0 .. 59 :
        t = At(y, m, d, h, k) /\ Minute(y, m, d, h, k) = p /\ Reached(y, m, d)
  BY DEF IsMinute
<1>2. ~Unknown(y, m, d)
  BY <1>1, KnownFar
<1>3. CASE Real(y, m, d)
  BY <1>1, <1>2, <1>3, HourAdded
<1>4. CASE y = 100 /\ m = 1 /\ d = 1
  <2>1. y = 100 /\ m = 1 /\ d = 1 => Number(y, m, d) = 36525
    BY MonthsBefore DEF Number
  <2>2. Number(y, m, d) = 36525
    BY <1>4, <2>1
  <2>3. p = 60 * (24 * 36525 + h) + k
    BY <1>1, <2>2 DEF Minute
  <2>4. p < 60 * (24 * 36525) + 60 * 23
    BY DEF Century
  <2>5. h < 23
    BY <2>3, <2>4
  <2>6. A!add_hour(t) = At(y, m, d, h + 1, k)
    BY <1>1, <2>5 DEF A!add_hour, At
  <2>7. h + 1 \in 0 .. 23
    BY <2>5
  <2>8. IsMinute(At(y, m, d, h + 1, k), Minute(y, m, d, h + 1, k))
    BY <1>1, <2>7, MinuteIs, Zenon
  <2>9. Minute(y, m, d, h + 1, k) = p + 60
    BY <2>2, <2>3 DEF Minute
  <2> QED BY <2>6, <2>8, <2>9
<1> QED BY <1>1, <1>3, <1>4 DEF Reached

LEMMA HourOff ==
  ASSUME NEW t, NEW p \in Int, IsMinute(t, p), p < 60 * (24 * 58) \/ p >= 60 * (24 * 61),
         60 <= p, p < Century
  PROVE  IsMinute(A!sub_hour(t), p - 60)
<1>1. PICK y \in 0 .. 255, m \in 1 .. 12, d \in 1 .. 31, h \in 0 .. 23, k \in 0 .. 59 :
        t = At(y, m, d, h, k) /\ Minute(y, m, d, h, k) = p /\ Reached(y, m, d)
  BY DEF IsMinute
<1>2. ~Unknown(y, m, d)
  BY <1>1, KnownFar
<1>3. Real(y, m, d)
  <2>1. A!Exists(t)
    BY MinuteExists
  <2> QED BY <1>1, <2>1, NumberAt
<1>4. \/ IsMinute(A!sub_hour(t), p - 60)
      \/ p < 60
  BY <1>1, <1>2, <1>3, HourTaken
<1> QED BY <1>4

LEMMA ShiftedFar ==
  ASSUME NEW t, NEW n \in -12 .. 12, NEW p \in Int, IsMinute(t, p), Far(p),
         p < Century, p + 60 * n >= 0
  PROVE  IsMinute(T!ShiftHours(t, n), p + 60 * n)
<1>1. PICK g : Walk(g, t, n, 13) /\ T!ShiftHours(t, n) = g[IF n > 0 THEN n ELSE -n]
  BY ShiftIsWalk
<1>2. CASE n > 0
  <2> DEFINE S == {k \in 0 .. 13 : IsMinute(g[k], p + 60 * k)}
  <2>1. 0 \in S
    BY <1>1 DEF Walk
  <2>2. ASSUME NEW k \in 0 .. 12, k \in S PROVE k + 1 \in S
    <3>1. PICK q \in Int : q = p + 60 * k
      OBVIOUS
    <3>2. q < 60 * (24 * 58) \/ q >= 60 * (24 * 61)
      BY <3>1 DEF Far
    <3>3. q < Century + 60 * 23
      <4>1. Century \in Int
        BY DEF Century
      <4> QED BY <3>1, <4>1
    <3>4. IsMinute(g[k], q)
      BY <2>2, <3>1
    <3>5. IsMinute(A!add_hour(g[k]), q + 60)
      BY <3>2, <3>3, <3>4, HourOn
    <3>6. k + 1 \in 1 .. 13 /\ (k + 1) - 1 = k
      OBVIOUS
    <3>7. g[k + 1] = A!add_hour(g[k])
      BY <1>1, <1>2, <3>6 DEF Walk, Step
    <3>8. q + 60 = p + 60 * (k + 1)
      BY <3>1
    <3> QED BY <3>5, <3>6, <3>7, <3>8
  <2>3. n \in S
    <3> HIDE DEF S
    <3>1. n \in 0 .. 13
      BY <1>2
    <3> QED BY <2>1, <2>2, <3>1, ThirteenSteps
  <2> QED BY <1>1, <1>2, <2>3
<1>3. CASE n <= 0
  <2> DEFINE S == {k \in 0 .. 13 : k <= -n => IsMinute(g[k], p - 60 * k)}
  <2>1. 0 \in S
    BY <1>1 DEF Walk
  <2>2. ASSUME NEW k \in 0 .. 12, k \in S PROVE k + 1 \in S
    <3> SUFFICES ASSUME k + 1 <= -n PROVE IsMinute(g[k + 1], p - 60 * (k + 1))
      OBVIOUS
    <3>1. PICK q \in Int : q = p - 60 * k
      OBVIOUS
    <3>2. q < 60 * (24 * 58) \/ q >= 60 * (24 * 61)
      BY <3>1 DEF Far
    <3>3. 60 <= q /\ q < Century
      <4>1. Century \in Int
        BY DEF Century
      <4> QED BY <3>1, <4>1
    <3>4. IsMinute(g[k], q)
      BY <2>2, <3>1
    <3>5. IsMinute(A!sub_hour(g[k]), q - 60)
      BY <3>2, <3>3, <3>4, HourOff
    <3>6. k + 1 \in 1 .. 13 /\ (k + 1) - 1 = k
      OBVIOUS
    <3>7. g[k + 1] = A!sub_hour(g[k])
      BY <1>1, <1>3, <3>6 DEF Walk, Step
    <3>8. q - 60 = p - 60 * (k + 1)
      BY <3>1
    <3> QED BY <3>5, <3>7, <3>8
  <2>3. -n \in S
    <3> HIDE DEF S
    <3>1. -n \in 0 .. 13
      BY <1>3
    <3> QED BY <2>1, <2>2, <3>1, ThirteenSteps
  <2>4. p - 60 * (-n) = p + 60 * n
    OBVIOUS
  <2> QED BY <1>1, <1>3, <2>3, <2>4
<1> QED BY <1>2, <1>3

(* The fortnight around the leap day of 2000. *)
InSpring(m, d, j) ==
  m \in 2 .. 3 /\ d \in 1 .. 31 /\ IF m = 2 THEN 15 - j <= d /\ d <= 29 ELSE d <= 15 + j

Spring(t, j) ==
  \E m \in 2 .. 3 : \E d \in 1 .. 31 : \E h \in 0 .. 23 : \E k \in 0 .. 59 :
    t = At(0, m, d, h, k) /\ InSpring(m, d, j)

LEMMA SpringIs ==
  ASSUME NEW m, NEW d, NEW h \in 0 .. 23, NEW k \in 0 .. 59, NEW j, InSpring(m, d, j)
  PROVE  Spring(At(0, m, d, h, k), j)
BY DEF Spring, InSpring

LEMMA SpringStep ==
  ASSUME NEW t, NEW j \in 0 .. 12, Spring(t, j), NEW n
  PROVE  Spring(Step(n, t), j + 1)
<1>1. PICK m \in 2 .. 3, d \in 1 .. 31, h \in 0 .. 23, k \in 0 .. 59 :
        t = At(0, m, d, h, k) /\ InSpring(m, d, j)
  BY DEF Spring
<1>2. InSpring(m, d, j + 1)
  BY <1>1 DEF InSpring
<1>3. A!DaysIn(2, 0) = 28 /\ A!DaysIn(3, 0) = 31
  BY DEF A!DaysIn, A!CommonDays
<1>4. Spring(A!add_hour(t), j + 1)
  <2>1. CASE h < 23
    <3>1. A!add_hour(t) = At(0, m, d, h + 1, k) /\ h + 1 \in 0 .. 23
      BY <1>1, <2>1 DEF A!add_hour, At
    <3> QED BY <1>2, <3>1, SpringIs, Zenon
  <2>2. CASE h = 23
    <3>1. A!add_hour(t) = A!add_day(At(0, m, d, 0, k)) /\ 0 \in 0 .. 23
      BY <1>1, <2>2 DEF A!add_hour, At
    <3>2. A!add_day(At(0, m, d, 0, k)) = IF d + 1 <= A!DaysIn(m, 0) THEN At(0, m, d + 1, 0, k)
                                         ELSE A!add_month(At(0, m, 1, 0, k))
      BY DEF A!add_day, At
    <3>3. CASE d + 1 <= A!DaysIn(m, 0)
      <4>1. InSpring(m, d + 1, j + 1)
        BY <1>1, <1>3, <3>3 DEF InSpring
      <4>2. A!add_hour(t) = At(0, m, d + 1, 0, k)
        BY <3>1, <3>2, <3>3
      <4> QED BY <3>1, <4>1, <4>2, SpringIs, Zenon
    <3>4. CASE ~(d + 1 <= A!DaysIn(m, 0))
      <4>1. m = 2
        BY <1>1, <1>3, <3>4 DEF InSpring
      <4>2. A!add_hour(t) = At(0, 3, 1, 0, k)
        BY <3>1, <3>2, <3>4, <4>1 DEF A!add_month, At
      <4>3. InSpring(3, 1, j + 1)
        BY DEF InSpring
      <4> QED BY <3>1, <4>2, <4>3, SpringIs, Zenon
    <3> QED BY <3>3, <3>4
  <2> QED BY <2>1, <2>2
<1>5. Spring(A!sub_hour(t), j + 1)
  <2>1. CASE h > 0
    <3>1. A!sub_hour(t) = At(0, m, d, h - 1, k) /\ h - 1 \in 0 .. 23
      BY <1>1, <2>1 DEF A!sub_hour, At
    <3> QED BY <1>2, <3>1, SpringIs, Zenon
  <2>2. CASE h = 0
    <3>1. A!sub_hour(t) = A!sub_day(At(0, m, d, 23, k)) /\ 23 \in 0 .. 23
      BY <1>1, <2>2 DEF A!sub_hour, At
    <3>2. A!sub_day(At(0, m, d, 23, k)) = IF d > 1 THEN At(0, m, d - 1, 23, k)
                                          ELSE A!sub_month(At(0, m, A!DaysIn(m - 1, 0), 23, k))
      BY DEF A!sub_day, At
    <3>3. CASE d > 1
      <4>1. InSpring(m, d - 1, j + 1)
        BY <1>1, <3>3 DEF InSpring
      <4>2. A!sub_hour(t) = At(0, m, d - 1, 23, k)
        BY <3>1, <3>2, <3>3
      <4> QED BY <3>1, <4>1, <4>2, SpringIs, Zenon
    <3>4. CASE d = 1
      <4>1. m = 3 /\ m - 1 = 2
        BY <1>1, <3>4 DEF InSpring
      <4>2. A!sub_hour(t) = At(0, 2, 28, 23, k)
        <5>1. A!sub_hour(t) = A!sub_month(At(0, 3, 28, 23, k))
          BY <1>3, <3>1, <3>2, <3>4, <4>1
        <5> QED BY <5>1 DEF A!sub_month, At
      <4>3. InSpring(2, 28, j + 1)
        BY DEF InSpring
      <4> QED BY <3>1, <4>2, <4>3, SpringIs, Zenon
    <3> QED BY <3>3, <3>4
  <2> QED BY <2>1, <2>2
<1> QED BY <1>4, <1>5 DEF Step

LEMMA ShiftedSpring ==
  ASSUME NEW t, NEW j \in 0 .. 12, Spring(t, j), NEW n \in -13 .. 13,
         j + (IF n > 0 THEN n ELSE -n) <= 13
  PROVE  Spring(T!ShiftHours(t, n), j + (IF n > 0 THEN n ELSE -n))
<1> DEFINE a == IF n > 0 THEN n ELSE -n
<1>1. PICK g : Walk(g, t, n, 13) /\ T!ShiftHours(t, n) = g[a]
  BY ShiftIsWalk
<1>2. a \in 0 .. 13 /\ j + a <= 13
  OBVIOUS
<1> HIDE DEF a
<1> DEFINE R == {k \in 0 .. 13 : j + k <= 13 => Spring(g[k], j + k)}
<1>3. 0 \in R
  BY <1>1 DEF Walk
<1>4. ASSUME NEW k \in 0 .. 12, k \in R PROVE k + 1 \in R
  <2> SUFFICES ASSUME j + (k + 1) <= 13 PROVE Spring(g[k + 1], j + (k + 1))
    OBVIOUS
  <2>1. j + k \in 0 .. 12 /\ Spring(g[k], j + k)
    BY <1>4
  <2>2. Spring(Step(n, g[k]), (j + k) + 1)
    BY <2>1, SpringStep, Zenon
  <2>3. k + 1 \in 1 .. 13 /\ (k + 1) - 1 = k /\ (j + k) + 1 = j + (k + 1)
    OBVIOUS
  <2>4. g[k + 1] = Step(n, g[k])
    BY <1>1, <2>3 DEF Walk
  <2> QED BY <2>2, <2>3, <2>4
<1>5. a \in R
  <2> HIDE DEF R
  <2> QED BY <1>2, <1>3, <1>4, ThirteenSteps
<1>6. Spring(g[a], j + a)
  BY <1>2, <1>5
<1> QED BY <1>1, <1>6 DEF a

-----------------------------------------------------------------------------
(* The weekday: what amziffer holds is Before, but for whole weeks. *)
LEMMA Amziffer ==
  ASSUME NEW m \in 1 .. 12
  PROVE  \E w \in Int : A!amziffer[m] \in Int /\ A!Before[m] = A!amziffer[m] + 7 * w
<1>1. /\ A!Before[1] = 0 /\ A!Before[2] = 31 /\ A!Before[3] = 59 /\ A!Before[4] = 90
      /\ A!Before[5] = 120 /\ A!Before[6] = 151 /\ A!Before[7] = 181 /\ A!Before[8] = 212
      /\ A!Before[9] = 243 /\ A!Before[10] = 273 /\ A!Before[11] = 304 /\ A!Before[12] = 334
  BY DEF A!Before
<1>2. /\ A!amziffer[1] = 0 /\ A!amziffer[2] = 3 /\ A!amziffer[3] = 3 /\ A!amziffer[4] = 6
      /\ A!amziffer[5] = 1 /\ A!amziffer[6] = 4 /\ A!amziffer[7] = 6 /\ A!amziffer[8] = 2
      /\ A!amziffer[9] = 5 /\ A!amziffer[10] = 0 /\ A!amziffer[11] = 3 /\ A!amziffer[12] = 5
  BY DEF A!amziffer
<1> DEFINE weeks == <<0, 4, 8, 12, 17, 21, 25, 30, 34, 39, 43, 47>>
<1>3. /\ weeks[1] = 0 /\ weeks[2] = 4 /\ weeks[3] = 8 /\ weeks[4] = 12
      /\ weeks[5] = 17 /\ weeks[6] = 21 /\ weeks[7] = 25 /\ weeks[8] = 30
      /\ weeks[9] = 34 /\ weeks[10] = 39 /\ weeks[11] = 43 /\ weeks[12] = 47
  OBVIOUS
<1> HIDE DEF weeks
<1>4. m \in {1, 2, 3, 4, 5, 6, 7, 8, 9, 10, 11, 12}
  OBVIOUS
<1>5. weeks[m] \in Int /\ A!amziffer[m] \in Int /\ A!Before[m] = A!amziffer[m] + 7 * weeks[m]
  BY <1>1, <1>2, <1>3, <1>4
<1> QED BY <1>5

LEMMA SameRest ==
  ASSUME NEW u \in Int, NEW v \in Int, NEW w \in Int, u = v + 7 * w
  PROVE  u % 7 = v % 7
BY SMT

LEMMA WeekdayIs ==
  ASSUME NEW y \in 0 .. 99, NEW m \in 1 .. 12, NEW d \in 1 .. 31, NEW h, NEW k
  PROVE  A!Weekday(At(y, m, d, h, k)) = A!WeekdayOfDay(Number(y, m, d))
<1>1. PICK w \in Int, z \in Int, b \in Int : A!amziffer[m] = z /\ A!Before[m] = b /\ b = z + 7 * w
  <2>1. PICK w \in Int : A!amziffer[m] \in Int /\ A!Before[m] = A!amziffer[m] + 7 * w
    BY Amziffer
  <2>2. A!Before[m] \in Int
    BY <2>1
  <2> QED BY <2>1, <2>2
<1>2. PICK a \in Int : a = y \div 4
  OBVIOUS
<1>3. PICK l \in {0, 1} : l = IF y % 4 = 0 THEN 1 ELSE 0
  OBVIOUS
<1>4. (y + 3) \div 4 = a + 1 - l
  BY <1>2, <1>3
<1>5. PICK r \in {0, 1} : r = IF m > 2 THEN 1 ELSE 0
  OBVIOUS
<1>6. A!WeekdayOfDay(Number(y, m, d)) = (365 * y + (a + 1 - l) + b + (r * l) + d - 1 + 6) % 7
  <2>1. (IF m > 2 /\ y % 4 = 0 THEN 1 ELSE 0) = r * l
    BY <1>3, <1>5
  <2> QED BY <1>1, <1>4, <2>1 DEF A!WeekdayOfDay, Number
<1>7. A!Weekday(At(y, m, d, h, k)) = ((d % 7) + z + ((y + a) % 7) + 6 * ((1 - r) * l) + 6) % 7
  <2>1. (IF y % 4 = 0 /\ m < 3 THEN 6 ELSE 0) = 6 * ((1 - r) * l)
    BY <1>3, <1>5
  <2> QED BY <1>1, <1>2, <2>1 DEF A!Weekday, At
<1>8. PICK e \in Int : d % 7 = d - 7 * e
  <2>1. d % 7 = d - 7 * (d \div 7)
    BY SMT
  <2> QED BY <2>1
<1>9. PICK f \in Int : (y + a) % 7 = y + a - 7 * f
  <2>1. PICK x \in Int : x = y + a
    OBVIOUS
  <2>2. x % 7 = x - 7 * (x \div 7) /\ x \div 7 \in Int
    BY SMT
  <2> QED BY <2>1, <2>2
<1>10. PICK u \in Int : u = 365 * y + (a + 1 - l) + b + (r * l) + d - 1 + 6
  OBVIOUS
<1>11. PICK v \in Int : v = (d % 7) + z + ((y + a) % 7) + 6 * ((1 - r) * l) + 6
  BY <1>8, <1>9
<1>12. r * l \in {0, 1} /\ (1 - r) * l = l - r * l
  OBVIOUS
<1>13. u = v + 7 * (52 * y + w + e + f - (l - r * l))
  BY <1>1, <1>8, <1>9, <1>10, <1>11, <1>12
<1>14. u % 7 = v % 7
  <2>1. PICK x \in Int : x = 52 * y + w + e + f - (l - r * l)
    BY <1>12
  <2> QED BY <1>13, <2>1, SameRest
<1> QED BY <1>6, <1>7, <1>10, <1>11, <1>14

-----------------------------------------------------------------------------
(* The clock chip's time and the zone. *)
LocalInv ==
  utc \in Moments /\ A!Exists(utc) /\ utc.YY <= LastYear /\ rtc_offset \in Zones

LEMMA LocalStart == T!Init => LocalInv
<1> SUFFICES ASSUME T!Init PROVE LocalInv
  OBVIOUS
<1>1. LastYear \in 0 .. 99
  BY DateAssumption
<1>2. utc \in [YY : 0 .. LastYear, MM : 1 .. 12, DD : {1}, hh : {0}, mm : {0}]
  BY DEF T!Init
<1>3. /\ utc = At(utc.YY, utc.MM, 1, 0, 0)
      /\ utc.YY \in 0 .. LastYear /\ utc.MM \in 1 .. 12 /\ utc.DD = 1
  BY <1>2 DEF At
<1>4. utc.YY \in 0 .. 99 /\ utc.YY <= LastYear
  BY <1>1, <1>3
<1>5. A!MonthDays(utc.MM, utc.YY) \in 28 .. 31
  <2>1. utc.YY \in Int /\ utc.MM \in Int
    BY <1>3, <1>4
  <2> QED BY <2>1, Months, Zenon
<1>6. A!Exists(utc)
  BY <1>3, <1>4, <1>5 DEF A!Exists
<1>7. utc \in Moments
  BY <1>3, <1>4 DEF Moments, At
<1> QED BY <1>4, <1>6, <1>7 DEF LocalInv, T!Init

LEMMA LocalKept == LocalInv /\ [T!Next]_(T!vars) => LocalInv'
<1> SUFFICES ASSUME LocalInv, [T!Next]_(T!vars) PROVE LocalInv'
  OBVIOUS
<1>1. CASE UNCHANGED T!vars
  BY <1>1 DEF T!vars, LocalInv
<1>2. CASE T!SetOffset
  BY <1>2 DEF T!SetOffset, LocalInv
<1>3. CASE T!Tick
  <2>1. PICK y \in 0 .. 255, m \in 1 .. 12, d \in 1 .. 31, h \in 0 .. 23, k \in 0 .. 59 :
          utc = At(y, m, d, h, k)
    BY MomentAt DEF LocalInv
  <2>2. utc.YY = y /\ utc.MM = m /\ utc.DD = d /\ utc.hh = h
    BY <2>1 DEF At
  <2>3. LastYear \in 0 .. 99 /\ y <= LastYear /\ y \in 0 .. 99 /\ d <= A!MonthDays(m, y)
    BY <2>2, DateAssumption DEF LocalInv, A!Exists
  <2>4. A!MonthDays(m, y) \in 28 .. 31 /\ A!MonthDays(m + 1, y) \in 28 .. 31
    BY Months
  <2>5. T!MonthDays(m, y) = A!MonthDays(m, y)
    BY DEF T!MonthDays, A!MonthDays, T!CommonDays, A!CommonDays, T!LeapYear, A!LeapYear
  <2>6. rtc_offset' \in Zones
    BY <1>3 DEF T!Tick, LocalInv
  <2>7. CASE h < 23
    <3>0. utc' = [utc EXCEPT !.hh = @ + 1]
      BY <1>3, <2>2, <2>7 DEF T!Tick
    <3>1. utc' = At(y, m, d, h + 1, k)
      BY <2>1, <3>0 DEF At
    <3> QED BY <2>2, <2>3, <2>4, <2>6, <2>7, <3>1 DEF LocalInv, Moments, At, A!Exists
  <2>8. CASE h = 23 /\ d < A!MonthDays(m, y)
    <3>0. utc' = [utc EXCEPT !.hh = 0, !.DD = @ + 1]
      BY <1>3, <2>2, <2>4, <2>5, <2>8 DEF T!Tick
    <3>1. utc' = At(y, m, d + 1, 0, k)
      BY <2>1, <3>0 DEF At
    <3> QED BY <2>2, <2>3, <2>4, <2>6, <2>8, <3>1 DEF LocalInv, Moments, At, A!Exists
  <2>9. CASE h = 23 /\ d = A!MonthDays(m, y) /\ m < 12
    <3>0. utc' = [utc EXCEPT !.hh = 0, !.DD = 1, !.MM = @ + 1]
      BY <1>3, <2>2, <2>4, <2>5, <2>9 DEF T!Tick
    <3>1. utc' = At(y, m + 1, 1, 0, k)
      BY <2>1, <3>0 DEF At
    <3> QED BY <2>2, <2>3, <2>4, <2>6, <2>9, <3>1 DEF LocalInv, Moments, At, A!Exists
  <2>10. CASE h = 23 /\ d = A!MonthDays(m, y) /\ m = 12
    <3>0. utc' = [utc EXCEPT !.hh = 0, !.DD = 1, !.MM = 1, !.YY = IF @ = LastYear THEN 0 ELSE @ + 1]
      BY <1>3, <2>2, <2>4, <2>5, <2>10 DEF T!Tick
    <3>1. utc' = At(IF y = LastYear THEN 0 ELSE y + 1, 1, 1, 0, k)
      BY <2>1, <3>0 DEF At
    <3>2. PICK z \in 0 .. 99 : z = (IF y = LastYear THEN 0 ELSE y + 1) /\ z <= LastYear
      BY <2>3
    <3>3. A!MonthDays(1, z) = 31
      BY Months
    <3> QED BY <2>6, <3>1, <3>2, <3>3 DEF LocalInv, Moments, At, A!Exists
  <2> QED BY <2>3, <2>4, <2>7, <2>8, <2>9, <2>10
<1> QED BY <1>1, <1>2, <1>3 DEF T!Next

LEMMA ShiftNoneOrOne ==
  ASSUME NEW t
  PROVE  T!ShiftHours(t, 0) = t /\ T!ShiftHours(t, 1) = A!add_hour(t)
<1>1. T!ShiftHours(t, 0) = t
  <2>1. PICK g : Walk(g, t, 0, 13) /\ T!ShiftHours(t, 0) = g[IF 0 > 0 THEN 0 ELSE -0]
    <3>1. 0 \in -13 .. 13
      OBVIOUS
    <3> QED BY <3>1, ShiftIsWalk, Zenon
  <2>2. (IF 0 > 0 THEN 0 ELSE -0) = 0
    <3>1. \A i \in Int : i > -1 /\ i < 1 => (IF i > 0 THEN i ELSE -i) = i
      OBVIOUS
    <3>2. 0 \in Int /\ 0 > -1 /\ 0 < 1
      OBVIOUS
    <3> QED BY <3>1, <3>2, Zenon
  <2> QED BY <2>1, <2>2 DEF Walk
<1>2. T!ShiftHours(t, 1) = A!add_hour(t)
  <2>1. PICK g : Walk(g, t, 1, 13) /\ T!ShiftHours(t, 1) = g[IF 1 > 0 THEN 1 ELSE -1]
    <3>1. 1 \in -13 .. 13
      OBVIOUS
    <3> QED BY <3>1, ShiftIsWalk, Zenon
  <2>2. (IF 1 > 0 THEN 1 ELSE -1) = 1 /\ 1 \in 1 .. 13 /\ 1 - 1 = 0 /\ 1 > 0
    OBVIOUS
  <2>3. g[1] = Step(1, g[1 - 1])
    BY <2>1, <2>2 DEF Walk
  <2> QED BY <2>1, <2>2, <2>3 DEF Walk, Step
<1> QED BY <1>1, <1>2

LEMMA DstIs ==
  ASSUME T!Standard.MM \in 1 .. 12
  PROVE  /\ T!dst \in {0, 1} /\ (T!dst = 1 => T!Standard.MM \in 3 .. 10)
         /\ T!Standard.MM \in 4 .. 9 => T!dst = 1
         /\ T!Standard.MM = 3 =>
              T!dst = IF T!AfterLastSunday(T!Standard.DD, T!Weekday(utc), T!Standard.hh) THEN 1 ELSE 0
         /\ T!Standard.MM = 10 =>
              T!dst = IF T!AfterLastSunday(T!Standard.DD, T!Weekday(utc), T!Standard.hh) THEN 0 ELSE 1
<1>1. PICK m \in 1 .. 12 : m = T!Standard.MM
  OBVIOUS
<1>2. CASE m \in {1, 2, 11, 12}
  <2>1. T!dst = 0
    BY <1>1, <1>2 DEF T!dst
  <2> QED BY <1>1, <1>2, <2>1
<1>3. CASE m \in 4 .. 9
  <2>1. T!dst = 1
    BY <1>1, <1>3 DEF T!dst
  <2> QED BY <1>1, <1>3, <2>1
<1>4. CASE m = 3
  <2>1. T!dst = IF T!AfterLastSunday(T!Standard.DD, T!Weekday(utc), T!Standard.hh) THEN 1 ELSE 0
    BY <1>1, <1>4 DEF T!dst
  <2> QED BY <1>1, <1>4, <2>1
<1>5. CASE m = 10
  <2>1. T!dst = IF T!AfterLastSunday(T!Standard.DD, T!Weekday(utc), T!Standard.hh) THEN 0 ELSE 1
    BY <1>1, <1>5 DEF T!dst
  <2> QED BY <1>1, <1>5, <2>1
<1> QED BY <1>2, <1>3, <1>4, <1>5

-----------------------------------------------------------------------------
LEMMA FarOrSpring ==
  ASSUME NEW y \in 0 .. 99, NEW m \in 1 .. 12, NEW d \in 1 .. 31, NEW h \in 0 .. 23, NEW k \in 0 .. 59,
         Real(y, m, d)
  PROVE  Far(Minute(y, m, d, h, k)) \/ (y = 0 /\ InSpring(m, d, 0))
<1>1. PICK n \in Int : n = Number(y, m, d)
  BY RealDay
<1>2. PICK q \in Nat : q = (y + 3) \div 4
  OBVIOUS
<1>3. PICK r \in {0, 1} : r = IF m > 2 /\ y % 4 = 0 THEN 1 ELSE 0
  OBVIOUS
<1>4. A!Before[m] \in Nat /\ n = 365 * y + q + A!Before[m] + r + d - 1
  BY <1>1, <1>2, <1>3, MonthsBefore DEF Number
<1>5. /\ m < 2 => A!Before[m] = 0 
      /\ m = 2 => A!Before[m] = 31
      /\ m = 3 => A!Before[m] = 59 
      /\ m >= 4 => A!Before[m] >= 90
  <2>1. m < 2 => m = 1
    OBVIOUS
  <2> QED BY <2>1, MonthsBefore
<1>6. y = 0 => q = 0 /\ r = IF m > 2 THEN 1 ELSE 0
  BY <1>2, <1>3
<1>7. m = 2 => d <= 29
  <2>1. A!MonthDays(m, y) \in Int /\ d <= A!MonthDays(m, y)
    BY Months DEF Real
  <2>2. m = 2 => A!MonthDays(m, y) <= 29
    BY DEF A!MonthDays, A!CommonDays, A!LeapYear
  <2> QED BY <2>1, <2>2
<1>8. n < 45 \/ n >= 75 \/ (y = 0 /\ InSpring(m, d, 0))
  <2> SUFFICES ASSUME n >= 45, n < 75 PROVE y = 0 /\ InSpring(m, d, 0)
    OBVIOUS
  <2>1. y = 0
    BY <1>4
  <2>2. m \in 2 .. 3
    BY <1>4, <1>5, <1>6, <2>1
  <2>3. IF m = 2 THEN 15 - 0 <= d /\ d <= 29 ELSE d <= 15 + 0
    BY <1>4, <1>5, <1>6, <1>7, <2>1, <2>2
  <2> QED BY <2>1, <2>2, <2>3 DEF InSpring
<1>9. Minute(y, m, d, h, k) = 60 * (24 * n + h) + k
  BY <1>1 DEF Minute
<1>10. n < 45 \/ n >= 75 => Far(Minute(y, m, d, h, k))
  BY <1>9 DEF Far
<1> QED BY <1>8, <1>10

(* Where the two shifts lead, for a time far from the leap day of 2000. *)
LEMMA LocalFar ==
  ASSUME NEW p \in Int, IsMinute(utc, p), Far(p), p < Century, rtc_offset \in Zones,
         p + 60 * rtc_offset >= 0
  PROVE  T!dst \in {0, 1} /\ IsMinute(T!Local, p + 60 * rtc_offset + 60 * T!dst)
         /\ (p + 60 * rtc_offset < Century => p + 60 * rtc_offset + 60 * T!dst < Century)
<1>1. PICK s \in Int : s = p + 60 * rtc_offset
  BY ZoneAssumption
<1>2. IsMinute(T!Standard, s)
  <2>1. rtc_offset \in -12 .. 12
    BY ZoneAssumption
  <2>2. IsMinute(T!ShiftHours(utc, rtc_offset), p + 60 * rtc_offset)
    BY <2>1, ShiftedFar
  <2> QED BY <1>1, <2>2 DEF T!Standard
<1>3. PICK y \in 0 .. 255, m \in 1 .. 12, d \in 1 .. 31, h \in 0 .. 23, k \in 0 .. 59 :
        T!Standard = At(y, m, d, h, k) /\ Minute(y, m, d, h, k) = s /\ Reached(y, m, d)
  BY <1>2 DEF IsMinute
<1>4. T!Standard.MM = m
  BY <1>3 DEF At
<1>5. T!dst \in {0, 1} /\ (T!dst = 1 => m \in 3 .. 10)
  BY <1>4, DstIs
<1>6. T!Local = T!ShiftHours(T!Standard, T!dst)
  BY DEF T!Local
<1>7. CASE T!dst = 0
  <2>1. T!Local = T!Standard
    BY <1>6, <1>7, ShiftNoneOrOne
  <2>2. s + 60 * T!dst = s
    BY <1>7
  <2> QED BY <1>1, <1>2, <1>7, <2>1, <2>2
<1>8. CASE T!dst = 1
  <2>1. T!Local = A!add_hour(T!Standard)
    BY <1>6, <1>8, ShiftNoneOrOne
  <2>2. PICK n \in Int : n = Number(y, m, d) /\ n <= 36500
    <3>1. m \in 3 .. 10
      BY <1>5, <1>8
    <3>2. y \in 0 .. 99
      BY <1>3, <3>1 DEF Reached, Real
    <3>3. A!Before[m] \in Nat /\ A!Before[m] <= 273
      BY <3>1, MonthsBefore
    <3> QED BY <3>2, <3>3 DEF Number
  <2>3. s = 60 * (24 * n + h) + k
    BY <1>3, <2>2 DEF Minute
  <2>4. s + 60 < Century /\ s < Century + 60 * 23
    BY <2>2, <2>3 DEF Century
  <2>5. s < 60 * (24 * 58) \/ s >= 60 * (24 * 61)
    <3>1. rtc_offset \in -12 .. 12
      BY ZoneAssumption
    <3> QED BY <1>1, <3>1 DEF Far
  <2>6. IsMinute(A!add_hour(T!Standard), s + 60)
    BY <1>2, <2>4, <2>5, HourOn
  <2>7. s + 60 * T!dst = s + 60
    BY <1>8
  <2> QED BY <1>1, <1>8, <2>1, <2>4, <2>6, <2>7
<1> QED BY <1>5, <1>7, <1>8

LEMMA LocalSpring ==
  ASSUME Spring(utc, 0), rtc_offset \in Zones
  PROVE  A!Exists(T!Local)
<1>1. PICK a \in 0 .. 12 : a = IF rtc_offset > 0 THEN rtc_offset ELSE -rtc_offset
  BY ZoneAssumption
<1>2. Spring(T!Standard, a)
  <2>1. Spring(T!ShiftHours(utc, rtc_offset), 0 + (IF rtc_offset > 0 THEN rtc_offset ELSE -rtc_offset))
    <3>1. 0 \in 0 .. 12 /\ rtc_offset \in -13 .. 13
          /\ 0 + (IF rtc_offset > 0 THEN rtc_offset ELSE -rtc_offset) <= 13
      BY ZoneAssumption
    <3> QED BY <3>1, ShiftedSpring, Zenon
  <2>2. 0 + (IF rtc_offset > 0 THEN rtc_offset ELSE -rtc_offset) = a
    BY <1>1
  <2> QED BY <2>1, <2>2 DEF T!Standard
<1>3. T!dst \in {0, 1}
  <2>1. T!Standard.MM \in 1 .. 12
    BY <1>2 DEF Spring, At
  <2> QED BY <2>1, DstIs
<1>4. Spring(A!add_hour(T!Standard), a + 1)
  <2>1. Spring(Step(1, T!Standard), a + 1)
    BY <1>2, SpringStep
  <2> QED BY <2>1 DEF Step
<1>5. T!Local = T!Standard \/ T!Local = A!add_hour(T!Standard)
  <2>1. T!Local = T!ShiftHours(T!Standard, T!dst)
    BY DEF T!Local
  <2> QED BY <1>3, <2>1, ShiftNoneOrOne
<1>6. PICK j \in Int : Spring(T!Local, j)
  BY <1>2, <1>4, <1>5
<1>7. PICK m \in 2 .. 3, d \in 1 .. 31, h \in 0 .. 23, k \in 0 .. 59 :
        T!Local = At(0, m, d, h, k) /\ InSpring(m, d, j)
  BY <1>6 DEF Spring
<1>8. A!MonthDays(2, 0) = 29 /\ A!MonthDays(3, 0) = 31
  BY DEF A!MonthDays, A!CommonDays, A!LeapYear
<1>9. d <= A!MonthDays(m, 0)
  BY <1>7, <1>8 DEF InSpring
<1> QED BY <1>7, <1>8, <1>9 DEF A!Exists, At

LEMMA HourOfMinute ==
  ASSUME NEW t, NEW n \in Int, IsMinute(t, n)
  PROVE  \E x \in Int : \E k \in 0 .. 59 : A!HourNumber(t) = x /\ n = 60 * x + k
<1>1. PICK y \in 0 .. 255, m \in 1 .. 12, d \in 1 .. 31, h \in 0 .. 23, k \in 0 .. 59 :
        t = At(y, m, d, h, k) /\ Minute(y, m, d, h, k) = n
  BY DEF IsMinute
<1>2. Number(y, m, d) \in Int
  <2>1. y \in Int /\ d \in Int
    OBVIOUS
  <2> QED BY <2>1, NumberIsInt, Zenon
<1>3. A!HourNumber(t) = 24 * Number(y, m, d) + h
  <2>1. A!DayNumber(t) = Number(y, m, d) /\ t.hh = h
    BY <1>1 DEF At, A!DayNumber, Number, A!LeapYear
  <2> QED BY <2>1 DEF A!HourNumber
<1> QED BY <1>1, <1>2, <1>3 DEF Minute

LEMMA LocalHolds == LocalInv => T!TypeOK /\ T!LocalIsShifted
<1> SUFFICES ASSUME LocalInv PROVE T!TypeOK /\ T!LocalIsShifted
  OBVIOUS
<1>1. PICK y \in 0 .. 255, m \in 1 .. 12, d \in 1 .. 31, h \in 0 .. 23, k \in 0 .. 59 :
        utc = At(y, m, d, h, k)
  BY MomentAt DEF LocalInv
<1>2. A!Exists(utc) /\ rtc_offset \in Zones /\ rtc_offset \in -12 .. 12
  BY ZoneAssumption DEF LocalInv
<1>3. Real(y, m, d) /\ y \in 0 .. 99 /\ Reached(y, m, d)
  <2>1. A!Exists(At(y, m, d, h, k))
    BY <1>1, <1>2
  <2>2. Real(y, m, d)
    BY <2>1, NumberAt, Zenon
  <2> QED BY <2>2 DEF Real, Reached
<1>4. PICK n \in Int : n = Number(y, m, d)
  BY <1>3, RealDay
<1>5. PICK p \in Int : p = Minute(y, m, d, h, k) /\ p = 60 * (24 * n + h) + k
  BY <1>4 DEF Minute
<1>6. IsMinute(utc, p)
  BY <1>1, <1>3, <1>5, MinuteIs
<1>7. p < Century
  <2>1. n <= 36524
    <3>1. A!Before[m] \in Nat /\ A!Before[m] <= 334
      BY MonthsBefore
    <3> QED BY <1>3, <1>4, <3>1 DEF Number
  <2> QED BY <1>5, <2>1 DEF Century
<1>8. T!HourNumber(utc) = 24 * n + h
  <2>1. A!HourNumber(utc) = 24 * n + h
    BY <1>1, <1>4, NumberAt
  <2> QED BY <2>1, SameCount
<1>9. Far(p) \/ (y = 0 /\ InSpring(m, d, 0))
  BY <1>3, <1>5, FarOrSpring
<1>10. ASSUME Far(p), p + 60 * rtc_offset >= 0
       PROVE  /\ T!HourNumber(T!Local) - T!HourNumber(utc) \in {rtc_offset, rtc_offset + 1}
              /\ p + 60 * rtc_offset < Century => T!Exists(T!Local)
  <2>1. PICK e \in {0, 1} : e = T!dst
    BY <1>2, <1>6, <1>7, <1>10, LocalFar
  <2>2. PICK l \in Int : l = p + 60 * rtc_offset + 60 * e
    BY <1>2
  <2>3. IsMinute(T!Local, l) /\ (p + 60 * rtc_offset < Century => l < Century)
    BY <1>2, <1>6, <1>7, <1>10, <2>1, <2>2, LocalFar
  <2>4. p + 60 * rtc_offset < Century => T!Exists(T!Local)
    BY <2>3, MinuteExists, SameCount
  <2>5. PICK x \in Int, k2 \in 0 .. 59 : A!HourNumber(T!Local) = x /\ l = 60 * x + k2
    BY <2>3, HourOfMinute
  <2>7. T!HourNumber(T!Local) = x
    BY <2>5, SameCount
  <2>9. x = 24 * n + h + rtc_offset + e
    BY <1>2, <1>5, <2>2, <2>5
  <2> QED BY <1>2, <1>8, <2>4, <2>7, <2>9
<1>11. T!LocalIsShifted
  <2> SUFFICES ASSUME utc.YY # 0 \/ utc.MM > 3
               PROVE  T!HourNumber(T!Local) - T!HourNumber(utc) \in {rtc_offset, rtc_offset + 1}
    BY DEF T!LocalIsShifted
  <2>1. y # 0 \/ m > 3
    BY <1>1 DEF At
  <2>2. Far(p)
    BY <1>9, <2>1 DEF InSpring
  <2>3. n >= 60
    <3>1. A!Before[m] \in Nat /\ (m > 3 => A!Before[m] >= 90)
      BY MonthsBefore
    <3> QED BY <1>4, <2>1, <3>1 DEF Number
  <2>4. p + 60 * rtc_offset >= 0
    BY <1>2, <1>5, <2>3
  <2> QED BY <1>10, <2>2, <2>4
<1>12. T!TypeOK
  <2>1. ASSUME T!HourNumber(utc) + rtc_offset \in 0 .. T!CenturyHours - 1
        PROVE  T!Exists(T!Local)
    <3>1. PICK c \in Int : c = T!CenturyHours
      BY DEF T!CenturyHours
    <3>2. 24 * n + h + rtc_offset >= 0 /\ 24 * n + h + rtc_offset < c
      BY <1>2, <1>8, <2>1, <3>1
    <3>3. p + 60 * rtc_offset >= 0
      BY <1>2, <1>5, <3>2
    <3>4. Century = 60 * c
      BY <3>1 DEF Century, T!CenturyHours
    <3>5. p + 60 * rtc_offset < Century
      BY <1>2, <1>5, <3>2, <3>4
    <3>6. CASE Far(p)
      BY <1>10, <3>3, <3>5, <3>6
    <3>7. CASE y = 0 /\ InSpring(m, d, 0)
      <4>1. Spring(At(0, m, d, h, k), 0)
        BY <3>7, SpringIs
      <4>2. A!Exists(T!Local)
        BY <1>1, <1>2, <3>7, <4>1, LocalSpring
      <4> QED BY <4>2, SameCount
    <3> QED BY <1>9, <3>6, <3>7
  <2>2. T!Exists(utc)
    BY <1>2, SameCount
  <2> QED BY <1>2, <2>1, <2>2 DEF T!TypeOK
<1> QED BY <1>11, <1>12

-----------------------------------------------------------------------------
(* All the parts together. *)
AllInv == MailInv /\ DateInv /\ LocalInv

LEMMA WeekdayHolds == DateInv => A!WeekdayFollows
<1> SUFFICES ASSUME DateInv, A!Exists(date)
             PROVE  A!Weekday(date) = A!WeekdayOfDay(A!DayNumber(date))
  BY DEF A!WeekdayFollows
<1>1. PICK y \in 0 .. 255, m \in 1 .. 12, d \in 1 .. 31, h \in 0 .. 23, k \in 0 .. 59 :
        date = At(y, m, d, h, k)
  BY MomentAt DEF DateInv
<1>2. Real(y, m, d) /\ A!DayNumber(date) = Number(y, m, d)
  BY <1>1, NumberAt
<1>3. y \in 0 .. 99
  BY <1>2 DEF Real
<1> QED BY <1>1, <1>2, <1>3, WeekdayIs

LEMMA AllGive == AllInv => PartsInv
<1> SUFFICES ASSUME AllInv PROVE PartsInv
  OBVIOUS
<1>1. M!TypeOK
  <2>1. BoxInv /\ (AtEnd \/ AtStart \/ InText)
    BY DEF AllInv, MailInv
  <2>2. sent \in M!Commands \/ sent = M!Nothing
    BY <2>1 DEF AtEnd, AtStart, InText
  <2> QED BY <2>1, <2>2 DEF BoxInv, M!TypeOK, Stored, MAX
<1>2. A!TypeOK
  BY MomentIsAt DEF AllInv, DateInv, A!TypeOK
<1> QED BY <1>1, <1>2, WeekdayHolds, LocalHolds DEF AllInv, PartsInv

LEMMA AllStart == MCInit => AllInv
<1> SUFFICES ASSUME MCInit PROVE AllInv
  OBVIOUS
<1>1. MailInv
  BY MailStart DEF MCInit
<1>2. LocalInv
  BY LocalStart DEF MCInit
<1>3. DateInv
  <2>1. CASE part = "date"
    BY <2>1, DateStart DEF MCInit
  <2>2. CASE part # "date"
    <3>1. [YY |-> 3, MM |-> 1, DD |-> 1, hh |-> 0, mm |-> 0] \in Moments
      BY DEF Moments
    <3> QED BY <2>2, <3>1, DateAssumption DEF MCInit, DateInv
  <2> QED BY <2>1, <2>2
<1> QED BY <1>1, <1>2, <1>3 DEF AllInv

LEMMA AllKept ==
  AllInv /\ [LightStep \/ WordsStep \/ MailStep \/ DateStep \/ LocalStep]_all => AllInv'
<1> SUFFICES ASSUME AllInv, [LightStep \/ WordsStep \/ MailStep \/ DateStep \/ LocalStep]_all
             PROVE  AllInv'
  OBVIOUS
<1>1. [M!Next]_(M!vars) /\ [A!Next]_(A!vars) /\ [T!Next]_(T!vars)
  BY DEF LightStep, WordsStep, MailStep, DateStep, LocalStep, all, mailbox, dates, local,
         M!vars, A!vars, T!vars
<1> QED BY <1>1, MailNext, DateKept, LocalKept DEF AllInv

(* Every instance of the clock's parts, for every alphabet of commands, line
   length, buffer, set of years to begin in and last year: what the clock
   keeps is typed, the weekday it computes is the day's, and local time is
   universal time moved by the zone and at most an hour, at every hour of the
   century. *)
THEOREM PartsHold == MCSpec => []PartsInv
BY AllGive, AllStart, AllKept, PTL DEF MCSpec

-----------------------------------------------------------------------------
(* Summer time. *)

\* An hour more: the fields of standard time in Germany.
HourLater(y, m, d, h) ==
  /\ h < 23 => T!Standard.MM = m /\ T!Standard.DD = d /\ T!Standard.hh = h + 1
  /\ h = 23 /\ d + 1 <= A!DaysIn(m, y)
       => T!Standard.MM = m /\ T!Standard.DD = d + 1 /\ T!Standard.hh = 0
  /\ h = 23 /\ ~(d + 1 <= A!DaysIn(m, y))
       => /\ T!Standard.MM = (IF m < 12 THEN m + 1 ELSE 1)
          /\ T!Standard.DD = 1 /\ T!Standard.hh = 0

LEMMA StandardIs ==
  ASSUME NEW y, NEW m \in 1 .. 12, NEW d \in 1 .. 31, NEW h \in 0 .. 23, NEW k,
         utc = At(y, m, d, h, k), rtc_offset = 1
  PROVE  HourLater(y, m, d, h)
<1>1. T!Standard = A!add_hour(utc)
  BY ShiftNoneOrOne DEF T!Standard
<1>2. CASE h < 23
  <2>1. T!Standard = At(y, m, d, h + 1, k)
    BY <1>1, <1>2 DEF A!add_hour, At
  <2> QED BY <1>2, <2>1 DEF At, HourLater
<1>3. CASE h = 23 /\ d + 1 <= A!DaysIn(m, y)
  <2>1. T!Standard = A!add_day(At(y, m, d, 0, k))
    BY <1>1, <1>3 DEF A!add_hour, At
  <2>2. T!Standard = At(y, m, d + 1, 0, k)
    BY <1>3, <2>1 DEF A!add_day, At
  <2> QED BY <1>3, <2>2 DEF At, HourLater
<1>4. CASE h = 23 /\ ~(d + 1 <= A!DaysIn(m, y))
  <2>1. T!Standard = A!add_day(At(y, m, d, 0, k))
    BY <1>1, <1>4 DEF A!add_hour, At
  <2>2. T!Standard = A!add_month(At(y, m, 1, 0, k))
    BY <1>4, <2>1 DEF A!add_day, At
  <2>3. CASE m < 12
    <3>1. T!Standard = At(y, m + 1, 1, 0, k)
      BY <2>2, <2>3 DEF A!add_month, At
    <3> QED BY <1>4, <2>3, <3>1 DEF At, HourLater
  <2>4. CASE m = 12
    <3>1. T!Standard = A!add_year(At(y, 1, 1, 0, k))
      BY <2>2, <2>4 DEF A!add_month, At
    <3> QED BY <1>4, <2>4, <3>1 DEF A!add_year, At, HourLater
  <2> QED BY <2>3, <2>4
<1> QED BY <1>2, <1>3, <1>4

\* The last Sunday of a month of 31 days.
LEMMA Sundays ==
  ASSUME NEW n \in Int
  PROVE  /\ A!WeekdayOfDay(n) \in 0 .. 6
         /\ \E j \in Int : A!WeekdayOfDay(n) = n + 6 + 7 * j
<1>1. PICK x \in Int : x = n + 6
  OBVIOUS
<1>2. x % 7 \in 0 .. 6 /\ x % 7 = x - 7 * (x \div 7) /\ x \div 7 \in Int
  BY SMT
<1>3. PICK j \in Int : j = -(x \div 7)
  BY <1>2
<1>4. A!WeekdayOfDay(n) = x % 7
  BY <1>1 DEF A!WeekdayOfDay
<1>5. A!WeekdayOfDay(n) = n + 6 + 7 * j
  BY <1>1, <1>2, <1>3, <1>4
<1> QED BY <1>2, <1>4, <1>5

LEMMA LastSundayIs ==
  ASSUME NEW y \in 0 .. 99, NEW m \in {3, 10}, NEW u \in 1 .. 12, NEW v \in 1 .. 31, NEW h, NEW k,
         utc = At(y, u, v, h, k)
  PROVE  /\ T!LastSunday(m) \in 25 .. 31
         /\ T!HourNumber([utc EXCEPT !.MM = m, !.DD = T!LastSunday(m), !.hh = 1])
              = 24 * (Number(y, m, 1) + T!LastSunday(m) - 1) + 1
         /\ \A d \in 1 .. 31 : \E j \in Int :
              d - T!LastSunday(m) = A!WeekdayOfDay(Number(y, m, d)) + 7 * j
<1>1. PICK b \in Int : b = Number(y, m, 1)
  <2>1. y \in Int /\ m \in 1 .. 12 /\ 1 \in Int
    OBVIOUS
  <2> QED BY <2>1, NumberIsInt, Zenon
<1>2. ASSUME NEW d \in Int
      PROVE  Number(y, m, d) = b + d - 1 /\ A!DayNumber([utc EXCEPT !.MM = m, !.DD = d]) = b + d - 1
             /\ A!DayNumber([utc EXCEPT !.MM = m, !.DD = d, !.hh = 1]) = b + d - 1
  <2>1. A!Before[m] \in Int
    BY MonthsBefore
  <2>2. PICK s : s = [utc EXCEPT !.MM = m, !.DD = d]
    OBVIOUS
  <2>5. PICK r : r = [utc EXCEPT !.MM = m, !.DD = d, !.hh = 1]
    OBVIOUS
  <2>6. s = At(y, m, d, h, k)
    BY <2>2 DEF At
  <2>7. r = At(y, m, d, 1, k)
    BY <2>5 DEF At
  <2>3. A!DayNumber(At(y, m, d, h, k)) = Number(y, m, d) /\ A!DayNumber(At(y, m, d, 1, k)) = Number(y, m, d)
    BY DEF At, A!DayNumber, Number, A!LeapYear
  <2>4. Number(y, m, d) = b + d - 1
    BY <1>1, <2>1 DEF Number
  <2> QED BY <2>2, <2>3, <2>4, <2>5, <2>6, <2>7
<1>3. PICK w \in 0 .. 6 : w = A!WeekdayOfDay(b + 30)
  BY Sundays
<1>4. T!LastSunday(m) = 31 - w
  <2>1. A!DayNumber([utc EXCEPT !.MM = m, !.DD = 31]) = b + 30
    <3>1. 31 \in Int /\ b + 31 - 1 = b + 30
      OBVIOUS
    <3> QED BY <1>2, <3>1
  <2>2. T!DayNumber([utc EXCEPT !.MM = m, !.DD = 31]) = b + 30
    BY <2>1, SameCount
  <2> QED BY <1>3, <2>2 DEF T!LastSunday, T!WeekdayOfDay, A!WeekdayOfDay
<1>5. PICK s \in 25 .. 31 : s = T!LastSunday(m) /\ s = 31 - w
  BY <1>4
<1>6. T!HourNumber([utc EXCEPT !.MM = m, !.DD = s, !.hh = 1]) = 24 * (b + s - 1) + 1
  <2>1. A!DayNumber([utc EXCEPT !.MM = m, !.DD = s, !.hh = 1]) = b + s - 1
    <3>1. s \in Int
      OBVIOUS
    <3> QED BY <1>2, <3>1, Zenon
  <2>2. [utc EXCEPT !.MM = m, !.DD = s, !.hh = 1].hh = 1
    BY DEF At
  <2>3. A!HourNumber([utc EXCEPT !.MM = m, !.DD = s, !.hh = 1]) = 24 * (b + s - 1) + 1
    BY <2>1, <2>2 DEF A!HourNumber
  <2> QED BY <2>3, SameCount
<1>7. ASSUME NEW d \in 1 .. 31
      PROVE  \E j \in Int : d - s = A!WeekdayOfDay(Number(y, m, d)) + 7 * j
  <2>1. Number(y, m, d) = b + d - 1
    <3>1. d \in Int
      OBVIOUS
    <3> QED BY <1>2, <3>1, Zenon
  <2>2. PICK n \in Int, v1 \in Int : n = Number(y, m, d) /\ v1 = A!WeekdayOfDay(n)
    BY <2>1, Sundays
  <2>3. PICK i \in Int : v1 = n + 6 + 7 * i
    BY <2>2, Sundays
  <2>4. PICK l \in Int : w = b + 30 + 6 + 7 * l
    BY <1>3, Sundays
  <2>5. PICK j \in Int : j = l - i
    OBVIOUS
  <2>6. d - s = v1 + 7 * j
    BY <1>5, <2>1, <2>2, <2>3, <2>4, <2>5
  <2> QED BY <2>2, <2>6
<1> QED BY <1>1, <1>5, <1>6, <1>7

LEMMA MonthOrder ==
  ASSUME NEW y \in 0 .. 99, NEW m \in 1 .. 12, NEW d \in 1 .. 31, Real(y, m, d), NEW c \in {3, 10}
  PROVE  /\ m < c => Number(y, m, d) < Number(y, c, 1)
         /\ m = c => Number(y, m, d) = Number(y, c, 1) + d - 1
         /\ m > c => Number(y, m, d) >= Number(y, c, 1) + 31
<1>1. /\ A!Before[1] = 0 /\ A!Before[2] = 31 /\ A!Before[3] = 59 /\ A!Before[4] = 90
      /\ A!Before[5] = 120 /\ A!Before[6] = 151 /\ A!Before[7] = 181 /\ A!Before[8] = 212
      /\ A!Before[9] = 243 /\ A!Before[10] = 273 /\ A!Before[11] = 304 /\ A!Before[12] = 334
  BY DEF A!Before
<1>2. PICK leap \in {0, 1} : leap = IF y % 4 = 0 THEN 1 ELSE 0
  OBVIOUS
<1>3. PICK q \in Int : q = 365 * y + (y + 3) \div 4
  OBVIOUS
<1>4. PICK b \in Int, x \in {59, 273} :
        b = A!Before[m] /\ x = A!Before[c] /\ (c = 3 => x = 59) /\ (c = 10 => x = 273)
  BY <1>1, MonthsBefore
<1>5. /\ Number(y, m, d) = q + b + (IF m > 2 THEN leap ELSE 0) + d - 1
      /\ Number(y, c, 1) = q + x + leap
  BY <1>2, <1>3, <1>4 DEF Number
<1>6. d <= A!CommonDays(m) + (IF m = 2 THEN leap ELSE 0) /\ A!CommonDays(m) \in 28 .. 31
  <2>1. A!MonthDays(m, y) = A!CommonDays(m) + (IF m = 2 THEN leap ELSE 0)
    BY <1>2 DEF A!MonthDays, A!CommonDays, A!LeapYear
  <2> QED BY <2>1, Months DEF Real
<1>7. PICK e \in 28 .. 31 : e = A!CommonDays(m)
  BY <1>6
<1>8. (m < 3 => b + e <= 59) /\ (m < 10 => b + e <= 273) /\ (m > 3 => b >= 90) /\ (m > 10 => b >= 304)
  <2>1. m \in {1, 2, 3, 4, 5, 6, 7, 8, 9, 10, 11, 12}
    OBVIOUS
  <2> QED BY <1>1, <1>4, <1>7, <2>1 DEF A!CommonDays
<1>9. CASE c = 3
  BY <1>4, <1>5, <1>6, <1>7, <1>8, <1>9
<1>10. CASE c = 10
  BY <1>4, <1>5, <1>6, <1>7, <1>8, <1>10
<1> QED BY <1>9, <1>10

LegalAt(m, d, h) ==
  /\ m < 3 \/ m > 10 => T!Legal = 0
  /\ m \in 4 .. 9 => T!Legal = 1
  /\ m = 3 => T!Legal = IF 24 * (d - T!LastSunday(3)) + h >= 1 THEN 1 ELSE 0
  /\ m = 10 => T!Legal = IF 24 * (d - T!LastSunday(10)) + h >= 1 THEN 0 ELSE 1

LEMMA LegalIs ==
  ASSUME NEW y \in 0 .. 99, NEW m \in 1 .. 12, NEW d \in 1 .. 31, NEW h \in 0 .. 23, NEW k \in 0 .. 59,
         Real(y, m, d), utc = At(y, m, d, h, k)
  PROVE  LegalAt(m, d, h)
<1>1. PICK n \in Int : n = Number(y, m, d)
  BY RealDay
<1>2. PICK a \in Int : a = Number(y, 3, 1)
  <2>1. y \in Int /\ 3 \in 1 .. 12 /\ 1 \in Int
    OBVIOUS
  <2> QED BY <2>1, NumberIsInt, Zenon
<1>3. PICK b \in Int : b = Number(y, 10, 1)
  <2>1. y \in Int /\ 10 \in 1 .. 12 /\ 1 \in Int
    OBVIOUS
  <2> QED BY <2>1, NumberIsInt, Zenon
<1>4. PICK s \in 25 .. 31 : s = T!LastSunday(3)
        /\ T!HourNumber([utc EXCEPT !.MM = 3, !.DD = T!LastSunday(3), !.hh = 1]) = 24 * (a + s - 1) + 1
  BY <1>2, LastSundayIs
<1>5. PICK z \in 25 .. 31 : z = T!LastSunday(10)
        /\ T!HourNumber([utc EXCEPT !.MM = 10, !.DD = T!LastSunday(10), !.hh = 1]) = 24 * (b + z - 1) + 1
  BY <1>3, LastSundayIs
<1>6. T!HourNumber(utc) = 24 * n + h
  <2>1. A!HourNumber(utc) = 24 * n + h
    <3>1. A!DayNumber(utc) = n /\ utc.hh = h
      BY <1>1 DEF At, A!DayNumber, Number, A!LeapYear
    <3> QED BY <3>1 DEF A!HourNumber
  <2> QED BY <2>1, SameCount
<1>7. T!Legal = IF 24 * n + h \in 24 * (a + s - 1) + 1 .. 24 * (b + z - 1) + 1 - 1 THEN 1 ELSE 0
  BY <1>4, <1>5, <1>6 DEF T!Legal
<1>8. /\ m < 3 => n < a
      /\ m = 3 => n = a + d - 1
      /\ m > 3 => n >= a + 31
  BY <1>1, <1>2, MonthOrder
<1>9. /\ m < 10 => n < b
      /\ m = 10 => n = b + d - 1
      /\ m > 10 => n >= b + 31
  BY <1>1, <1>3, MonthOrder
<1>10. m < 3 \/ m > 10 => T!Legal = 0
  BY <1>7, <1>8, <1>9
<1>11. m \in 4 .. 9 => T!Legal = 1
  BY <1>7, <1>8, <1>9
<1>12. m = 3 => T!Legal = IF 24 * (d - s) + h >= 1 THEN 1 ELSE 0
  BY <1>7, <1>8, <1>9
<1>13. m = 10 => T!Legal = IF 24 * (d - z) + h >= 1 THEN 0 ELSE 1
  BY <1>7, <1>8, <1>9
<1> QED BY <1>4, <1>5, <1>10, <1>11, <1>12, <1>13 DEF LegalAt

\* Sunday arithmetic: d is a day of a month of 31 days, w its weekday and s
\* the last Sunday; in d2 and h2 it is an hour later.
Off(d, h, s) ==
  (d = s /\ h = 1) \/ (h = 23 /\ IF s = 31 THEN d \in 25 .. 30 ELSE d = s)

AnHourOn(d, h, d2, h2) ==
  (h < 23 => d2 = d /\ h2 = h + 1) /\ (h = 23 => d2 = d + 1 /\ h2 = 0)

LEMMA SwitchHours ==
  ASSUME NEW d \in 1 .. 31, NEW h \in 0 .. 23, NEW w \in 0 .. 6, NEW s \in 25 .. 31, NEW j \in Int,
         d - s = w + 7 * j, NEW d2 \in Int, NEW h2 \in Int,
         AnHourOn(d, h, d2, h2),
         d < 31 \/ h < 23
  PROVE  (T!AfterLastSunday(d2, w, h2) <=> 24 * (d - s) + h >= 1)
           <=> ~Off(d, h, s)
<1>7. (h < 23 => d2 = d /\ h2 = h + 1) /\ (h = 23 => d2 = d + 1 /\ h2 = 0)
  BY DEF AnHourOn
<1>1. T!AfterLastSunday(d2, w, h2) <=> d2 - w >= 25 /\ (w # 0 \/ h2 > 2)
  BY DEF T!AfterLastSunday
<1>2. 24 * (d - s) + h >= 1 <=> d > s \/ (d = s /\ h >= 1)
  OBVIOUS
<1>3. d = s + w + 7 * j /\ j <= 0
  OBVIOUS
<1>4. d >= s <=> j >= 0
  BY <1>3
<1>5. CASE h < 23
  <2>1. d2 - w >= 25 <=> j >= 0
    BY <1>3, <1>5, <1>7
  <2>2. T!AfterLastSunday(d2, w, h2) <=> j >= 0 /\ (w # 0 \/ h > 1)
    BY <1>1, <1>5, <1>7, <2>1
  <2>3. j >= 0 => (d = s <=> w = 0)
    BY <1>3
  <2>4. CASE j >= 0
    BY <1>2, <1>3, <1>4, <1>5, <2>2, <2>3, <2>4 DEF Off
  <2>5. CASE j < 0
    BY <1>2, <1>3, <1>4, <1>5, <2>2, <2>5 DEF Off
  <2> QED BY <2>4, <2>5
<1>6. CASE h = 23
  <2>1. T!AfterLastSunday(d2, w, h2) <=> d + 1 - w >= 25 /\ w # 0
    BY <1>1, <1>6, <1>7
  <2>2. d + 1 - w >= 25 <=> j >= 0 \/ (j >= -1 /\ s = 31)
    BY <1>3
  <2>3. d < 31
    BY <1>6
  <2>4. 24 * (d - s) + h >= 1 <=> j >= 0
    BY <1>2, <1>4, <1>6
  <2>5. CASE j >= 0
    BY <1>3, <1>6, <2>1, <2>2, <2>3, <2>4, <2>5 DEF Off
  <2>6. CASE j < 0
    BY <1>3, <1>6, <2>1, <2>2, <2>3, <2>4, <2>6 DEF Off
  <2> QED BY <2>5, <2>6
<1> QED BY <1>5, <1>6

\* In the two months of the switches the weekday read is still of the
\* universal day; everything else is the month's.
LEMMA SwitchMonth ==
  ASSUME NEW y \in 0 .. 99, NEW m \in {3, 10}, NEW d \in 1 .. 31, NEW h \in 0 .. 23, NEW k \in 0 .. 59,
         utc = At(y, m, d, h, k), rtc_offset = 1
  PROVE  T!dst # T!Legal <=> Off(d, h, T!LastSunday(m))
<1>1. m \in 1 .. 12 /\ A!MonthDays(m, y) = 31 /\ A!DaysIn(m, y) = 31 /\ Real(y, m, d)
  <2>1. A!MonthDays(m, y) = 31 /\ A!DaysIn(m, y) = 31
    BY DEF A!MonthDays, A!DaysIn, A!CommonDays
  <2> QED BY <2>1 DEF Real
<1>2. PICK s \in 25 .. 31 : s = T!LastSunday(m)
  BY <1>1, LastSundayIs
<1>3. PICK w \in 0 .. 6 : w = T!Weekday(utc) /\ w = A!WeekdayOfDay(Number(y, m, d))
  <2>1. T!Weekday(utc) = A!WeekdayOfDay(Number(y, m, d))
    <3>1. A!Weekday(At(y, m, d, h, k)) = A!WeekdayOfDay(Number(y, m, d))
      BY <1>1, WeekdayIs, Zenon
    <3> QED BY <3>1, SameCount
  <2>2. Number(y, m, d) \in Int
    BY <1>1, RealDay
  <2> QED BY <2>1, <2>2, Sundays
<1>4. PICK j \in Int : d - s = w + 7 * j
  <2>1. \E j \in Int : d - T!LastSunday(m) = A!WeekdayOfDay(Number(y, m, d)) + 7 * j
    BY <1>1, LastSundayIs
  <2> QED BY <1>2, <1>3, <2>1
<1> DEFINE legal == 24 * (d - s) + h >= 1
<1>5. /\ m = 3 => T!Legal = IF legal THEN 1 ELSE 0
      /\ m = 10 => T!Legal = IF legal THEN 0 ELSE 1
  <2>1. /\ m = 3 => T!Legal = IF 24 * (d - T!LastSunday(3)) + h >= 1 THEN 1 ELSE 0
        /\ m = 10 => T!Legal = IF 24 * (d - T!LastSunday(10)) + h >= 1 THEN 0 ELSE 1
    <3>1. LegalAt(m, d, h)
      BY <1>1, LegalIs, Zenon
    <3> QED BY <3>1 DEF LegalAt
  <2>2. m = 3 => T!LastSunday(3) = s
    BY <1>2
  <2>3. m = 10 => T!LastSunday(10) = s
    BY <1>2
  <2> QED BY <2>1, <2>2, <2>3
<1>8. HourLater(y, m, d, h)
  BY <1>1, StandardIs, Zenon
<1>6. CASE d < 31 \/ h < 23
  <2>1. PICK e \in Int, i \in Int : e = T!Standard.DD /\ i = T!Standard.hh
          /\ AnHourOn(d, h, e, i)
    BY <1>1, <1>6, <1>8 DEF HourLater, AnHourOn
  <2>2. T!Standard.MM = m
    BY <1>1, <1>6, <1>8 DEF HourLater
  <2>3. (T!AfterLastSunday(e, w, i) <=> 24 * (d - s) + h >= 1)
           <=> ~Off(d, h, s)
    BY <1>4, <1>6, <2>1, SwitchHours, Zenon
  <2>4. /\ m = 3 => T!dst = IF T!AfterLastSunday(e, w, i) THEN 1 ELSE 0
        /\ m = 10 => T!dst = IF T!AfterLastSunday(e, w, i) THEN 0 ELSE 1
    BY <1>1, <1>3, <2>1, <2>2, DstIs
  <2>6. legal <=> 24 * (d - s) + h >= 1
    OBVIOUS
  <2> HIDE DEF legal
  <2>5. (T!dst # T!Legal) <=> ~(T!AfterLastSunday(e, w, i) <=> legal)
    <3>1. CASE m = 3
      BY <1>5, <2>4, <3>1
    <3>2. CASE m = 10
      BY <1>5, <2>4, <3>2
    <3> QED BY <3>1, <3>2
  <2> QED BY <1>2, <2>3, <2>5, <2>6
<1>7. CASE d = 31 /\ h = 23
  <2>1. T!Standard.MM = m + 1
    BY <1>1, <1>7, <1>8 DEF HourLater
  <2>2. legal
    BY <1>7
  <2>3. T!dst = T!Legal
    <3>1. CASE m = 3
      <4>1. T!Standard.MM \in 4 .. 9 /\ T!Standard.MM \in 1 .. 12
        BY <2>1, <3>1
      <4> QED BY <1>5, <2>2, <3>1, <4>1, DstIs
    <3>2. CASE m = 10
      <4>1. T!dst = 0
        BY <2>1, <3>2 DEF T!dst
      <4> QED BY <1>5, <2>2, <3>2, <4>1
    <3> QED BY <3>1, <3>2
  <2> QED BY <1>2, <1>7, <2>3 DEF Off
<1> QED BY <1>6, <1>7

\* In the other ten months both agree.
LEMMA OtherMonth ==
  ASSUME NEW y \in 0 .. 99, NEW m \in 1 .. 12, m \notin {3, 10}, NEW d \in 1 .. 31,
         NEW h \in 0 .. 23, NEW k \in 0 .. 59,
         Real(y, m, d), utc = At(y, m, d, h, k), rtc_offset = 1
  PROVE  T!dst = T!Legal
<1>6. HourLater(y, m, d, h) /\ LegalAt(m, d, h)
  BY StandardIs, LegalIs, Zenon
<1>7. A!Weekday(At(y, m, d, h, k)) = A!WeekdayOfDay(Number(y, m, d))
  BY WeekdayIs, Zenon
<1>1. PICK r \in 1 .. 12 : r = T!Standard.MM
        /\ (r = m \/ (r = (IF m < 12 THEN m + 1 ELSE 1) /\ T!Standard.DD = 1))
  <2>1. CASE h < 23
    BY <1>6, <2>1 DEF HourLater
  <2>2. CASE h = 23 /\ d + 1 <= A!DaysIn(m, y)
    BY <1>6, <2>2 DEF HourLater
  <2>3. CASE h = 23 /\ ~(d + 1 <= A!DaysIn(m, y))
    BY <1>6, <2>3 DEF HourLater
  <2> QED BY <2>1, <2>2, <2>3
<1>2. r \in {3, 10} => ~T!AfterLastSunday(T!Standard.DD, T!Weekday(utc), T!Standard.hh)
  <2> SUFFICES ASSUME r \in {3, 10}
               PROVE  ~T!AfterLastSunday(T!Standard.DD, T!Weekday(utc), T!Standard.hh)
    OBVIOUS
  <2>1. T!Standard.DD = 1
    BY <1>1
  <2>2. PICK w \in 0 .. 6 : w = T!Weekday(utc)
    <3>1. T!Weekday(utc) = A!WeekdayOfDay(Number(y, m, d))
      BY <1>7, SameCount
    <3>2. Number(y, m, d) \in Int
      BY RealDay
    <3> QED BY <3>1, <3>2, Sundays
  <2> QED BY <2>1, <2>2 DEF T!AfterLastSunday
<1>3. CASE m < 3 \/ m > 10
  <2>1. T!Legal = 0
    BY <1>3, <1>6 DEF LegalAt
  <2>2. r \in {1, 2, 3, 11, 12}
    BY <1>1, <1>3
  <2>3. T!dst = 0
    <3>1. CASE r = 3
      BY <1>1, <1>2, <3>1, DstIs
    <3>2. CASE r # 3
      BY <1>1, <2>2, <3>2 DEF T!dst
    <3> QED BY <3>1, <3>2
  <2> QED BY <2>1, <2>3
<1>4. CASE m \in 4 .. 9
  <2>1. T!Legal = 1
    BY <1>4, <1>6 DEF LegalAt
  <2>2. r \in 4 .. 10
    BY <1>1, <1>4
  <2>3. T!dst = 1
    <3>1. CASE r = 10
      BY <1>1, <1>2, <3>1, DstIs
    <3>2. CASE r # 10
      BY <1>1, <2>2, <3>2, DstIs
    <3> QED BY <3>1, <3>2
  <2> QED BY <2>1, <2>3
<1> QED BY <1>3, <1>4

LEMMA LawHolds == LocalInv => SummerTimeByLaw
<1> SUFFICES ASSUME LocalInv, rtc_offset = 1
             PROVE  T!dst # T!Legal <=> T!FirstHour \/ T!AfterMidnight
  BY DEF SummerTimeByLaw, T!SummerTimeByLaw
<1>1. PICK y \in 0 .. 255, m \in 1 .. 12, d \in 1 .. 31, h \in 0 .. 23, k \in 0 .. 59 :
        utc = At(y, m, d, h, k)
  BY MomentAt DEF LocalInv
<1>2. Real(y, m, d) /\ y \in 0 .. 99
  <2>1. A!Exists(At(y, m, d, h, k))
    BY <1>1 DEF LocalInv
  <2>2. Real(y, m, d)
    BY <2>1, NumberAt, Zenon
  <2> QED BY <2>2 DEF Real
<1>3. utc.MM = m /\ utc.DD = d /\ utc.hh = h
  BY <1>1 DEF At
<1>4. CASE m \in {3, 10}
  <2>1. T!dst # T!Legal <=> Off(d, h, T!LastSunday(m))
    BY <1>1, <1>2, <1>4, SwitchMonth, Zenon
  <2>2. T!FirstHour <=> d = T!LastSunday(m) /\ h = 1
    BY <1>3, <1>4 DEF T!FirstHour
  <2>3. T!AfterMidnight <=>
          h = 23 /\ IF T!LastSunday(m) = 31 THEN d \in 25 .. 30 ELSE d = T!LastSunday(m)
    BY <1>3, <1>4 DEF T!AfterMidnight
  <2> QED BY <2>1, <2>2, <2>3 DEF Off
<1>5. CASE m \notin {3, 10}
  <2>1. T!dst = T!Legal
    BY <1>1, <1>2, <1>5, OtherMonth
  <2>2. ~T!FirstHour /\ ~T!AfterMidnight
    BY <1>3, <1>5 DEF T!FirstHour, T!AfterMidnight
  <2> QED BY <2>1, <2>2
<1> QED BY <1>4, <1>5

(* Whatever year it begins in, the clock in Germany shows summer time as the
   law has it but for the hours the property names: an hour at each switch,
   and hours after midnight, when the weekday is still yesterday's. *)
THEOREM SummerTimeKept == MCSpec => []SummerTimeByLaw
<1>1. AllInv => SummerTimeByLaw
  BY LawHolds DEF AllInv
<1> QED BY <1>1, AllStart, AllKept, PTL DEF MCSpec

-----------------------------------------------------------------------------
(* The words. *)

\* The words' module counts as this one does.
LEMMA SameSize ==
  ASSUME NEW C
  PROVE  W!Cardinality(C) = Cardinality(C)
BY Zenon DEF W!Cardinality, Cardinality

(* A time of day, in the parts the program takes it apart into. *)
TimeInv == hour \in 0 .. 23 /\ minute \in 0 .. 59

Fives == minute \div 5
Dot == minute % 5
Named == (hour + W!hoffset) % 12
Lit == W!lLEDs

LEMMA TimeStarts == MCInit => TimeInv
BY DEF MCInit, W!Init, TimeInv

LEMMA TimeKeeps ==
  TimeInv /\ [LightStep \/ WordsStep \/ MailStep \/ DateStep \/ LocalStep]_all => TimeInv'
<1>1. TimeInv /\ W!Next => TimeInv'
  BY DEF TimeInv, W!Next, W!Next_Minute
<1>2. TimeInv /\ UNCHANGED words => TimeInv'
  BY DEF TimeInv, words
<1> QED BY <1>1, <1>2 DEF LightStep, WordsStep, MailStep, DateStep, LocalStep, all

LEMMA PartsOfTime ==
  ASSUME TimeInv
  PROVE  /\ Fives \in 0 .. 11 /\ Dot \in 0 .. 4 /\ minute = 5 * Fives + Dot
         /\ W!hoffset = IF Fives < 5 THEN 0 ELSE 1
         /\ Named \in 0 .. 11 /\ \E j \in {0, 1, 2} : hour + W!hoffset = 12 * j + Named
<1>1. Fives \in 0 .. 11 /\ Dot \in 0 .. 4 /\ minute = 5 * Fives + Dot
  BY DEF TimeInv, Fives, Dot
<1>2. W!hoffset = IF Fives < 5 THEN 0 ELSE 1
  BY <1>1 DEF W!hoffset, TimeInv
<1>3. hour + W!hoffset \in 0 .. 24
  BY <1>2 DEF TimeInv
<1>4. Named \in 0 .. 11 /\ \E j \in {0, 1, 2} : hour + W!hoffset = 12 * j + Named
  BY <1>3 DEF Named
<1> QED BY <1>1, <1>2, <1>4

NoHours == {"es", "ist", "uhr", "mp1", "mp2", "mp3", "mp4", "fuenfM", "zehnM", "viertelM", "zwanzigM",
            "nach", "vor", "halb"}

LEMMA HoursAreTwelve ==
  /\ \A x \in 1 .. 12 : W!HourWords[x] \notin NoHours
  /\ \A x, y \in 1 .. 12 : W!HourWords[x] = W!HourWords[y] => x = y
BY DEF W!HourWords, NoHours

NoHour == {"es", "ist", "uhr"} \cup W!Points[Dot + 1] \cup W!Phrase[Fives + 1]

LEMMA LitIs ==
  ASSUME TimeInv
  PROVE  Lit = NoHour \cup {W!HourWords[Named + 1]} /\ NoHour \subseteq NoHours
<1>1. Fives \in 0 .. 11 /\ Dot \in 0 .. 4 /\ hour + W!hoffset \in 0 .. 24
  BY PartsOfTime DEF TimeInv
<1>2. W!def_h[hour + W!hoffset] = W!HourWords[Named + 1]
  BY <1>1 DEF W!def_h, Named
<1>3. Lit = NoHour \cup {W!HourWords[Named + 1]}
  BY <1>2 DEF Lit, W!lLEDs, NoHour, Fives, Dot
<1>4. W!Points[Dot + 1] \subseteq NoHours
  BY <1>1 DEF W!Points, NoHours
<1>5. W!Phrase[Fives + 1] \subseteq NoHours
  BY <1>1 DEF W!Phrase, NoHours
<1> QED BY <1>3, <1>4, <1>5 DEF NoHour, NoHours

LEMMA HourRead ==
  ASSUME TimeInv
  PROVE  W!Hour(Lit) = Named /\ W!Cardinality(Lit \cap {W!HourWords[x] : x \in 1 .. 12}) = 1
<1>1. Named + 1 \in 1 .. 12
  BY PartsOfTime
<1>2. \A x \in 1 .. 12 : W!HourWords[x] \in Lit <=> x = Named + 1
  BY <1>1, LitIs, HoursAreTwelve
<1>3. (CHOOSE x \in 1 .. 12 : W!HourWords[x] \in Lit) = Named + 1
  BY <1>1, <1>2
<1>4. W!Hour(Lit) = Named
  <2>1. W!Hour(Lit) = (Named + 1) - 1
    <3> HIDE DEF Lit
    <3> QED BY <1>3, Zenon DEF W!Hour
  <2> QED BY <2>1, PartsOfTime
<1>5. Lit \cap {W!HourWords[x] : x \in 1 .. 12} = {W!HourWords[Named + 1]}
  BY <1>1, <1>2
<1> QED BY <1>4, <1>5, SameSize, FS_Singleton

(* The words of a phrase are lit if they are the phrase's. *)
LEMMA PhraseLit ==
  ASSUME TimeInv
  PROVE  \A w \in {"fuenfM", "zehnM", "viertelM", "zwanzigM", "vor", "halb"} :
           w \in Lit <=> w \in W!Phrase[Fives + 1]
<1>1. Dot \in 0 .. 4 /\ Named + 1 \in 1 .. 12
  BY PartsOfTime
<1>2. \A w \in {"fuenfM", "zehnM", "viertelM", "zwanzigM", "vor", "halb"} :
        /\ w # W!HourWords[Named + 1] /\ w \notin {"es", "ist", "uhr"}
        /\ w \notin W!Points[Dot + 1]
  BY <1>1, HoursAreTwelve DEF W!Points, NoHours
<1> QED BY <1>2, LitIs DEF NoHour

LEMMA PhraseRead ==
  ASSUME TimeInv
  PROVE  (IF "vor" \in Lit THEN - W!Amount(Lit) ELSE W!Amount(Lit)) - (IF "halb" \in Lit THEN 30 ELSE 0)
           = 5 * Fives - 60 * W!hoffset
<1>1. Fives \in 0 .. 11 /\ W!hoffset = IF Fives < 5 THEN 0 ELSE 1
  BY PartsOfTime
<1>2. /\ "fuenfM" \in Lit <=> "fuenfM" \in W!Phrase[Fives + 1]
      /\ "zehnM" \in Lit <=> "zehnM" \in W!Phrase[Fives + 1]
      /\ "viertelM" \in Lit <=> "viertelM" \in W!Phrase[Fives + 1]
      /\ "zwanzigM" \in Lit <=> "zwanzigM" \in W!Phrase[Fives + 1]
      /\ "vor" \in Lit <=> "vor" \in W!Phrase[Fives + 1]
      /\ "halb" \in Lit <=> "halb" \in W!Phrase[Fives + 1]
  BY PhraseLit
<1> QED BY <1>1, <1>2 DEF W!Phrase, W!Amount

LEMMA DotsRead ==
  ASSUME TimeInv
  PROVE  W!Cardinality(Lit \cap {"mp1", "mp2", "mp3", "mp4"}) = Dot
<1>1. Dot \in 0 .. 4 /\ Fives \in 0 .. 11 /\ Named + 1 \in 1 .. 12
  BY PartsOfTime
<1>2. Lit \cap {"mp1", "mp2", "mp3", "mp4"} = W!Points[Dot + 1]
  <2>1. \A w \in {"mp1", "mp2", "mp3", "mp4"} :
          w # W!HourWords[Named + 1] /\ w \notin {"es", "ist", "uhr"} /\ w \notin W!Phrase[Fives + 1]
    BY <1>1, HoursAreTwelve DEF W!Phrase, NoHours
  <2>2. W!Points[Dot + 1] \subseteq {"mp1", "mp2", "mp3", "mp4"}
    BY <1>1 DEF W!Points
  <2> QED BY <2>1, <2>2, LitIs DEF NoHour
<1>3. /\ Cardinality({}) = 0 /\ IsFiniteSet({})
      /\ Cardinality({"mp4"}) = 1 /\ IsFiniteSet({"mp4"})
  BY FS_EmptySet, FS_Singleton
<1>4. Cardinality({"mp4", "mp2"}) = 2 /\ IsFiniteSet({"mp4", "mp2"})
  <2>1. {"mp4", "mp2"} = {"mp4"} \cup {"mp2"} /\ "mp2" \notin {"mp4"}
    OBVIOUS
  <2> QED BY <1>3, <2>1, FS_AddElement
<1>5. Cardinality({"mp4", "mp2", "mp1"}) = 3 /\ IsFiniteSet({"mp4", "mp2", "mp1"})
  <2>1. {"mp4", "mp2", "mp1"} = {"mp4", "mp2"} \cup {"mp1"} /\ "mp1" \notin {"mp4", "mp2"}
    OBVIOUS
  <2> QED BY <1>4, <2>1, FS_AddElement
<1>6. Cardinality({"mp4", "mp2", "mp1", "mp3"}) = 4
  <2>1. /\ {"mp4", "mp2", "mp1", "mp3"} = {"mp4", "mp2", "mp1"} \cup {"mp3"}
        /\ "mp3" \notin {"mp4", "mp2", "mp1"}
    OBVIOUS
  <2> QED BY <1>5, <2>1, FS_AddElement
<1>7. Cardinality(W!Points[Dot + 1]) = Dot
  BY <1>1, <1>3, <1>4, <1>5, <1>6 DEF W!Points
<1> QED BY <1>2, <1>7, SameSize

(* Whoever reads the lit words in German knows the time at any time of day. *)
THEOREM WordsSayTheTime == MCSpec => []SaysTheTime
<1>1. TimeInv => SaysTheTime
  <2> SUFFICES ASSUME TimeInv PROVE SaysTheTime
    OBVIOUS
  <2>1. /\ Fives \in 0 .. 11 /\ Dot \in 0 .. 4 /\ minute = 5 * Fives + Dot
        /\ W!hoffset \in {0, 1} /\ Named \in 0 .. 11 /\ hour \in 0 .. 23 /\ minute \in 0 .. 59
    BY PartsOfTime DEF TimeInv
  <2>2. PICK j \in {0, 1, 2} : hour + W!hoffset = 12 * j + Named
    BY PartsOfTime
  <2> DEFINE vor == IF "vor" \in Lit THEN - W!Amount(Lit) ELSE W!Amount(Lit)
             halb == IF "halb" \in Lit THEN 30 ELSE 0
             y == 60 * Named - halb + vor + Dot
             x == 60 * hour + minute
  <2>3. W!Read(Lit) = y % 720
    <3>1. W!Hour(Lit) = Named /\ W!Cardinality(Lit \cap {"mp1", "mp2", "mp3", "mp4"}) = Dot
      BY HourRead, DotsRead
    <3> QED BY <3>1 DEF W!Read
  <2>4. vor - halb = 5 * Fives - 60 * W!hoffset
    BY PhraseRead
  <2>5. vor \in Int /\ halb \in Int
    BY DEF W!Amount
  <2> HIDE DEF vor, halb
  <2>6. x \in 0 .. 1439 /\ y \in Int /\ x = y + 720 * j
    BY <2>1, <2>2, <2>4, <2>5
  <2>7. y % 720 = x % 720
    <3> HIDE DEF x, y
    <3>1. x \in 0 .. 1439 /\ y \in Int /\ x = y + 720 * j /\ j \in {0, 1, 2}
      BY <2>6
    <3> QED BY <3>1
  <2>8. W!Read(Lit) = (60 * hour + minute) % 720
    BY <2>3, <2>7
  <2> QED BY <2>8, HourRead DEF SaysTheTime, W!SaysTheTime, Lit
<1> QED BY <1>1, TimeStarts, TimeKeeps, PTL DEF MCSpec
=============================================================================
