----------------------------- MODULE LightSensor -----------------------------
(***************************************************************************)
(* wordclock/ldr.c: the last Size measurements of the light sensor in a    *)
(* ring, and their sum, which is kept up to date by one subtraction and    *)
(* one addition per measurement instead of being computed.                 *)
(***************************************************************************)
EXTENDS Integers

CONSTANTS
  Size,      \* LDR_ARRAY_SIZE
  Levels     \* readings the converter can give

ASSUME LightAssumption == Size \in 1 .. 255 /\ Levels \subseteq 0 .. 255 /\ Levels # {}

VARIABLES
  light,       \* what the converter would measure now
  converting,  \* 1 while ADSC is set
  adch,        \* result of the last conversion
  array, curr_sum, curr_index,
  since        \* history: for each slot, everything measured from it to the newest

vars == <<light, converting, adch, array, curr_sum, curr_index, since>>

Word == 65536     \* uint16_t
Slots == 0 .. Size - 1
Slot(k) == IF curr_index + k < Size THEN curr_index + k ELSE curr_index + k - Size

TypeOK ==
  /\ light \in Levels /\ adch \in Levels /\ converting \in {0, 1}
  /\ array \in [Slots -> Levels] /\ since \in [Slots -> Nat]
  /\ curr_index \in Slots /\ curr_sum \in 0 .. Word - 1

\* ldr_init waits for its first conversion, fills the ring and starts the next.
Init ==
  /\ light \in Levels /\ adch = light /\ converting = 1
  /\ array = [i \in Slots |-> adch] /\ curr_index = 0
  /\ curr_sum = (adch * Size) % Word
  /\ since = [i \in Slots |-> adch * (Size - i)]

Change == light' \in Levels /\ UNCHANGED <<converting, adch, array, curr_sum, curr_index, since>>

Convert ==
  /\ converting = 1
  /\ converting' = 0 /\ adch' = light
  /\ UNCHANGED <<light, array, curr_sum, curr_index, since>>

Replaced_NewFirst(old, new) == (curr_sum - array[(curr_index + 1) % Size] + new) % Word

\* uint16_t curr_sum: subtraction and addition wrap.
Replaced(old, new) == (curr_sum - old + new) % Word

Advance_Late == IF curr_index = Size THEN 0 ELSE curr_index + 1

\* curr_index++, then curr_index %= LDR_ARRAY_SIZE.
Advance == IF curr_index + 1 = Size THEN 0 ELSE curr_index + 1

Restart_Forgotten == converting

\* Each reading starts the next conversion.
Restart == 1

ldr_read ==
  /\ converting = 0
  /\ curr_sum' = Replaced(array[curr_index], adch)
  /\ array' = [array EXCEPT ![curr_index] = adch]
  /\ curr_index' = Advance
  /\ converting' = Restart
  /\ since' = [i \in Slots |-> IF i = curr_index THEN adch ELSE since[i] + adch]
  /\ UNCHANGED <<light, adch>>

ldr_get_brightness == 255 - curr_sum \div Size

Next == Change \/ Convert \/ ldr_read

\* The converter always finishes; the main loop calls ldr_read every millisecond.
Spec == Init /\ [][Next]_vars /\ WF_vars(Convert) /\ WF_vars(ldr_read)

-----------------------------------------------------------------------------
(* The running sum never drifts from the ring: it is what was measured since
   the slot that is overwritten next was filled, that is in the last Size
   measurements, none missing, none twice, and without an overflow. *)
SumOfWindow == curr_sum = since[curr_index]

(* What makes it so: from the oldest slot on, each slot holds what separates
   its window from the next one's, and no window exceeds its share. *)
Telescope ==
  /\ \A k \in Slots : since[Slot(k)] \in 0 .. 255 * (Size - k)
  /\ \A k \in 0 .. Size - 2 : array[Slot(k)] = since[Slot(k)] - since[Slot(k + 1)]
  /\ array[Slot(Size - 1)] = since[Slot(Size - 1)]

WindowInv == SumOfWindow /\ Telescope

(* However the light moved before, when it stays the brightness settles at
   exactly its complement: no error of an earlier measurement is kept. *)
Settles ==
  \A level \in Levels :
    <>[](light = level) => <>[](ldr_get_brightness = 255 - level)
=============================================================================
