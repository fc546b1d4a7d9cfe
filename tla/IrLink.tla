------------------------------- MODULE IrLink -------------------------------
(***************************************************************************)
(* The infrared receiver and the visits the lamp controller pays it:       *)
(* readIr of Schlafzimmer/main.c, byte by byte, interleaved with the loop  *)
(* of the receiver.  The bytes are read left to right.                     *)
(*                                                                         *)
(* A key stays on display for half a second (the receiver's                *)
(* _delay_ms(500)), a controller's loop takes about 60 ms: while the       *)
(* receiver sleeps, at least SleepVisits visits begin and complete.  The   *)
(* receiver takes no notice of an acknowledgement meanwhile, so one key    *)
(* press is read and obeyed several times.                                 *)
(***************************************************************************)
EXTENDS IrReceiver

CONSTANT SleepVisits   \* complete visits a sleep of the receiver outlasts

ASSUME SleepAssumption == SleepVisits \in Nat \ {0}

VARIABLES ir,          \* the receiver
          step,        \* where the controller is in readIr
          got,         \* the bytes read in this visit
          \* history
          visits,      \* complete visits since the key on display was shown
          began,       \* 1: this visit began after the key was shown
          served       \* 1: the key on display has been obeyed

vars == <<ir, step, got, visits, began, served>>

Steps == {"away", "read1", "read2", "read3", "read4", "ack", "execute"}

TypeOK ==
  /\ ir \in Receivers
  /\ step \in Steps
  /\ got \in Frames
  /\ visits \in 0 .. SleepVisits
  /\ began \in {0, 1} /\ served \in {0, 1}

Init ==
  /\ ir = Powered
  /\ step = "away" /\ got = Blank
  /\ visits = 0 /\ began = 0 /\ served = 0

-----------------------------------------------------------------------------
\* The receiver's loop.
CheckMark ==
  /\ ir.at = "check" /\ ir' = Check(ir)
  /\ UNCHANGED <<step, got, visits, began, served>>

PollNothing ==
  /\ ir.at = "poll" /\ ir' = NoKey(ir)
  /\ UNCHANGED <<step, got, visits, began, served>>

Press(key) ==
  /\ ir.at = "poll" /\ ir' = Show(ir, key)
  /\ visits' = 0 /\ began' = 0 /\ served' = 0
  /\ UNCHANGED <<step, got>>

\* A receiver without the delay.
WakeUp_Early ==
  /\ ir.at = "asleep" /\ ir' = Wake(ir)
  /\ UNCHANGED <<step, got, visits, began, served>>

WakeUp ==
  /\ ir.at = "asleep" /\ visits = SleepVisits /\ ir' = Wake(ir)
  /\ UNCHANGED <<step, got, visits, began, served>>

Receiver == CheckMark \/ PollNothing \/ (\E key \in Keys : Press(key)) \/ WakeUp

\* The controller.  A visit is complete when the whole key was looked at.
Complete ==
  /\ step' = "away"
  /\ visits' = IF began = 1 /\ visits < SleepVisits THEN visits + 1 ELSE visits

Address ==
  /\ step = "away"
  /\ step' = "read1" /\ began' = 1
  /\ UNCHANGED <<ir, got, visits, served>>

\* The operands of the command are evaluated from right to left.
ReadByte_RightToLeft(i) ==
  /\ step = <<"read1", "read2", "read3", "read4">>[i]
  /\ got' = [got EXCEPT ![<<2, 1, 3, 4>>[i]] = ir.tx[i]]
  /\ IF i < 4
     THEN step' = <<"read2", "read3", "read4">>[i] /\ UNCHANGED visits
     ELSE IF OwnAddress(got') THEN step' = "ack" /\ UNCHANGED visits ELSE Complete
  /\ UNCHANGED <<ir, began, served>>

ReadByte(i) ==
  /\ step = <<"read1", "read2", "read3", "read4">>[i]
  /\ got' = [got EXCEPT ![i] = ir.tx[i]]
  /\ IF i < 4
     THEN step' = <<"read2", "read3", "read4">>[i] /\ UNCHANGED visits
     ELSE IF OwnAddress(got') THEN step' = "ack" /\ UNCHANGED visits ELSE Complete
  /\ UNCHANGED <<ir, began, served>>

\* The register position or the repeated start is not acknowledged: readIr
\* returns 1 and has read nothing.
ReadFails ==
  /\ step = "read1"
  /\ step' = "away"
  /\ UNCHANGED <<ir, got, visits, began, served>>

\* rxbuffer[3] = 0xaa; the command is executed after it.
Acknowledge ==
  /\ step = "ack"
  /\ ir' = [ir EXCEPT !.mark = Acked]
  /\ step' = "execute"
  /\ UNCHANGED <<got, visits, began, served>>

\* The receiver does not answer: readIr returns 0 without executing.
NotAcknowledged ==
  /\ step = "ack"
  /\ step' = "away"
  /\ UNCHANGED <<ir, got, visits, began, served>>

Execute ==
  /\ step = "execute"
  /\ served' = IF began = 1 /\ got = ir.tx THEN 1 ELSE served
  /\ Complete
  /\ UNCHANGED <<ir, got, began>>

Visit == Address \/ ReadFails \/ (\E i \in 1 .. 4 : ReadByte(i)) \/ Acknowledge
         \/ NotAcknowledged \/ Execute

Next == Receiver \/ Visit

Spec == Init /\ [][Next]_vars

\* The controller's loop runs; a receiver that is asked again and again
\* answers and takes the acknowledgement in the end.
FairSpec == /\ Spec
            /\ WF_vars(Visit)
            /\ SF_vars(ReadByte(1)) /\ SF_vars(Acknowledge)

-----------------------------------------------------------------------------
Shown == ir.tx \in OwnKeys

(* A key of our own remote leaves the display only after the controller has
   obeyed it, although the acknowledgement that takes it away may have been
   meant for the key before. *)
NoKeyLost == [][ Shown /\ ir'.tx # ir.tx => served = 1 ]_vars

(* A visit that begins when a key is already on display obeys this key and
   no other, however the receiver's loop cuts in.  Only a visit that a new
   key breaks into can combine the command of one display with the address
   of the next, and it obeys that once. *)
ObeysDisplay ==
  step \in {"ack", "execute"} /\ began = 1 /\ ir.tx # Blank => got = ir.tx

(* A key of our own remote is obeyed in the end. *)
KeysServed == Shown ~> served = 1

-----------------------------------------------------------------------------
(* Why no key is lost: what has been read of the display is right, unless
   the display changed during the visit ... *)
Place == [s \in Steps |-> CASE s = "read2" -> 1 [] s = "read3" -> 2 [] s = "read4" -> 3
                           [] s \in {"ack", "execute"} -> 4 [] OTHER -> 0]

ReadRight ==
  /\ began = 1 /\ ir.tx # Blank => \A j \in 1 .. 4 : j <= Place[step] => got[j] = ir.tx[j]
  /\ ir.at = "asleep" => ir.tx # Blank

(* ... and the receiver goes on only when a whole visit has passed. *)
ServedInTime == Shown /\ (visits # 0 \/ ir.at # "asleep") => served = 1

LinkInv == TypeOK /\ ReadRight /\ ServedInTime
=============================================================================
