----------------------------- MODULE IrReceiver -----------------------------
(***************************************************************************)
(* The loop of ir-receiver-tiny85/main.c as functions of the receiver's    *)
(* memory.  A receiver is a record: at is the position in the loop, tx the *)
(* four published bytes and mark rxbuffer[3].  The loop touches the        *)
(* buffers in two sections with interrupts off, and between them and after *)
(* a key the I2C master may come in.                                       *)
(***************************************************************************)
EXTENDS Integers

CONSTANT Keys          \* what the remote controls in reach send: four bytes

Acked == 170           \* 0xaa
Blank == <<0, 0, 0, 0>>

Frames == [1 .. 4 -> 0 .. 255]

ASSUME KeysAssumption == Keys \subseteq Frames /\ Blank \notin Keys

\* Bytes one and two are the command, three and four the address; the
\* controller obeys one address, 0xEF00.
OwnAddress(frame) == frame[3] = 239 /\ frame[4] = 0
Command(frame) == 256 * frame[1] + frame[2]
OwnKeys == {k \in Keys : OwnAddress(k)}

Displays == Keys \cup {Blank}

Receivers == [at : {"check", "poll", "asleep"}, tx : Displays, mark : {0, Acked}]

Powered == [at |-> "check", tx |-> Blank, mark |-> 0]

\* Only three of the four bytes are cleared.
Check_Partly(r) ==
  IF r.mark = Acked THEN [at |-> "poll", tx |-> <<0, 0, 0, r.tx[4]>>, mark |-> 0]
  ELSE [r EXCEPT !.at = "poll"]

\* The acknowledgement withdraws the key on display.
Check(r) ==
  IF r.mark = Acked THEN [at |-> "poll", tx |-> Blank, mark |-> 0]
  ELSE [r EXCEPT !.at = "poll"]

\* irmp_get_data has nothing, or a key, which is put on display for 500 ms.
NoKey(r) == [r EXCEPT !.at = "check"]
Show(r, key) == [r EXCEPT !.at = "asleep", !.tx = key]
Wake(r) == [r EXCEPT !.at = "check"]
=============================================================================
