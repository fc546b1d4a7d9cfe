----------------------------- MODULE RadioChain -----------------------------
(***************************************************************************)
(* A measurement on its way from a radio node to an answer in the chat:    *)
(* the node sends it twice in a frame (rfm12-tiny2313, rh10hp03-tiny2313,  *)
(* bma020-tiny2313), the gateway passes the frame on in a datagram (netio, *)
(* rfm12.c), and the receiver compares the copies and keeps the values     *)
(* (receiver-nagios).  On the air the end of a frame may be lost or one    *)
(* byte of the payload be changed; datagrams may be lost or overtake one   *)
(* another.  The id and the type of a frame, which nothing checks, arrive. *)
(***************************************************************************)
EXTENDS Integers, FiniteSets, Sequences, SequencesExt

CONSTANTS
  Measurements,   \* of each kind of node: what it may measure, as tuples of 16-bit numbers
  MaxFrames,      \* bound on the frames sent
  MaxNodes,       \* bound on the nodes that send; each has names of its own
  MaxDamaged,     \* bound on those of them that are damaged or cut
  Changes,        \* what may be added to a byte on the air
  FreeConns       \* UDP connections left for the radio, of UIP_UDP_CONNS

Kinds == DOMAIN Measurements

VARIABLES
  log,             \* the frames sent: kind, quantities, and how it was heard
  air,             \* the frame on the air, if any
  conns, g_conn,   \* the gateway's connections; whether the last attempt to open one succeeded
  net,             \* the datagrams under way
  receiver, puts,  \* "up", or "gone" for good; the values still to be put
  values,          \* aValues and aTime; "puts" counts what was put under a name
  answer           \* the climate values of the answer read so far, by their "puts"

gateway == <<conns, g_conn>>
vars == <<log, air, gateway, net, receiver, puts, values, answer>>

Names == {"0005", "0101", "0201", "0102T", "0102D", "0102P", "0102RH"}
Climate == <<"0102T", "0102P", "0102RH", "0102D">>   \* of the names asked for one by one, those of one node
Unknown == [value |-> "unknown", frame |-> 0, puts |-> 0]

Init ==
  /\ log = << >> /\ air = {} /\ conns = 1 /\ g_conn = TRUE /\ net = {}
  /\ receiver = "up" /\ puts = << >> /\ values = [n \in Names |-> Unknown] /\ answer = << >>

-----------------------------------------------------------------------------
(* The nodes. *)
BytesOf(quantities) ==
  [k \in 1 .. 2 * Len(quantities) |->
     LET q == quantities[(k + 1) \div 2] IN IF k % 2 = 1 THEN q % 256 ELSE (q \div 256) % 256]

SensorId == 40   \* stands for the sensor's address

\* After the type; a temperature goes with its sensor's address, others with a zero.
Payload(kind, quantities) ==
  LET copy == BytesOf(quantities) \o (IF kind = "T" THEN <<SensorId>> ELSE IF kind = "M" THEN << >> ELSE <<0>>)
  IN  copy \o copy

Cut(payload, n) == [k \in 1 .. Len(payload) |-> IF k <= n THEN payload[k] ELSE 0]
Noisy(payload) ==
  {[payload EXCEPT ![k] = (@ + d) % 256] : k \in 1 .. Len(payload), d \in Changes}

MaySend(kind) == Cardinality({kind} \cup {log[k].kind : k \in 1 .. Len(log)}) <= MaxNodes
MayDamage == Cardinality({k \in 1 .. Len(log) : log[k].heard # "whole"}) < MaxDamaged

Send ==
  /\ air = {} /\ Len(log) < MaxFrames
  /\ \E kind \in {k \in Kinds : MaySend(k)} : \E quantities \in Measurements[kind] :
       LET payload == Payload(kind, quantities)
           frame(heard) == air' = {[kind |-> kind, payload |-> heard]}
           logged(how) == log' = Append(log, [kind |-> kind, quantities |-> quantities, heard |-> how])
       IN  \/ frame(payload) /\ logged("whole")
           \/ MayDamage /\ logged("noisy") /\ \E heard \in Noisy(payload) : frame(heard)
           \/ MayDamage /\ logged("cut") /\ \E n \in 0 .. Len(payload) - 1 : frame(Cut(payload, n))
  /\ UNCHANGED <<gateway, net, receiver, puts, values, answer>>

(* Noise that looks like a frame, with an air id that is not ASCII. *)
Noise ==
  /\ air = {} /\ air' = {[kind |-> "noise", payload |-> << >>]}
  /\ UNCHANGED <<log, gateway, net, receiver, puts, values, answer>>

-----------------------------------------------------------------------------
(* The gateway.  Bytes that do not come in time are zeros, the length follows
   from the type. *)
Forward ==
  /\ air # {} /\ air' = {}
  /\ net' = IF g_conn THEN net \cup {[frame |-> Len(log), kind |-> f.kind, payload |-> f.payload] : f \in air} ELSE net
  /\ UNCHANGED <<log, gateway, receiver, puts, values, answer>>

\* The receive buffer has overflown: rfm12_init opens one more connection.
Reinit ==
  /\ conns <= FreeConns
  /\ conns' = conns + 1 /\ g_conn' = (conns < FreeConns)
  /\ air' = {}
  /\ UNCHANGED <<log, net, receiver, puts, values, answer>>

\* Without a connection the gateway may also run wild, and is started again.
GatewayRestart ==
  /\ ~g_conn /\ conns' = 1 /\ g_conn' = TRUE /\ air' = {}
  /\ UNCHANGED <<log, net, receiver, puts, values, answer>>

Lose ==
  /\ \E d \in net : net' = net \ {d}
  /\ UNCHANGED <<log, air, gateway, receiver, puts, values, answer>>

-----------------------------------------------------------------------------
(* UdpReceiver.internal_run *)
Unsigned(lo, hi) == lo + 256 * hi
Signed(lo, hi) == IF hi < 128 THEN Unsigned(lo, hi) ELSE Unsigned(lo, hi) - 65536

\* & (0xff << 8) leaves of the high byte its sign only.
SignOnly(lo, hi) == IF hi < 128 THEN lo ELSE lo - 256

\* What a copy says, from the byte after position p.
Copy(kind, p, at) ==
  CASE kind \in {"T", "M"} -> <<Signed(p[at + 1], p[at + 2])>>
    [] kind = "g" -> <<SignOnly(p[at + 1], p[at + 2]), SignOnly(p[at + 3], p[at + 4]), SignOnly(p[at + 5], p[at + 6])>>
    [] kind = "f" -> <<Signed(p[at + 1], p[at + 2]), Unsigned(p[at + 3], p[at + 4]), Unsigned(p[at + 5], p[at + 6])>>

First(d) == Copy(d.kind, d.payload, 0)
Second(d) == Copy(d.kind, d.payload, Len(d.payload) \div 2)
RH(copy) == copy[1] + 55

Agrees_Always(d) == TRUE

\* The comparison of movements is commented out.
Agrees(d) == d.kind = "M" \/ First(d) = Second(d)

Accepted(d) == Agrees(d) /\ (d.kind = "f" => RH(First(d)) \in 0 .. 100)

Puts(d) ==
  LET c == First(d)
  IN  CASE d.kind = "T" -> <<<<"0005", c[1]>>>>
        [] d.kind = "M" -> <<<<"0201", c[1]>>>>
        [] d.kind = "g" -> <<<<"0101", c[1]>>>>
        [] d.kind = "f" -> <<<<"0102T", c[2]>>, <<"0102D", <<RH(c), c[2]>>>>, <<"0102P", c[3]>>, <<"0102RH", RH(c)>>>>

\* An air id that is not ASCII is an exception of the formatter; the next attempt to open the
\* socket, which is still open, ends the program.
Receive ==
  /\ receiver = "up" /\ puts = << >>
  /\ \E d \in net :
       /\ net' = net \ {d}
       /\ receiver' = IF d.kind = "noise" THEN "gone" ELSE "up"
       /\ puts' = IF d.kind # "noise" /\ Accepted(d)
                  THEN LET all == Puts(d) IN [k \in 1 .. Len(all) |-> [name |-> all[k][1], value |-> all[k][2], frame |-> d.frame]]
                  ELSE << >>
  /\ UNCHANGED <<log, air, gateway, values, answer>>

\* Main.PutValue, under the lock.
PutValue ==
  /\ receiver = "up" /\ puts # << >> /\ puts' = Tail(puts)
  /\ LET p == Head(puts)
     IN  values' = [values EXCEPT ![p.name] = [value |-> p.value, frame |-> p.frame, puts |-> @.puts + 1]]
  /\ UNCHANGED <<log, air, gateway, net, receiver, answer>>

(* ChatReceiver.processMessage: GetValue, under the lock, name by name. *)
GetValue ==
  /\ receiver = "up"
  /\ answer' = IF Len(answer) = Len(Climate) THEN << >>
               ELSE Append(answer, values[Climate[Len(answer) + 1]].puts)
  /\ UNCHANGED <<log, air, gateway, net, receiver, puts, values>>

Next ==
  \/ Send \/ Noise \/ Forward \/ Reinit \/ GatewayRestart \/ Lose
  \/ Receive \/ PutValue \/ GetValue

Spec == Init /\ [][Next]_vars

-----------------------------------------------------------------------------
Place == [n \in Names |-> CASE n \in {"0005", "0101", "0201", "0102RH"} -> 1
                            [] n \in {"0102T", "0102D"} -> 2 [] n = "0102P" -> 3]

\* What the decoding of a 16-bit number leaves of it: without its sign, or of its high byte the sign only.
Wrapped(q) == IF q < 0 THEN q + 65536 ELSE q
OfSign(q) == IF q \in -256 .. 255 THEN q ELSE IF q > 0 THEN q % 256 ELSE (q % 256) - 256

Fits(name, value, sent) ==
  LET q == sent.quantities[Place[name]]
      zero == sent.heard = "cut" /\ value = (IF name = "0102RH" THEN 55 ELSE 0)
  IN  CASE name = "0101" -> zero \/ value = OfSign(q)
        [] name = "0102RH" -> zero \/ value = q + 55
        [] name \in {"0102T", "0102P"} -> zero \/ value = Wrapped(q)
        [] name = "0005" -> zero \/ value = q
        [] OTHER -> TRUE

(* A value kept is the one its frame was sent with, up to what the decoding
   loses; the end of a frame lost can make it zero.  Movements, which are not
   compared, are excepted. *)
Sound(name) == Fits(name, values[name].value, log[values[name].frame])

KeptWasMeasured == \A name \in Names : values[name].frame # 0 => Sound(name)

(* The values of one climate frame are put one by one, and read one by one in
   another order: what an answer says of pressure, humidity and dew point is
   never more than one frame older than its temperature.  Nothing is said of
   newer ones: frames may come between two readings. *)
AnswerHangsTogether == \A k \in 1 .. Len(answer) : answer[k] >= answer[1] - 1

AnswersAreMeasured == KeptWasMeasured /\ AnswerHangsTogether
=============================================================================
