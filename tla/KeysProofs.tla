----------------------------- MODULE KeysProofs -----------------------------
(***************************************************************************)
(* No key of our remote is lost between the infrared receiver and the lamp *)
(* controller, for every set of keys and every number of visits a sleep of *)
(* the receiver outlasts (IrLink); and no sequence of commands makes the   *)
(* settings leave their ranges or the colours inexact (LampKeys).          *)
(***************************************************************************)
EXTENDS MCKeys, TLAPS

Lamp == INSTANCE LampProofs WITH TimeoutLimit <- 1

LEMMA InvInit == Init => LinkInv
<1> SUFFICES ASSUME Init PROVE LinkInv
  OBVIOUS
<1>1. Blank \in Frames
  BY DEF Blank, Frames
<1>2. Powered \in Receivers /\ Powered.tx = Blank /\ Powered.at = "check"
  BY DEF Powered, Receivers, Displays
<1>3. TypeOK
  BY <1>1, <1>2, SleepAssumption DEF Init, TypeOK, Steps
<1>4. ReadRight /\ ServedInTime
  BY <1>2, KeysAssumption DEF Init, ReadRight, ServedInTime, Shown, OwnKeys
<1> QED BY <1>3, <1>4 DEF LinkInv

(* What the loop of the receiver does to the display. *)
LEMMA ReceiverEffect ==
  ASSUME TypeOK, Receiver
  PROVE  /\ ir' \in Receivers /\ step' = step /\ got' = got
         /\ \/ /\ UNCHANGED <<visits, began, served>>
               /\ \/ ir'.at # "asleep" /\ ir'.tx = Blank /\ ir.at = "check"
                  \/ ir'.at # "asleep" /\ ir'.tx = ir.tx /\ ir.at # "asleep"
                  \/ ir'.at # "asleep" /\ ir'.tx = ir.tx /\ visits = SleepVisits
            \/ /\ ir'.at = "asleep" /\ ir'.tx \in Keys
               /\ visits' = 0 /\ began' = 0 /\ served' = 0
<1>1. ir \in Receivers
  BY DEF TypeOK
<1>2. CASE CheckMark
  BY <1>1, <1>2 DEF CheckMark, Check, Receivers, Displays
<1>3. CASE PollNothing
  BY <1>1, <1>3 DEF PollNothing, NoKey, Receivers
<1>4. CASE \E key \in Keys : Press(key)
  <2>1. PICK key \in Keys : Press(key)
    BY <1>4
  <2>2. ir' = [at |-> "asleep", tx |-> key, mark |-> ir.mark]
    <3>1. ir' = [ir EXCEPT !.at = "asleep", !.tx = key]
      BY <2>1 DEF Press, Show
    <3> QED BY <1>1, <3>1, Zenon DEF Receivers
  <2> QED BY <1>1, <2>1, <2>2 DEF Press, Receivers, Displays
<1>5. CASE WakeUp
  BY <1>1, <1>5 DEF WakeUp, Wake, Receivers
<1> QED BY <1>2, <1>3, <1>4, <1>5 DEF Receiver

LEMMA ReceiverInv == ASSUME LinkInv, Receiver PROVE LinkInv'
<1> USE SleepAssumption, KeysAssumption
<1>1. TypeOK /\ ReadRight /\ ServedInTime
  BY DEF LinkInv
<1>2. TypeOK'
  BY <1>1, ReceiverEffect DEF TypeOK
<1>3. ReadRight'
  BY <1>1, ReceiverEffect DEF ReadRight
<1>4. ServedInTime'
  BY <1>1, ReceiverEffect DEF TypeOK, ServedInTime, Shown, OwnKeys
<1> QED BY <1>2, <1>3, <1>4 DEF LinkInv

LEMMA PlaceOfByte ==
  /\ Place["away"] = 0 /\ Place["read1"] = 0 /\ Place["read2"] = 1
  /\ Place["read3"] = 2 /\ Place["read4"] = 3 /\ Place["ack"] = 4 /\ Place["execute"] = 4
BY DEF Place, Steps

(* A visit that began after the key was shown has read it when it has read
   all four bytes. *)
LEMMA ReadAll ==
  ASSUME NEW frame \in Frames, NEW other \in Frames,
         \A j \in 1 .. 4 : frame[j] = other[j]
  PROVE  frame = other
BY DEF Frames

LEMMA ReadByteInv ==
  ASSUME LinkInv, NEW i \in 1 .. 4, ReadByte(i)
  PROVE  LinkInv'
<1> USE SleepAssumption, KeysAssumption
<1>1. TypeOK /\ ReadRight /\ ServedInTime
  BY DEF LinkInv
<1>2. ir \in Receivers /\ ir.tx \in Frames
  BY <1>1, KeysAssumption DEF TypeOK, Receivers, Displays, Blank, Frames
<1>3. /\ got' = [got EXCEPT ![i] = ir.tx[i]] /\ got' \in Frames
      /\ UNCHANGED <<ir, began, served>>
      /\ Place[step] = i - 1
      /\ \/ i < 4 /\ step' \in {"read2", "read3", "read4"} /\ Place[step'] = i /\ visits' = visits
         \/ i = 4 /\ step' = "ack" /\ Place[step'] = 4 /\ visits' = visits
         \/ i = 4 /\ ~OwnAddress(got') /\ Complete
  <2>1. /\ got' = [got EXCEPT ![i] = ir.tx[i]] /\ UNCHANGED <<ir, began, served>>
    BY DEF ReadByte
  <2>2. got' \in Frames
    BY <1>1, <1>2, <2>1 DEF TypeOK, Frames
  <2>3. i = 1 \/ i = 2 \/ i = 3 \/ i = 4
    OBVIOUS
  <2>4. Place[step] = i - 1
    BY <2>3, PlaceOfByte DEF ReadByte
  <2>5. CASE i < 4
    <3>1. step' = <<"read2", "read3", "read4">>[i] /\ visits' = visits
      BY <2>5 DEF ReadByte
    <3>2. step' \in {"read2", "read3", "read4"} /\ Place[step'] = i
      BY <2>3, <2>5, <3>1, PlaceOfByte
    <3> QED BY <2>1, <2>2, <2>4, <2>5, <3>1, <3>2
  <2>6. CASE i = 4
    <3>1. \/ step' = "ack" /\ visits' = visits
          \/ ~OwnAddress(got') /\ Complete
      BY <2>6 DEF ReadByte
    <3> QED BY <2>1, <2>2, <2>4, <2>6, <3>1, PlaceOfByte
  <2> QED BY <2>3, <2>5, <2>6
<1>4. began = 1 /\ ir.tx # Blank => \A j \in 1 .. 4 : j <= i => got'[j] = ir.tx[j]
  BY <1>1, <1>3 DEF ReadRight, TypeOK, Frames
<1>5. /\ step' \in Steps /\ visits' \in 0 .. SleepVisits
      /\ Place[step'] = i \/ step' = "away"
  BY <1>1, <1>3, PlaceOfByte DEF Complete, Steps, TypeOK
<1>6. TypeOK'
  BY <1>1, <1>3, <1>5 DEF TypeOK
<1>7. ReadRight'
  BY <1>1, <1>3, <1>4, <1>5, PlaceOfByte DEF ReadRight
<1>8. ServedInTime'
  <2>1. CASE visits' = visits
    BY <1>1, <1>3, <2>1 DEF ServedInTime, Shown
  <2>2. CASE i = 4 /\ ~OwnAddress(got') /\ Complete
    <3>1. Shown /\ ir.at = "asleep" => began # 1
      <4> SUFFICES ASSUME Shown, ir.at = "asleep", began = 1 PROVE FALSE
        OBVIOUS
      <4>1. ir.tx # Blank
        BY <1>1 DEF ReadRight
      <4>2. \A j \in 1 .. 4 : j <= i => got'[j] = ir.tx[j]
        BY <1>4, <4>1
      <4>3. \A j \in 1 .. 4 : got'[j] = ir.tx[j]
        BY <4>2, <2>2
      <4>4. got' = ir.tx
        BY <1>2, <1>3, <4>3, ReadAll
      <4> QED BY <2>2, <4>4 DEF Shown, OwnKeys
    <3> QED BY <1>1, <1>3, <2>2, <3>1 DEF ServedInTime, Shown, Complete
  <2> QED BY <1>3, <2>1, <2>2
<1> QED BY <1>6, <1>7, <1>8 DEF LinkInv

LEMMA VisitInv == ASSUME LinkInv, Visit PROVE LinkInv'
<1> USE SleepAssumption, KeysAssumption
<1>1. TypeOK /\ ReadRight /\ ServedInTime
  BY DEF LinkInv
<1>2. CASE Address
  BY <1>1, <1>2, PlaceOfByte
  DEF Address, LinkInv, TypeOK, Steps, ReadRight, ServedInTime, Shown
<1>3. CASE \E i \in 1 .. 4 : ReadByte(i)
  BY <1>3, ReadByteInv
<1>4. CASE Acknowledge
  <2>1. /\ ir' = [ir EXCEPT !.mark = Acked] /\ step = "ack" /\ step' = "execute"
        /\ UNCHANGED <<got, visits, began, served>>
    BY <1>4 DEF Acknowledge
  <2>2. ir' \in Receivers /\ ir'.at = ir.at /\ ir'.tx = ir.tx
    BY <1>1, <2>1 DEF TypeOK, Receivers
  <2> QED
    BY <1>1, <2>1, <2>2, PlaceOfByte DEF LinkInv, TypeOK, Steps, ReadRight, ServedInTime, Shown
<1>5. CASE NotAcknowledged
  BY <1>1, <1>5, PlaceOfByte
  DEF NotAcknowledged, LinkInv, TypeOK, Steps, ReadRight, ServedInTime, Shown
<1>6. CASE Execute
  <2>1. /\ step = "execute" /\ step' = "away" /\ UNCHANGED <<ir, got, began>>
        /\ served' = IF began = 1 /\ got = ir.tx THEN 1 ELSE served
        /\ visits' = IF began = 1 /\ visits < SleepVisits THEN visits + 1 ELSE visits
    BY <1>6 DEF Execute, Complete
  <2>2. ir.tx \in Frames
    BY <1>1 DEF TypeOK, Receivers, Displays, Blank, Frames
  <2>3. began = 1 /\ ir.tx # Blank => got = ir.tx
    <3> SUFFICES ASSUME began = 1, ir.tx # Blank PROVE got = ir.tx
      OBVIOUS
    <3>1. \A j \in 1 .. 4 : got[j] = ir.tx[j]
      BY <1>1, <2>1, PlaceOfByte DEF ReadRight
    <3> QED BY <1>1, <2>2, <3>1, ReadAll DEF TypeOK
  <2>4. TypeOK'
    BY <1>1, <2>1 DEF TypeOK, Steps
  <2>5. ReadRight'
    BY <1>1, <2>1, PlaceOfByte DEF ReadRight
  <2>6. ServedInTime'
    BY <1>1, <2>1, <2>3 DEF ServedInTime, ReadRight, Shown, TypeOK
  <2> QED BY <2>4, <2>5, <2>6 DEF LinkInv
<1>7. CASE ReadFails
  BY <1>1, <1>7, PlaceOfByte
  DEF ReadFails, LinkInv, TypeOK, Steps, ReadRight, ServedInTime, Shown
<1> QED BY <1>2, <1>3, <1>4, <1>5, <1>6, <1>7 DEF Visit

LEMMA InvNext == LinkInv /\ [Next]_vars => LinkInv'
<1> SUFFICES ASSUME LinkInv, [Next]_vars PROVE LinkInv'
  OBVIOUS
<1>1. CASE UNCHANGED vars
  BY <1>1 DEF vars, LinkInv, TypeOK, ReadRight, ServedInTime, Shown
<1> QED BY <1>1, ReceiverInv, VisitInv DEF Next

(* What a visit has read of the display is right, and the receiver goes on
   only when the key on display has been obeyed. *)
THEOREM LinkInvariant == Spec => []LinkInv
BY InvInit, InvNext, PTL DEF Spec

(* A visit that begins when a key is on display obeys that key. *)
THEOREM DisplayObeyed == Spec => []ObeysDisplay
<1>1. LinkInv => ObeysDisplay
  <2> SUFFICES ASSUME LinkInv, step \in {"ack", "execute"}, began = 1, ir.tx # Blank
               PROVE  got = ir.tx
    BY DEF ObeysDisplay
  <2>1. \A j \in 1 .. 4 : got[j] = ir.tx[j]
    BY PlaceOfByte DEF LinkInv, ReadRight
  <2>2. got \in Frames /\ ir.tx \in Frames
    BY KeysAssumption DEF LinkInv, TypeOK, Receivers, Displays, Blank, Frames
  <2> QED BY <2>1, <2>2, ReadAll
<1> QED BY <1>1, LinkInvariant, PTL

(* No key of our remote leaves the display before it was obeyed. *)
THEOREM NoneLost == Spec => NoKeyLost
<1>1. LinkInv /\ [Next]_vars => [Shown /\ ir'.tx # ir.tx => served = 1]_vars
  <2> SUFFICES ASSUME LinkInv, Next, Shown, ir'.tx # ir.tx PROVE served = 1
    OBVIOUS
  <2>1. TypeOK /\ ir \in Receivers /\ ServedInTime
    BY DEF LinkInv, TypeOK
  <2>2. CASE CheckMark
    BY <2>1, <2>2 DEF CheckMark, ServedInTime
  <2>3. CASE PollNothing
    BY <2>1, <2>3 DEF PollNothing, ServedInTime
  <2>4. CASE \E key \in Keys : Press(key)
    BY <2>1, <2>4 DEF Press, ServedInTime
  <2>5. CASE WakeUp
    BY <2>1, <2>5 DEF WakeUp, Wake, Receivers
  <2>6. CASE Visit
    <3>1. CASE Acknowledge
      BY <2>1, <3>1 DEF Acknowledge, Receivers
    <3>2. CASE Address
      BY <3>2 DEF Address
    <3>3. CASE \E i \in 1 .. 4 : ReadByte(i)
      BY <3>3 DEF ReadByte
    <3>4. CASE NotAcknowledged
      BY <3>4 DEF NotAcknowledged
    <3>5. CASE Execute
      BY <3>5 DEF Execute
    <3>6. CASE ReadFails
      BY <3>6 DEF ReadFails
    <3> QED BY <2>6, <3>1, <3>2, <3>3, <3>4, <3>5, <3>6 DEF Visit
  <2> QED BY <2>2, <2>3, <2>4, <2>5, <2>6 DEF Next, Receiver
<1> QED BY <1>1, LinkInvariant, PTL DEF Spec, NoKeyLost

-----------------------------------------------------------------------------
(* The settings: LampKeys obeys as LampSettings says. *)
LEMMA SameObey ==
  ASSUME NEW command, NEW s
  PROVE  L!Obey(command, s) = Lamp!Obey(command, s)
BY DEF L!Obey, Lamp!Obey, L!Full, Lamp!Full, L!Raise, Lamp!Raise, L!Lower, Lamp!Lower

LEMMA SameLitColour ==
  ASSUME NEW s
  PROVE  L!LitColour(s, 0) = Lamp!LitColour(s, 0)
BY DEF L!LitColour, Lamp!LitColour, L!Scaled, Lamp!Scaled, L!Factor, Lamp!Factor, L!Int16, Lamp!Int16,
       L!Byte, Lamp!Byte, L!Black, Lamp!Black

(* Every sequence of commands, of any numbers, leaves every setting in its
   range, and the 16-bit arithmetic of the colours exact and never brighter
   than the setting. *)
THEOREM SettingsStayExact == L!Spec => []SettingsExact
<1>1. L!Init => settings \in Lamp!Settings
  BY DEF L!Init, L!Default, Lamp!Settings
<1>2. settings \in Lamp!Settings /\ [L!Next]_settings => (settings \in Lamp!Settings)'
  <2> SUFFICES ASSUME settings \in Lamp!Settings, [L!Next]_settings PROVE settings' \in Lamp!Settings
    OBVIOUS
  <2>1. CASE UNCHANGED settings
    BY <2>1
  <2>2. CASE L!Next
    <3>1. PICK command \in Commands : L!Press(command)
      BY <2>2 DEF L!Next
    <3>2. command \in Int
      BY <3>1, SMT DEF L!Press
    <3>3. settings' = Lamp!Obey(command, settings)
      BY <3>1, SameObey DEF L!Press
    <3> QED BY <3>2, <3>3, Lamp!ObeyInRange
  <2> QED BY <2>1, <2>2
<1>3. settings \in Lamp!Settings => SettingsExact
  <2> SUFFICES ASSUME settings \in Lamp!Settings PROVE L!InRange /\ L!ColourIsExact
    BY DEF SettingsExact
  <2>1. L!InRange
    BY DEF L!InRange, L!Settings, Lamp!Settings
  <2>2. L!ColourIsExact
    BY Lamp!LitExact, SameLitColour DEF L!ColourIsExact, L!Channels
  <2> QED BY <2>1, <2>2
<1> QED BY <1>1, <1>2, <1>3, PTL DEF L!Spec
=============================================================================
