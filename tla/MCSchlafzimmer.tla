--------------------------- MODULE MCSchlafzimmer ---------------------------
(***************************************************************************)
(* The lamp in five circumstances, of which every behaviour has one: a     *)
(* sensor is waved at and a visit may break; the other is waved at and a   *)
(* device misses a visit or an acknowledgement; the controller is reset    *)
(* and the clock refuses; one sensor is dead; nothing fails.               *)
(***************************************************************************)
EXTENDS Schlafzimmer

NoKeys == {}
Off == {<<0, 2, 239, 0>>}
OnOff == {<<0, 2, 239, 0>>, <<0, 3, 239, 0>>}
OnRed == {<<0, 3, 239, 0>>, <<0, 4, 239, 0>>}

VARIABLE case

Waved == INSTANCE Schlafzimmer WITH
  MaxAway <- 1, Hand1 <- {"far", "near", "none"}, Hand2 <- {"none"}, Keys <- Off,
  ErrorLimit <- 1, Dead <- {}, Faults <- {"broken"}, MaxFaults <- 1
Struck == INSTANCE Schlafzimmer WITH
  MaxAway <- 1, Hand1 <- {"none"}, Hand2 <- {"none"}, Keys <- OnRed,
  ErrorLimit <- 1, Dead <- {}, Faults <- {"reset", "sram", "silent"}, MaxFaults <- 2
Deaf == INSTANCE Schlafzimmer WITH
  MaxAway <- 2, Hand1 <- {"none"}, Hand2 <- {"none"}, Keys <- OnOff,
  ErrorLimit <- 1, Dead <- {"sensor2"}, Faults <- {}, MaxFaults <- 0
Calm == INSTANCE Schlafzimmer WITH
  MaxAway <- 2, Hand1 <- {"near", "none"}, Hand2 <- {"none"}, Keys <- OnOff,
  ErrorLimit <- 1, Dead <- {}, Faults <- {}, MaxFaults <- 0

MCNext ==
  /\ \/ case = "waved" /\ Waved!Next
     \/ case = "missed" /\ Next   \* with the constants of the configuration
     \/ /\ case = "struck"   \* the sensors see nothing, and pass when they are waited for
        /\ \/ Struck!Receiver \/ Struck!Controller \/ Struck!Reset
           \/ pc = "sensor1" /\ Struck!Pass1
           \/ pc = "sensor2" /\ Struck!Pass2
     \/ case = "deaf" /\ Deaf!Next
     \/ case = "calm" /\ Calm!Next
  /\ UNCHANGED case

FaultsInit == Init /\ case \in {"waved", "missed", "struck"}
FaultsSpec == FaultsInit /\ [][MCNext]_<<vars, case>>

LivesInit == Init /\ case \in {"deaf", "calm"}
LivesSpec ==
  /\ LivesInit /\ [][MCNext]_<<vars, case>>
  /\ WF_vars(case = "deaf" /\ Deaf!Pass1) /\ WF_vars(case = "calm" /\ Calm!Pass1)
  /\ WF_vars(case = "deaf" /\ Deaf!Pass2) /\ WF_vars(case = "calm" /\ Calm!Pass2)
  /\ WF_vars(case = "deaf" /\ Deaf!Controller) /\ WF_vars(case = "calm" /\ Calm!Controller)

(* The commands of both sensors are executed exactly once per gesture,
   though the visits share uiLightCmd and the bus with everything else, and
   though a device misses a visit: provided that no visit breaks after its address
   and that no hand is waved while the controller is down. *)
In(value) == IF case = "missed" THEN value ELSE 0
Channel1 == INSTANCE LightChannel WITH
  wave <- In(S1!Ripe(dev1)), offer <- In(S1!Offer), executed <- In(executed1)
Channel2 == INSTANCE LightChannel WITH
  wave <- In(S2!Ripe(dev2)), offer <- In(S2!Offer), executed <- In(executed2)
CommandsOnce == Channel1!Spec /\ Channel2!Spec
=============================================================================
