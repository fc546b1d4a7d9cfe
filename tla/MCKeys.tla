------------------------------- MODULE MCKeys -------------------------------
(***************************************************************************)
(* The way of a key from the infrared receiver to the controller, and what *)
(* keys do to the settings: a behaviour is one of either.                  *)
(***************************************************************************)
EXTENDS IrLink

CONSTANT Commands      \* of LampKeys

(* Two keys of our remote and one of another remote with the same command
   number as a key of ours. *)
MCKeys == {<<0, 2, 239, 0>>, <<0, 3, 239, 0>>, <<0, 3, 0, 255>>}

(* The keys of the dimmer, of the switch, of one colour channel and of two
   full colours: two further channels only multiply the states. *)
MCCommands == {0, 1, 2, 3, 4, 7, 8, 11, 12}

VARIABLES part, settings

L == INSTANCE LampKeys

MCInit == part \in {"link", "settings"} /\ Init /\ L!Init
LinkStep == part = "link" /\ Next /\ UNCHANGED <<part, settings>>
SettingsStep == part = "settings" /\ L!Next /\ UNCHANGED <<part, vars>>

MCSpec ==
  /\ MCInit /\ [][LinkStep \/ SettingsStep]_<<part, vars, settings>>
  /\ WF_vars(part = "link" /\ Visit)
  /\ SF_vars(part = "link" /\ ReadByte(1)) /\ SF_vars(part = "link" /\ Acknowledge)

SettingsExact == L!InRange /\ L!ColourIsExact
=============================================================================
