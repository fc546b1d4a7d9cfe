------------------------------ MODULE LampKeys ------------------------------
(***************************************************************************)
(* The settings under every sequence of remote-control commands.           *)
(***************************************************************************)
EXTENDS LampSettings

CONSTANT Commands      \* command numbers the remote control sends

VARIABLE settings

Init == settings = Default

\* The command is the 16 bits of a frame.
Press(command) == command \in 0 .. 65535 /\ settings' = Obey(command, settings)

Next == \E command \in Commands : Press(command)

Spec == Init /\ [][Next]_settings

-----------------------------------------------------------------------------
(* No sequence of keys moves a setting out of its range: the steps of 2
   and 8 do not divide the ranges, so that the limits are met off the grid. *)
InRange == settings \in Settings

(* The colour is the setting scaled by the brightness: the product fits the
   16 bits it is computed in, the quotient fits the PWM register, and no
   colour gets brighter than its setting. *)
ColourIsExact ==
  LET exact == [c \in Channels |-> (settings[c] * settings.percent) \div 100]
  IN  /\ LitColour(settings, 0) = <<exact["r"], exact["g"], exact["b"]>>
      /\ \A c \in Channels : exact[c] <= settings[c]
=============================================================================
