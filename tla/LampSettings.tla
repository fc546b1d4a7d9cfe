---------------------------- MODULE LampSettings ----------------------------
(***************************************************************************)
(* The settings of the lamp controller, what a command of the remote       *)
(* control does to them (the switch in readIr of Schlafzimmer/main.c) and  *)
(* the colour the lamp shows.  int is 16 bits wide on the AVR.             *)
(***************************************************************************)
EXTENDS Integers

Int16(x) == ((x + 32768) % 65536) - 32768
Byte(x) == x % 256

Channels == {"r", "g", "b"}
Cells == {"r", "g", "b", "percent", "light"}     \* what is kept in the clock's RAM

Settings == [r : 0 .. 255, g : 0 .. 255, b : 0 .. 255, percent : 5 .. 100,
             light : {0, 1}, function : 0 .. 4]

Default == [r |-> 255, g |-> 239, b |-> 191, percent |-> 100, light |-> 0, function |-> 0]

\* A step up or down, held at the limit.
Raise(x, by, limit) == IF x + by > limit THEN limit ELSE x + by
Lower(x, by, limit) == IF x - by < limit THEN limit ELSE x - by

Full(s, r, g, b) ==
  [s EXCEPT !.function = 0, !.percent = 100, !.r = r, !.g = g, !.b = b]

\* A colour key that forgets the lower limit.
Obey_Wraps(command, s) ==
  IF command = 12 THEN [s EXCEPT !.r = @ - 8] ELSE s

Obey(command, s) ==
  CASE command = 0  -> [s EXCEPT !.percent = Raise(@, 2, 100)]
    [] command = 1  -> [s EXCEPT !.percent = Lower(@, 2, 5)]
    [] command = 2  -> [s EXCEPT !.light = 0]
    [] command = 3  -> [s EXCEPT !.light = 1, !.function = 0]
    [] command = 4  -> Full(s, 255, 0, 0)
    [] command = 5  -> Full(s, 0, 255, 0)
    [] command = 6  -> Full(s, 0, 0, 255)
    [] command = 7  -> Full(s, 255, 239, 191)
    [] command = 8  -> [s EXCEPT !.r = Raise(@, 8, 255)]
    [] command = 9  -> [s EXCEPT !.g = Raise(@, 8, 255)]
    [] command = 10 -> [s EXCEPT !.b = Raise(@, 8, 255)]
    [] command = 11 -> [s EXCEPT !.function = 1]
    [] command = 12 -> [s EXCEPT !.r = Lower(@, 8, 0)]
    [] command = 13 -> [s EXCEPT !.g = Lower(@, 8, 0)]
    [] command = 14 -> [s EXCEPT !.b = Lower(@, 8, 0)]
    [] command = 15 -> [s EXCEPT !.function = 2]
    [] command = 19 -> [s EXCEPT !.function = 3]
    [] command = 23 -> [s EXCEPT !.function = 4]
    [] OTHER -> s

-----------------------------------------------------------------------------
Black == <<0, 0, 0>>

\* The light of a gesture in progress.
TempColour == << <<34, 34, 34>>, <<160, 160, 160>>, <<0, 0, 255>>,
                 <<0, 255, 255>>, <<255, 0, 255>>, <<255, 255, 0>> >>

\* dFunctionFactor: 1 on the passes on which the blinking functions light the lamp.
Factor(s, pass) ==
  CASE s.function = 1 -> IF pass % 10 = 0 THEN 1 ELSE 0
    [] s.function = 2 -> IF pass % 2 = 0 THEN 1 ELSE 0
    [] OTHER -> 1

\* The division before the multiplication.
Scaled_Coarse(x, s) == (x \div 10) * (s.percent \div 10)

\* The product is computed in 16 bits, the division truncates towards zero.
Scaled(x, s) ==
  LET product == Int16(x * s.percent)
  IN  Byte(IF product >= 0 THEN product \div 100 ELSE -((-product) \div 100))

LitColour(s, pass) ==
  IF Factor(s, pass) = 0 THEN Black
  ELSE <<Scaled(s.r, s), Scaled(s.g, s), Scaled(s.b, s)>>

Colour(temp, s, pass) ==
  IF temp \in 1 .. 6 THEN TempColour[temp]
  ELSE IF s.light = 0 THEN Black ELSE LitColour(s, pass)
=============================================================================
