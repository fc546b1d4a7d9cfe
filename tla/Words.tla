-------------------------------- MODULE Words --------------------------------
(***************************************************************************)
(* The words wordclock/main.c lights for a time of day, and what a reader  *)
(* makes of them.                                                          *)
(***************************************************************************)
EXTENDS Integers, FiniteSets

VARIABLES hh, mm

vars == <<hh, mm>>

HourWords == <<"zwoelfH", "einsH", "zweiH", "dreiH", "vierH", "fuenfH", "sechsH",
               "siebenH", "achtH", "neunH", "zehnH", "elfH">>

\* def_h has 25 entries: twice round the dial and twelve once more.
def_h == [i \in 0 .. 24 |-> HourWords[(i % 12) + 1]]

Phrase_NoVor ==
  << {}, {"fuenfM", "nach"}, {"zehnM", "nach"}, {"viertelM", "nach"}, {"zwanzigM", "nach"},
     {"fuenfM", "halb"}, {"halb"}, {"fuenfM", "nach", "halb"},
     {"zwanzigM", "vor"}, {"viertelM", "vor"}, {"zehnM", "vor"}, {"fuenfM", "vor"} >>

\* One phrase for each five minutes.
Phrase ==
  << {}, {"fuenfM", "nach"}, {"zehnM", "nach"}, {"viertelM", "nach"}, {"zwanzigM", "nach"},
     {"fuenfM", "vor", "halb"}, {"halb"}, {"fuenfM", "nach", "halb"},
     {"zwanzigM", "vor"}, {"viertelM", "vor"}, {"zehnM", "vor"}, {"fuenfM", "vor"} >>

\* Four points light one after the other.
Points == <<{}, {"mp4"}, {"mp4", "mp2"}, {"mp4", "mp2", "mp1"}, {"mp4", "mp2", "mp1", "mp3"}>>

hoffset == IF mm < 25 THEN 0 ELSE 1

lLEDs == {"es", "ist", "uhr"} \cup Points[(mm % 5) + 1] \cup Phrase[(mm \div 5) + 1]
         \cup {def_h[hh + hoffset]}

\* The time passes, and any time may be set.
Init == hh \in 0 .. 23 /\ mm = 0
Next_Minute == mm' = (mm + 1) % 60 /\ hh' = IF mm = 59 THEN (hh + 1) % 24 ELSE hh
Next == Next_Minute
Spec == Init /\ [][Next]_vars

-----------------------------------------------------------------------------
\* How German reads it: vor and nach count from the hour or the half.
Amount(lit) ==
  CASE "fuenfM" \in lit -> 5 [] "zehnM" \in lit -> 10 [] "viertelM" \in lit -> 15
    [] "zwanzigM" \in lit -> 20 [] OTHER -> 0
Hour(lit) == (CHOOSE i \in 1 .. 12 : HourWords[i] \in lit) - 1
Read(lit) ==
  ( 60 * Hour(lit) - (IF "halb" \in lit THEN 30 ELSE 0)
    + (IF "vor" \in lit THEN -Amount(lit) ELSE Amount(lit))
    + Cardinality(lit \cap {"mp1", "mp2", "mp3", "mp4"}) ) % 720

(* Whoever reads the lit words in German knows the time, to the minute and on
   a dial of twelve hours; exactly one hour is named. *)
SaysTheTime ==
  /\ Read(lLEDs) = (60 * hh + mm) % 720
  /\ Cardinality(lLEDs \cap {HourWords[i] : i \in 1 .. 12}) = 1
=============================================================================
