------------------------------ MODULE LocalTime ------------------------------
(***************************************************************************)
(* The local time that i2c_rtc_read makes of the clock's universal time:   *)
(* time zone, summer time and the hour of sunrise (wordclock/i2c-rtc.c).   *)
(* The clock chip runs on its own; local time is a function of it.         *)
(***************************************************************************)
EXTENDS Calendar

CONSTANTS
  LastYear,  \* the year after which the run begins again; 99 in the chip
  Zones      \* the values rtc_offset is set to, hours ahead of universal time

VARIABLES utc, rtc_offset

vars == <<utc, rtc_offset>>

Standard == ShiftHours(utc, rtc_offset)

AfterLastSunday_AnyHour(DD, wd, hh) == DD - wd >= 25

\* The last Sunday of a month of 31 days, as far as the weekday read tells.
AfterLastSunday(DD, wd, hh) == DD - wd >= 25 /\ (wd # 0 \/ hh > 2)

\* The day, month and hour are already local, the weekday still universal.
dst ==
  LET t == Standard
      late == AfterLastSunday(t.DD, Weekday(utc), t.hh)
  IN  CASE t.MM \in {1, 2, 11, 12} -> 0
        [] t.MM \in 4 .. 9 -> 1
        [] t.MM = 3 -> IF late THEN 1 ELSE 0
        [] t.MM = 10 -> IF late THEN 0 ELSE 1

Local == ShiftHours(Standard, dst)

CenturyHours == 24 * 36525

\* The local day exists, but for the hours a zone is past the century's ends.
TypeOK ==
  /\ Exists(utc) /\ rtc_offset \in Zones
  /\ HourNumber(utc) + rtc_offset \in 0 .. CenturyHours - 1 => Exists(Local)

Init ==
  /\ utc \in [YY : 0 .. LastYear, MM : 1 .. 12, DD : {1}, hh : {0}, mm : {0}]
  /\ rtc_offset \in Zones

\* The chip's own calendar, which knows the 29th of February 2000.
Tick ==
  /\ utc' = IF utc.hh < 23 THEN [utc EXCEPT !.hh = @ + 1]
            ELSE IF utc.DD < MonthDays(utc.MM, utc.YY) THEN [utc EXCEPT !.hh = 0, !.DD = @ + 1]
            ELSE IF utc.MM < 12 THEN [utc EXCEPT !.hh = 0, !.DD = 1, !.MM = @ + 1]
            ELSE [utc EXCEPT !.hh = 0, !.DD = 1, !.MM = 1, !.YY = IF @ = LastYear THEN 0 ELSE @ + 1]
  /\ UNCHANGED rtc_offset

\* 'z+' and 'z-' go round through every zone.
SetOffset == rtc_offset' \in Zones /\ UNCHANGED utc

Next == Tick \/ SetOffset

Spec == Init /\ [][Next]_vars

-----------------------------------------------------------------------------
(* The rule of law: from 01:00 universal time on the last Sunday of March to
   01:00 on the last Sunday of October. *)
LastSunday(MM) ==
  LET last == [utc EXCEPT !.MM = MM, !.DD = 31]
  IN  31 - WeekdayOfDay(DayNumber(last))
Legal ==
  LET From(MM) == HourNumber([utc EXCEPT !.MM = MM, !.DD = LastSunday(MM), !.hh = 1])
  IN  IF HourNumber(utc) \in From(3) .. From(10) - 1 THEN 1 ELSE 0

\* The switch comes at three o'clock standard time, an hour late, ...
FirstHour == utc.MM \in {3, 10} /\ utc.DD = LastSunday(utc.MM) /\ utc.hh = 1
\* ... and from midnight to one the local day has changed and the universal
\* weekday has not: the switch is taken back in the night after it, and when
\* the last Sunday is the 31st it comes for an hour in each of the six nights
\* that end a day before.
AfterMidnight ==
  /\ utc.MM \in {3, 10} /\ utc.hh = 23
  /\ IF LastSunday(utc.MM) = 31 THEN utc.DD \in 25 .. 30 ELSE utc.DD = LastSunday(utc.MM)

(* In Germany the clock shows summer time as the law has it, year after year,
   but for exactly these hours. *)
SummerTimeByLaw ==
  rtc_offset = 1 => (dst # Legal <=> FirstHour \/ AfterMidnight)

(* Whatever the zone, local time is universal time moved by the zone and at
   most one hour more, across every end of a day, month and year; the day
   steps ignore the 29th of February 2000. *)
LocalIsShifted ==
  utc.YY # 0 \/ utc.MM > 3 =>
    HourNumber(Local) - HourNumber(utc) \in {rtc_offset, rtc_offset + 1}

-----------------------------------------------------------------------------
(* Sunrise, in hundredths of an hour: the table holds hours and minutes for
   the beginning of each month, less an hour and a quarter. *)
RiseTable == << <<8, 37>>, <<8, 12>>, <<7, 20>>, <<6, 11>>, <<5, 8>>, <<4, 52>>, <<4, 20>>,
               <<4, 55>>, <<5, 43>>, <<6, 31>>, <<7, 23>>, <<8, 12>>, <<8, 37>> >>
XY2CL(x, y) == x * 100 + (y * 6) \div 10
Rise(MM) == XY2CL(RiseTable[MM][1], RiseTable[MM][2]) - XY2CL(1, 15)

\* C's division rounds towards zero.
Quotient(a, b) == IF a >= 0 THEN a \div b ELSE -((-a) \div b)
RiseToday == Rise(utc.MM) + Quotient((Rise(utc.MM + 1) - Rise(utc.MM)) * utc.DD, 31)
SunriseMinutes == 60 * (RiseToday \div 100) + ((RiseToday % 100) * 60) \div 100

(* "Sunset-Timing in local time": on the first of a month the sun rises at
   the time the table gives, less an hour and a quarter, give or take the
   three minutes a day may differ. *)
SunriseAsTabulated ==
  utc.DD = 1 =>
    LET table == 60 * RiseTable[utc.MM][1] + RiseTable[utc.MM][2] - 75
    IN  SunriseMinutes \in table - 3 .. table + 3
=============================================================================
