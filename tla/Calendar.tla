------------------------------ MODULE Calendar ------------------------------
(***************************************************************************)
(* The calendar of wordclock/i2c-rtc.c: the steps with which a date and    *)
(* time is adjusted and shifted, and the reference they are checked        *)
(* against, a count of the days and minutes since the first of January     *)
(* 2000.  A time is [YY, MM, DD, hh, mm] with the two digits of the year.  *)
(***************************************************************************)
EXTENDS Integers

CommonDays(MM) == IF MM \in {4, 6, 9, 11} THEN 30 ELSE IF MM = 2 THEN 28 ELSE 31

DaysIn_NoLeap(MM, YY) == CommonDays(MM)

\* As both day steps compute it: 2000 (YY = 0) is taken for a common year.
DaysIn(MM, YY) == IF MM = 2 /\ YY % 4 = 0 /\ YY % 100 # 0 THEN 29 ELSE CommonDays(MM)

\* YY is an unsigned char.
add_year(t) == [t EXCEPT !.YY = (@ + 1) % 256]
sub_year(t) == [t EXCEPT !.YY = (@ - 1) % 256]

add_month(t) == IF t.MM < 12 THEN [t EXCEPT !.MM = @ + 1] ELSE add_year([t EXCEPT !.MM = 1])

sub_month_Zero(t) == IF t.MM > 0 THEN [t EXCEPT !.MM = @ - 1] ELSE sub_year([t EXCEPT !.MM = 12])

sub_month(t) == IF t.MM > 1 THEN [t EXCEPT !.MM = @ - 1] ELSE sub_year([t EXCEPT !.MM = 12])

add_day(t) ==
  IF t.DD + 1 <= DaysIn(t.MM, t.YY) THEN [t EXCEPT !.DD = @ + 1] ELSE add_month([t EXCEPT !.DD = 1])

sub_day_ThisMonth(t) ==
  IF t.DD > 1 THEN [t EXCEPT !.DD = @ - 1] ELSE sub_month([t EXCEPT !.DD = DaysIn(t.MM, t.YY)])

\* Before January comes month 0, which has 31 days.
sub_day(t) ==
  IF t.DD > 1 THEN [t EXCEPT !.DD = @ - 1] ELSE sub_month([t EXCEPT !.DD = DaysIn(t.MM - 1, t.YY)])

add_hour(t) == IF t.hh < 23 THEN [t EXCEPT !.hh = @ + 1] ELSE add_day([t EXCEPT !.hh = 0])
sub_hour(t) == IF t.hh > 0 THEN [t EXCEPT !.hh = @ - 1] ELSE sub_day([t EXCEPT !.hh = 23])

add_minute(t) == IF t.mm < 59 THEN [t EXCEPT !.mm = @ + 1] ELSE add_hour([t EXCEPT !.mm = 0])
sub_minute(t) == IF t.mm > 0 THEN [t EXCEPT !.mm = @ - 1] ELSE sub_hour([t EXCEPT !.mm = 59])

\* The shift by the time zone, hour by hour.
ShiftHours(t, n) ==
  LET f[k \in 0 .. 13] ==
        IF k = 0 THEN t ELSE IF n > 0 THEN add_hour(f[k - 1]) ELSE sub_hour(f[k - 1])
  IN  f[IF n > 0 THEN n ELSE -n]

amziffer == <<0, 3, 3, 6, 1, 4, 6, 2, 5, 0, 3, 5>>

Weekday_LateLeap(t) == (t.DD + amziffer[t.MM] + t.YY + t.YY \div 4 + 6) % 7

\* 0 is Sunday.
Weekday(t) ==
  ( (t.DD % 7) + amziffer[t.MM] + ((t.YY + t.YY \div 4) % 7)
    + (IF t.YY % 4 = 0 /\ t.MM < 3 THEN 6 ELSE 0) + 6 ) % 7

itobcd(i) == ((((i * 205) \div 2048) * 16) % 256) + (i - 10 * ((i * 205) \div 2048))
bcdtoi(b) == 10 * (b \div 16) + (b % 16)

-----------------------------------------------------------------------------
(* The reference: the Gregorian calendar of 2000 to 2099. *)
LeapYear(YY) == YY % 4 = 0
MonthDays(MM, YY) == IF MM = 2 /\ LeapYear(YY) THEN 29 ELSE CommonDays(MM)
Before == <<0, 31, 59, 90, 120, 151, 181, 212, 243, 273, 304, 334>>

DayNumber(t) ==
  365 * t.YY + (t.YY + 3) \div 4 + Before[t.MM]
  + (IF t.MM > 2 /\ LeapYear(t.YY) THEN 1 ELSE 0) + t.DD - 1
HourNumber(t) == 24 * DayNumber(t) + t.hh
MinuteNumber(t) == 60 * HourNumber(t) + t.mm

Exists(t) == t.YY \in 0 .. 99 /\ t.MM \in 1 .. 12 /\ t.DD \in 1 .. MonthDays(t.MM, t.YY)
WeekdayOfDay(n) == (n + 6) % 7     \* the first of January 2000 was a Saturday
=============================================================================
