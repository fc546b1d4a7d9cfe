------------------------------ MODULE Adjusting ------------------------------
(***************************************************************************)
(* Setting the clock with the adjusting commands of wordclock/main.c: read *)
(* the clock, take one step, write it back in BCD.  date is what the clock *)
(* holds, done the step just taken, both for the properties.               *)
(***************************************************************************)
EXTENDS Calendar

CONSTANTS
  Years,      \* the years to begin in
  MaxSteps    \* bound on the number of steps

VARIABLES date, done, steps

vars == <<date, done, steps>>

StepNames == {"m+", "m-", "h+", "h-", "D+", "D-", "M+", "M-", "Y+", "Y-"}

\* The commands, by their letters ('+' and '-' alone are m+ and m-).
Stepped(step, t) ==
  CASE step = "m+" -> add_minute(t) [] step = "m-" -> sub_minute(t)
    [] step = "h+" -> add_hour(t)   [] step = "h-" -> sub_hour(t)
    [] step = "D+" -> add_day(t)    [] step = "D-" -> sub_day(t)
    [] step = "M+" -> add_month(t)  [] step = "M-" -> sub_month(t)
    [] step = "Y+" -> add_year(t)   [] step = "Y-" -> sub_year(t)

\* i2c_rtc_write and the next i2c_rtc_read.
Stored(t) == [field \in DOMAIN t |-> bcdtoi(itobcd(t[field]))]

TypeOK ==
  /\ date.YY \in 0 .. 255 /\ date.MM \in 1 .. 12 /\ date.DD \in 1 .. 31
  /\ date.hh \in 0 .. 23 /\ date.mm \in 0 .. 59
  /\ done \in StepNames \cup {"none"} /\ steps \in 0 .. MaxSteps

\* A clock that runs shows a day that exists.
Init ==
  /\ date \in {t \in [YY : Years, MM : 1 .. 12, DD : {1, 2} \cup 27 .. 31, hh : {0, 23}, mm : {0, 59}] :
                 Exists(t)}
  /\ done = "none" /\ steps = 0

Adjust(step) ==
  /\ steps < MaxSteps
  /\ date' = Stored(Stepped(step, date))
  /\ done' = step /\ steps' = steps + 1

\* 'u' sets a time outright, after which the steps are counted again.
Set ==
  /\ steps = MaxSteps
  /\ \E YY \in Years : date' = Stored([YY |-> YY, MM |-> 1, DD |-> 1, hh |-> 0, mm |-> 0])
  /\ done' = "none" /\ steps' = 0

Next == Set \/ \E step \in StepNames : Adjust(step)

Spec == Init /\ [][Next]_vars

-----------------------------------------------------------------------------
Minutes(step) ==
  CASE step = "m+" -> 1    [] step = "m-" -> -1
    [] step = "h+" -> 60   [] step = "h-" -> -60
    [] step = "D+" -> 1440 [] step = "D-" -> -1440
    [] OTHER -> 0

\* The 29th of February 2000 is unknown to the day steps.
AroundLeapDay2000(t) == t.YY = 0 /\ <<t.MM, t.DD>> \in {<<2, 28>>, <<2, 29>>, <<3, 1>>}

StepIsExact ==
  LET minutes == Minutes(done')
      target == MinuteNumber(date) + minutes
      end == MinuteNumber([YY |-> 100, MM |-> 1, DD |-> 1, hh |-> 0, mm |-> 0])
  IN  /\ minutes # 0 /\ Exists(date) /\ ~AroundLeapDay2000(date) /\ target \in 0 .. end - 1
         => MinuteNumber(date') = target /\ Exists(date')
      /\ Exists(date) /\ ~Exists(date')
         => done' \in {"M+", "M-", "Y+", "Y-"} \/ date.YY \in {0, 99}
      /\ ~Exists(date) /\ date.YY \in 1 .. 98 /\ done' = "D+" => Exists(date')

(* From a day that exists the minute, hour and day steps move the time by
   exactly their amount, across every end of a day, month or year of the
   century but for the leap day of 2000.  Only a month or year step leaves
   the calendar for a day that does not exist (31st of April), or any step
   across the ends of the century; the next D+ comes back into it (D- from
   the 31st of February only reaches the 30th). *)
StepsAreExact == [][StepIsExact]_vars

(* The weekday, computed from the date by a formula of its own, is the
   calendar's on every day the steps reach: the formula counts 2000 as a leap
   year, though the day steps do not know its 29th of February. *)
WeekdayFollows ==
  Exists(date) => Weekday(date) = WeekdayOfDay(DayNumber(date))
=============================================================================
