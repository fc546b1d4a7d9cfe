---------------------------- MODULE MCClockParts ----------------------------
(***************************************************************************)
(* The parts of wordclock/ around its main program, which share no state:  *)
(* a behaviour is one of the light sensor, of the words, of the serial     *)
(* mailbox, of the adjusting of the date, or of local time.                *)
(***************************************************************************)
EXTENDS LightSensor

CONSTANTS Letters, MaxLine, UART_MAXSTRLEN, Pattern, PatternLength,   \* of UartMailbox
          Years, MaxSteps, LastYear, Zones

\* No letter of a command is a marker or an end, and the buffer holds a line.
ASSUME LineAssumption ==
  /\ Letters \cap {">", "NUL", "CR", "LF"} = {}
  /\ MaxLine \in Nat /\ UART_MAXSTRLEN \in Nat /\ UART_MAXSTRLEN >= MaxLine + 2
  /\ PatternLength \in 1 .. UART_MAXSTRLEN - 1

\* The clock keeps two digits of the year.
ASSUME DateAssumption == Years \subseteq 0 .. 99 /\ LastYear \in 0 .. 99 /\ MaxSteps \in Nat

\* 'z-' wraps below -12 and 'z+' above 12.
ASSUME ZoneAssumption == Zones \subseteq -12 .. 12

VARIABLES
  part, hour, minute, wire, uart_str_complete, uart_str_count, uart_string, sent,
  date, done, steps, utc, rtc_offset

\* Values of Zones: Germany and both ends.
AllZones == {-12, 1, 12}

W == INSTANCE Words WITH hh <- hour, mm <- minute
M == INSTANCE UartMailbox
A == INSTANCE Adjusting
T == INSTANCE LocalTime

words == <<hour, minute>>
mailbox == <<wire, uart_str_complete, uart_str_count, uart_string, sent>>
dates == <<date, done, steps>>
local == <<utc, rtc_offset>>
all == <<part, vars, words, mailbox, dates, local>>

\* Each part that does not run rests in one of its initial states.
MCInit ==
  /\ part \in {"light", "words", "mailbox", "date", "local"}
  /\ Init /\ (part # "light" => light = 0)
  /\ W!Init /\ (part # "words" => hour = 0)
  /\ M!Init
  /\ IF part = "date" THEN A!Init
     ELSE date = [YY |-> 3, MM |-> 1, DD |-> 1, hh |-> 0, mm |-> 0] /\ done = "none" /\ steps = 0
  /\ T!Init /\ (part # "local" => utc.YY = 0 /\ utc.MM = 1 /\ rtc_offset = 1)

LightStep == part = "light" /\ Next /\ UNCHANGED <<part, words, mailbox, dates, local>>
WordsStep == part = "words" /\ W!Next /\ UNCHANGED <<part, vars, mailbox, dates, local>>
MailStep == part = "mailbox" /\ M!Next /\ UNCHANGED <<part, vars, words, dates, local>>
DateStep == part = "date" /\ A!Next /\ UNCHANGED <<part, vars, words, mailbox, local>>
LocalStep == part = "local" /\ T!Next /\ UNCHANGED <<part, vars, words, mailbox, dates>>

MCSpec ==
  /\ MCInit /\ [][LightStep \/ WordsStep \/ MailStep \/ DateStep \/ LocalStep]_all
  /\ WF_vars(part = "light" /\ Convert) /\ WF_vars(part = "light" /\ ldr_read)
  /\ WF_mailbox(part = "mailbox" /\ M!Receive) /\ WF_mailbox(part = "mailbox" /\ M!Serve)

PartsInv == M!TypeOK /\ A!TypeOK /\ A!WeekdayFollows /\ T!TypeOK /\ T!LocalIsShifted
SaysTheTime == W!SaysTheTime
ActsLikeMail == M!ActsLikeMail
FreeLineArrives == M!FreeLineArrives
StepsAreExact == A!StepsAreExact
SummerTimeByLaw == T!SummerTimeByLaw
=============================================================================
