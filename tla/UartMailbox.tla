----------------------------- MODULE UartMailbox -----------------------------
(***************************************************************************)
(* The serial receive interrupt of wordclock/main.c and its one line of    *)
(* mailbox.  The remote control sends a '>', the command and CR LF; what   *)
(* arrives while the last line is still being worked on is dropped, one    *)
(* character at a time, and either line end completes a line.  Characters  *)
(* beyond the buffer complete it, too.                                     *)
(***************************************************************************)
EXTENDS Integers, Sequences, SequencesExt

CONSTANTS
  Letters,         \* what commands are made of
  MaxLine,         \* the longest line the sender types
  UART_MAXSTRLEN,  \* the room for a line, at least MaxLine + 2
  Pattern,         \* the letter of the command that shows a given pattern
  PatternLength    \* that letter and its arguments, all looked at

VARIABLES
  wire,                  \* characters of the line still to come
  uart_str_complete, uart_str_count, uart_string,
  sent                   \* history: the command on the wire, or not yet completed

vars == <<wire, uart_str_complete, uart_str_count, uart_string, sent>>

Commands == SeqOf(Letters, MaxLine) \ {<< >>}
Nothing == << >>
Nonsense == <<"nonsense">>

TypeOK ==
  /\ uart_str_complete \in {0, 1} /\ sent \in Commands \cup {Nothing}
  /\ uart_string \in [0 .. UART_MAXSTRLEN - 1 -> Letters \cup {">", "NUL"}]
  /\ uart_str_count \in 0 .. UART_MAXSTRLEN - 1

Init ==
  /\ wire = << >> /\ uart_str_complete = 0 /\ uart_str_count = 0 /\ sent = Nothing
  /\ uart_string = [i \in 0 .. UART_MAXSTRLEN - 1 |-> "NUL"]

\* A sender may also come in the middle of a line: its first characters are lost.
SendLine ==
  /\ wire = << >>
  /\ \E command \in Commands, from \in {1, 2} :
       LET line == <<">">> \o command \o <<"CR", "LF">>
       IN  /\ wire' = SubSeq(line, from, Len(line))
           /\ sent' = IF from = 1 THEN command ELSE Nothing
  /\ UNCHANGED <<uart_str_complete, uart_str_count, uart_string>>

\* Noise without a marker may be longer than the buffer.
SendNoise ==
  /\ wire = << >> /\ sent' = Nothing
  /\ \E letter \in Letters :
       wire' = [i \in 1 .. UART_MAXSTRLEN + 1 |-> letter] \o <<"CR", "LF">>
  /\ UNCHANGED <<uart_str_complete, uart_str_count, uart_string>>

Accepts_Always == TRUE

\* Nothing is stored while a line waits to be served.
Accepts == uart_str_complete = 0

Room_OneMore == uart_str_count < UART_MAXSTRLEN

Room_OneLess == uart_str_count < UART_MAXSTRLEN - 2

Room == uart_str_count < UART_MAXSTRLEN - 1

Terminated_Not == uart_string

Terminated == [uart_string EXCEPT ![uart_str_count] = "NUL"]

Store(c) ==
  /\ uart_string' = [uart_string EXCEPT ![uart_str_count] = c]
  /\ uart_str_count' = uart_str_count + 1
  /\ UNCHANGED uart_str_complete

Complete ==
  /\ uart_string' = Terminated
  /\ uart_str_count' = 0 /\ uart_str_complete' = 1

\* SIG_UART_RECV
Receive ==
  /\ wire # << >> /\ wire' = Tail(wire)
  /\ LET c == Head(wire)
     IN  /\ IF ~Accepts THEN UNCHANGED <<uart_str_complete, uart_str_count, uart_string>>
            ELSE IF c \notin {"CR", "LF"} /\ Room THEN Store(c) ELSE Complete
         /\ sent' = IF c \in {"CR", "LF"} THEN Nothing ELSE sent

\* The main loop has dealt with the line.
Serve ==
  /\ uart_str_complete = 1 /\ uart_str_complete' = 0
  /\ UNCHANGED <<wire, uart_str_count, uart_string, sent>>

Next == SendLine \/ SendNoise \/ Receive \/ Serve

Spec == Init /\ [][Next]_vars /\ WF_vars(Receive) /\ WF_vars(Serve)

-----------------------------------------------------------------------------
\* The line ends at its terminator.  Every command but one looks at no
\* character behind it, or gives up when an argument contains it.
Line ==
  LET nul == CHOOSE n \in 0 .. UART_MAXSTRLEN :
               /\ n = UART_MAXSTRLEN \/ uart_string[n] = "NUL"
               /\ \A i \in 0 .. n - 1 : uart_string[i] # "NUL"
  IN  [i \in 1 .. nul |-> uart_string[i - 1]]

\* The pattern's arguments are taken from fixed places: those of a line that
\* is too short from behind its end, where an earlier line has left them.
Obeyed ==
  IF Line = << >> \/ Line[1] # ">" \/ Len(Line) = 1 THEN Nonsense
  ELSE IF Line[2] = Pattern THEN [i \in 1 .. PatternLength |-> uart_string[i]]
  ELSE Tail(Line)

\* Anything may be found behind the end of a pattern's line.
Found ==
  [command \in Commands |->
     IF command[1] # Pattern THEN {command}
     ELSE {text \in [1 .. PatternLength -> Letters \cup {">", "NUL"}] :
             \A i \in 1 .. PatternLength :
               /\ i <= Len(command) => text[i] = command[i]
               /\ i = Len(command) + 1 => text[i] = "NUL"}]

(* Whatever is obeyed was sent as a whole: characters dropped in the middle
   of a line, CR and LF each ending one, and what is left of longer lines in
   the buffer never make up another command.  The pattern command alone, sent
   without all its arguments, shows what earlier lines left in their places. *)
Mail == INSTANCE LineMail WITH
  current <- sent, box <- IF uart_str_complete = 0 THEN Nothing ELSE Obeyed
ActsLikeMail == Mail!Spec

(* A sender that waits until its last line was served gets the next one in:
   sent from its marker on while the mailbox is free, a line is found whole. *)
FreeLineArrives ==
  \A command \in Commands :
    /\ uart_str_complete = 0 /\ uart_str_count = 0
    /\ sent = command /\ wire = <<">">> \o command \o <<"CR", "LF">>
    ~> uart_str_complete = 1 /\ Obeyed \in Found[command]
=============================================================================
