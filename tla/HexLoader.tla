------------------------------ MODULE HexLoader ------------------------------
(***************************************************************************)
(* The serial boot loader of the word clock (wordclock-bootloader/main.c): *)
(* it reads a file of Intel HEX lines and programs the flash page by page. *)
(* A step hears one field: two hexadecimal digits, or four for an address. *)
(* One byte of a file may arrive changed (but not a length, which would    *)
(* shift all that follows), and the loader may be restarted at any time.   *)
(***************************************************************************)
EXTENDS Integers, Sequences

CONSTANTS
  PageSize,   \* SPM_PAGESIZE
  LastPage,   \* the addresses are those of the pages 0 .. LastPage
  Files,      \* sequences of records [type, addr, data]; the last one ends the file
  Garbled     \* what a changed byte becomes

VARIABLES
  file, line, place,             \* the sender: its file, and the next field
  wrong,                         \* the line of the changed field, or 0
  mode,                          \* "menu", "parser" (boot_state), or "started": the application runs
  parser_state, hex_size, hex_check, hex_type, hex_data_cnt,
  flash_data, flash_page, flash_page_flag,
  flash, before                  \* the pages, now and when the loader began

parser == <<parser_state, hex_size, hex_check, hex_type, hex_data_cnt>>
buffer == <<flash_data, flash_page, flash_page_flag>>
vars == <<file, line, place, wrong, mode, parser, buffer, flash, before>>

Pages == 0 .. LastPage
Erased == [i \in 1 .. PageSize |-> 255]
PageOf(addr) == addr - (addr % PageSize)

LowPlusHigh(addr) == (addr % 256) + (addr \div 256)
Sums(bytes) == LET S[i \in 0 .. Len(bytes)] == IF i = 0 THEN 0 ELSE S[i - 1] + bytes[i] IN S
Checksum(r) == (-(Len(r.data) + LowPlusHigh(r.addr) + r.type + Sums(r.data)[Len(r.data)])) % 256

Fields(r) == <<":", Len(r.data), r.addr, r.type>> \o r.data \o <<Checksum(r)>>

Init ==
  /\ file = << >> /\ line = 1 /\ place = 1 /\ wrong = 0 /\ mode = "menu"
  /\ parser_state = "START" /\ hex_size = 0 /\ hex_check = 0 /\ hex_type = 0 /\ hex_data_cnt = 0
  /\ flash_data = << >> /\ flash_page = 0 /\ flash_page_flag = 1
  /\ flash = [p \in Pages |-> Erased] /\ before = flash

\* What is left of the page is filled with FF.
Padded(data) == [i \in 1 .. PageSize |-> IF i <= Len(data) THEN data[i] ELSE 255]

program_page(page, data) == flash' = [flash EXCEPT ![page \div PageSize] = Padded(data)]

-----------------------------------------------------------------------------
(* In its first two seconds the loader takes one character. *)
Enter ==
  /\ mode = "menu" /\ mode' = "parser"
  /\ file' \in Files
  /\ UNCHANGED <<line, place, wrong, parser, buffer, flash, before>>

Leave ==
  /\ mode = "menu" /\ mode' = "started"
  /\ UNCHANGED <<file, line, place, wrong, parser, buffer, flash, before>>

\* One byte is another one; of an address either, within the pages.
Changed(c) ==
  (IF place # 3 THEN Garbled
   ELSE {a \in UNION {{256 * (c \div 256) + b, 256 * b + (c % 256)} : b \in Garbled} :
           a < PageSize * (LastPage + 1)})
  \ {c}

\* The sender's next field, as the loader gets it.
Hear(c) ==
  /\ mode = "parser" /\ line <= Len(file)
  /\ LET fields == Fields(file[line])
     IN  /\ \/ c = fields[place] /\ wrong' = wrong
            \/ wrong = 0 /\ place > 2 /\ c \in Changed(fields[place]) /\ wrong' = line
         /\ IF place < Len(fields) THEN place' = place + 1 /\ line' = line
            ELSE place' = 1 /\ line' = line + 1
  /\ UNCHANGED <<file, before>>

ParseStart(c) ==
  /\ parser_state = "START"
  /\ IF c = ":" THEN parser_state' = "SIZE" /\ hex_check' = 0 ELSE UNCHANGED <<parser_state, hex_check>>
  /\ UNCHANGED <<mode, hex_size, hex_type, hex_data_cnt, buffer, flash>>

ParseSize(c) ==
  /\ parser_state = "SIZE" /\ parser_state' = "ADDRESS"
  /\ hex_size' = c /\ hex_check' = hex_check + c
  /\ UNCHANGED <<mode, hex_type, hex_data_cnt, buffer, flash>>

PageFlag_Ignored == TRUE

\* A page has not yet got its address.
PageFlag == flash_page_flag = 1

ParseAddress(c) ==
  /\ parser_state = "ADDRESS" /\ parser_state' = "TYPE"
  /\ hex_check' = hex_check + LowPlusHigh(c)
  /\ IF PageFlag THEN flash_page' = PageOf(c) /\ flash_page_flag' = 0
     ELSE UNCHANGED <<flash_page, flash_page_flag>>
  /\ UNCHANGED <<mode, hex_size, hex_type, hex_data_cnt, flash_data, flash>>

ParseType(c) ==
  /\ parser_state = "TYPE" /\ parser_state' = IF c = 1 THEN "CHECKSUM" ELSE "DATA"
  /\ hex_type' = c /\ hex_check' = hex_check + c /\ hex_data_cnt' = 0
  /\ UNCHANGED <<mode, hex_size, buffer, flash>>

\* A full page is programmed at once, whatever the line's checksum will be.
ParseData(c) ==
  /\ parser_state = "DATA"
  /\ LET full == Len(flash_data) + 1 = PageSize
         done == (hex_data_cnt + 1) % 256 = hex_size
     IN  /\ flash_data' = IF full THEN << >> ELSE Append(flash_data, c)
         /\ IF full THEN program_page(flash_page, Append(flash_data, c)) /\ flash_page_flag' = 1
            ELSE UNCHANGED <<flash, flash_page_flag>>
         /\ parser_state' = IF done THEN "CHECKSUM" ELSE parser_state
         /\ hex_data_cnt' = IF done THEN 0 ELSE (hex_data_cnt + 1) % 256
  /\ hex_check' = hex_check + c
  /\ UNCHANGED <<mode, hex_size, hex_type, flash_page>>

SumsUp(c) == (hex_check + c) % 256 = 0

NextState(c) == IF SumsUp(c) THEN "START" ELSE "ERROR"

\* The end record writes what is left and starts the application, whatever its checksum.
ParseChecksum(c) ==
  /\ parser_state = "CHECKSUM" /\ parser_state' = NextState(c)
  /\ hex_check' = (hex_check + c) % 256
  /\ IF hex_type = 1 THEN program_page(flash_page, flash_data) /\ mode' = "started"
     ELSE UNCHANGED <<flash, mode>>
  /\ UNCHANGED <<hex_size, hex_type, hex_data_cnt, buffer>>

\* Whatever else comes is answered by '#'.
ParseError(c) ==
  /\ parser_state = "ERROR"
  /\ UNCHANGED <<mode, parser, buffer, flash>>

Parse(c) ==
  \/ ParseStart(c) \/ ParseSize(c) \/ ParseAddress(c) \/ ParseType(c)
  \/ ParseData(c) \/ ParseChecksum(c) \/ ParseError(c)

Heard ==
  IF mode = "parser" /\ line <= Len(file)
  THEN LET c == Fields(file[line])[place] IN {c} \cup (IF place > 2 THEN Changed(c) ELSE {})
  ELSE {}

Receive == \E c \in Heard : Hear(c) /\ Parse(c)

\* The user resets the clock.
Restart ==
  /\ mode # "menu" /\ mode' = "menu"
  /\ file' = << >> /\ line' = 1 /\ place' = 1 /\ wrong' = 0
  /\ parser_state' = "START" /\ hex_size' = 0 /\ hex_check' = 0 /\ hex_type' = 0 /\ hex_data_cnt' = 0
  /\ flash_data' = << >> /\ flash_page' = 0 /\ flash_page_flag' = 1
  /\ before' = flash /\ UNCHANGED flash

Next == Enter \/ Leave \/ Receive \/ Restart

Spec == Init /\ [][Next]_vars

-----------------------------------------------------------------------------
Records == {file[l] : l \in 1 .. Len(file)}
Data == {r \in Records : r.type = 0}
Holds(r, addr) == addr \in r.addr .. r.addr + Len(r.data) - 1

(* A file as the tool chain makes it: data lines no longer than a page, one
   after the other from the beginning of a page, and the end record, whose
   address is 0. *)
Plain ==
  /\ Len(file) > 1 /\ \A l \in 1 .. Len(file) - 1 : file[l].type = 0 /\ Len(file[l].data) <= PageSize
  /\ file[1].addr % PageSize = 0
  /\ \A l \in 2 .. Len(file) - 1 : file[l].addr = file[l - 1].addr + Len(file[l - 1].data)

End == LET last == file[Len(file) - 1] IN last.addr + Len(last.data)

Image(p) ==
  [i \in 1 .. PageSize |->
     LET addr == p * PageSize + i - 1
     IN  IF \E r \in Data : Holds(r, addr)
         THEN LET r == CHOOSE r \in Data : Holds(r, addr) IN r.data[addr - r.addr + 1]
         ELSE 255]

InFile(p) == \E r \in Data, addr \in p * PageSize .. p * PageSize + PageSize - 1 : Holds(r, addr)

Wanted == [p \in Pages |-> IF InFile(p) THEN Image(p) ELSE before[p]]

Loaded == mode = "started" /\ file # << >>

(* The page the end record writes has its address from a data line that began
   in it; when there is none, the rest -- or nothing -- goes to page 0. *)
TailLost == file[Len(file) - 1].addr < PageOf(End)
Tail0 == IF End % PageSize = 0 THEN Erased ELSE Image(End \div PageSize)
Got ==
  IF ~TailLost THEN Wanted
  ELSE [p \in Pages |-> IF p = 0 THEN Tail0
                        ELSE IF p = End \div PageSize THEN before[p] ELSE Wanted[p]]

(* A plain file that arrives unchanged is in the flash when the application is
   started, and no page outside it is touched, but for the tail that is lost
   when no line begins in its page.  After a changed line no application is
   started, unless that line is or became the end record. *)
LoadsOrStops ==
  Loaded => /\ Plain /\ wrong = 0 => flash = Got
            /\ wrong # 0 => wrong = line - 1 \/ (wrong = line /\ hex_type = 1)

(* "Dateiende -> schreibe Restdaten": the end of the file writes what is left,
   and after it the file is in the flash. *)
EndWritesTheRest == Loaded /\ Plain /\ wrong = 0 => flash = Wanted
=============================================================================
