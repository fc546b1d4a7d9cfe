------------------------- MODULE RemoteServiceProofs -------------------------
(***************************************************************************)
(* The connection service with any number of threads: whoever finds it     *)
(* connected finds a connection, at most one is alive, commands arrive     *)
(* whole, and a connection lasts.                                          *)
(***************************************************************************)
EXTENDS RemoteService, FiniteSetTheorems, SequenceTheorems, TLAPS

Places == AcceptPlaces \cup ConnectPlaces \cup {"reading", "ended"}
Lines == {<< >>, <<">">>, <<">", "command">>, <<"command">>}

Types == TypeOK /\ line \in [Threads -> Lines]

HasThread == mState = "CONNECTED" => mConnectedThread # Null /\ at[mConnectedThread] = "reading"

\* Beside a connection that is alive nothing listens.
Alone == \A t \in Threads : Live(t) => mState \in {"CONNECTED", "LISTEN"} /\ mAcceptThread = Null

(* What the connection has got of a line fits what is still to be written:
   a part is missing only when it was written before the connection. *)
Fits ==
  mState = "CONNECTED" /\ sock[mConnectedThread] = "open" =>
    /\ unsent \in {<< >>, Message} => line[mConnectedThread] = << >>
    /\ unsent = <<"command", "CRLF">> => line[mConnectedThread] \in {<< >>, <<">">>}
    /\ unsent = <<"CRLF">> => line[mConnectedThread] # <<">">>

\* Before the activity is shown there are no threads.
Quiet == ui = "created" => (\A t \in Threads : at[t] = "ended") /\ {mAcceptThread, mConnectThread, mConnectedThread} = {Null}

Service == Types /\ HasThread /\ OneConnection /\ Alone /\ Fits
IInv == Service /\ Quiet

-----------------------------------------------------------------------------
LEMMA FreshIsFree == ASSUME Free # {} PROVE Fresh \in Free
  BY DEF Fresh

\* A thread that finds the state not CONNECTED or its own sockets closed leaves the invariant to start.
LEMMA StartKeeps ==
  ASSUME Service, NEW t \in Threads, Free # {}, start(t), unsent' = unsent, line' = line,
         ui' \in {"created", "alive", "destroyed"}
  PROVE  Service'
<1>1. Fresh \in Threads
  BY FreshIsFree DEF Free
<1>2. sock \in [Threads -> {"open", "closed", "broken"}] /\ at \in [Threads -> Places] /\ unsent \in Suffixes
  BY DEF Service, Types, TypeOK, Places
<1>3. mState' = "LISTEN" /\ mConnectedThread' = Null /\ mConnectThread' = Null
  BY DEF start
<1>4. CASE mAcceptThread = Null
  <2>1. PICK first \in {"test", "ended"} : at' = [[at EXCEPT ![t] = "ended"] EXCEPT ![Fresh] = first]
    BY <1>4 DEF start
  <2>2. sock' = [Closing({t, mConnectThread, mConnectedThread}) EXCEPT ![Fresh] = "open"] /\ mAcceptThread' = Fresh
    BY <1>4 DEF start
  <2>3. Types'
    BY <1>1, <1>2, <1>3, <2>1, <2>2 DEF Service, Types, TypeOK, States, Places, Closing, AcceptPlaces
  <2>4. OneConnection'
    BY <1>1, <1>2, <1>3, <1>4, <2>1, <2>2, ThreadAssumption
    DEF Service, OneConnection, Live, Closing, AcceptPlaces, Threads
  <2>5. Alone'
    BY <1>1, <1>2, <2>1, <2>2 DEF Service, OneConnection, Alone, Live, Closing
  <2> QED BY <1>3, <2>3, <2>4, <2>5 DEF Service, HasThread, Fits
<1>5. CASE mAcceptThread # Null
  <2>1. /\ at' = [at EXCEPT ![t] = "ended"] /\ mAcceptThread' = mAcceptThread
        /\ sock' = Closing({t, mConnectThread, mConnectedThread})
    BY <1>5 DEF start
  <2>2. Types'
    BY <1>2, <1>3, <2>1 DEF Service, Types, TypeOK, States, Places, Closing
  <2>3. OneConnection'
    BY <1>2, <1>3, <2>1 DEF Service, OneConnection, Live, Closing, AcceptPlaces
  <2>4. Alone'
    BY <1>2, <2>1 DEF Service, OneConnection, Alone, Live, Closing
  <2> QED BY <1>3, <2>2, <2>3, <2>4 DEF Service, HasThread, Fits
<1> QED BY <1>4, <1>5

LEMMA ConnectedKeeps ==
  ASSUME Service, NEW t \in Threads, NEW accepting \in Threads \cup {Null}, accepting # t,
         accepting # Null => at[accepting] \in AcceptPlaces,
         connected(t, accepting), unsent' = unsent, ui' = ui
  PROVE  Service'
<1>1. sock \in [Threads -> {"open", "closed", "broken"}] /\ at \in [Threads -> Places] /\ unsent \in Suffixes
      /\ line \in [Threads -> Lines] /\ ui \in {"created", "alive", "destroyed"}
  BY DEF Service, Types, TypeOK, Places
<1>2. /\ mState' = "CONNECTED" /\ mConnectThread' = Null /\ mConnectedThread' = t /\ mAcceptThread' = Null
      /\ at' = [u \in Threads |-> IF u = t THEN "reading" ELSE IF u = accepting THEN "test" ELSE at[u]]
      /\ sock' = [Closing(Replaced) EXCEPT ![t] = IF accepting = Null THEN sock[t] ELSE "open"]
      /\ line' = [line EXCEPT ![t] = << >>]
  BY DEF connected
<1>3. Types'
  BY <1>1, <1>2 DEF Types, TypeOK, States, Places, Closing, AcceptPlaces, Lines
<1>4. HasThread'
  BY <1>2, ThreadAssumption DEF HasThread, Threads
<1>5. OneConnection'
  BY <1>1, <1>2 DEF Service, OneConnection, Live, Closing, Replaced, AcceptPlaces
<1>6. Fits'
  BY <1>1, <1>2 DEF Fits
<1>7. Alone'
  BY <1>2 DEF Alone
<1> QED BY <1>3, <1>4, <1>5, <1>6, <1>7 DEF Service

-----------------------------------------------------------------------------
LEMMA Initial == Init => IInv
<1> SUFFICES ASSUME Init PROVE IInv
  OBVIOUS
<1>1. Types
  BY DEF Init, Types, TypeOK, States, Suffixes, Lines
<1>2. HasThread /\ OneConnection /\ Alone /\ Fits /\ Quiet
  BY DEF Init, HasThread, OneConnection, Alone, Live, AcceptPlaces, Fits, Quiet
<1> QED BY <1>1, <1>2 DEF IInv, Service

\* The user interface.
LEMMA ResumeKeeps == ASSUME IInv, Resume PROVE IInv'
<1>1. Free = Threads /\ 1 \in Threads
  BY ThreadAssumption DEF Resume, IInv, Quiet, Free, Threads
<1>2. Fresh \in Threads /\ Free # {}
  BY <1>1, FreshIsFree
<1>3. Service'
  BY <1>2, StartKeeps DEF Resume, IInv
<1> QED BY <1>3 DEF IInv, Quiet, Resume

LEMMA ConnectKeeps == ASSUME IInv, Connect PROVE IInv'
<1>1. Free # {}
  <2>1. Cardinality(Free) # 0
    BY DEF Connect
  <2> QED BY <2>1, FS_EmptySet
<1>2. Fresh \in Threads
  BY <1>1, FreshIsFree DEF Free
<1>3. sock \in [Threads -> {"open", "closed", "broken"}] /\ at \in [Threads -> Places]
  BY DEF IInv, Service, Types, TypeOK, Places
<1>4. Types'
  BY <1>2, <1>3 DEF IInv, Service, Types, TypeOK, States, Places, Closing, Connect, ConnectPlaces
<1>5. HasThread' /\ Fits' /\ Quiet'
  BY DEF Connect, HasThread, Fits, Quiet
<1>6. OneConnection' /\ Alone'
  BY <1>2, <1>3 DEF IInv, Service, OneConnection, Alone, Live, Connect, Closing, AcceptPlaces
<1> QED BY <1>4, <1>5, <1>6 DEF IInv, Service

LEMMA StopKeeps == ASSUME IInv, Stop PROVE IInv'
<1>1. Types'
  BY DEF IInv, Service, Types, TypeOK, States, Stop, Closing
<1>2. HasThread' /\ Fits' /\ Quiet'
  BY DEF Stop, HasThread, Fits, Quiet
<1>3. OneConnection' /\ Alone'
  BY DEF IInv, Service, Types, TypeOK, OneConnection, Alone, Live, Stop, Closing, Replaced, AcceptPlaces
<1> QED BY <1>1, <1>2, <1>3 DEF IInv, Service

LEMMA SendKeeps == ASSUME IInv, SendMessage PROVE IInv'
<1>1. /\ unsent = << >> /\ unsent' = Message /\ ui = "alive" /\ ui' = ui /\ mState' = mState /\ at' = at /\ sock' = sock
      /\ mAcceptThread' = mAcceptThread /\ mConnectThread' = mConnectThread /\ mConnectedThread' = mConnectedThread
      /\ line' = line
  BY DEF SendMessage, refs
<1>2. Types'
  BY <1>1 DEF IInv, Service, Types, TypeOK, Suffixes
<1>3. HasThread' /\ Quiet' /\ OneConnection' /\ Alone'
  BY <1>1 DEF IInv, Service, HasThread, Quiet, OneConnection, Alone, Live
<1>4. Message # <<"command", "CRLF">> /\ Message # <<"CRLF">>
  BY DEF Message
<1>5. Fits'
  BY <1>1, <1>4 DEF IInv, Service, Fits
<1> QED BY <1>2, <1>3, <1>5 DEF IInv, Service

\* Appending to one part.
LEMMA AppendPair == ASSUME NEW a, NEW b PROVE Append(<<a>>, b) = <<a, b>>
<1> DEFINE S == {a, b}
<1>1. <<a>> \in Seq(S) /\ b \in S /\ <<a, b>> \in Seq(S)
  OBVIOUS
<1>2. Len(<<a>>) = 1 /\ Len(<<a, b>>) = 2
  OBVIOUS
<1> HIDE DEF S
<1>3. Append(<<a>>, b) \in Seq(S) /\ Len(Append(<<a>>, b)) = 2
  BY <1>1, <1>2
<1>4. Append(<<a>>, b)[1] = a /\ Append(<<a>>, b)[2] = b
  BY <1>1, <1>2
<1>5. <<a, b>>[1] = a /\ <<a, b>>[2] = b
  OBVIOUS
<1>6. \A i \in 1 .. Len(Append(<<a>>, b)) : Append(<<a>>, b)[i] = <<a, b>>[i]
  BY <1>3, <1>4, <1>5
<1>7. Len(Append(<<a>>, b)) = Len(<<a, b>>)
  BY <1>2, <1>3
<1> QED BY <1>1, <1>3, <1>6, <1>7, SeqEqual, Zenon

\* What a written part makes of a line.
LEMMA PartFits ==
  ASSUME NEW got \in Lines, NEW now, unsent \in Suffixes, unsent # << >>,
         now = Extended(got, Head(unsent)),
         unsent = Message => got = << >>,
         unsent = <<"command", "CRLF">> => got \in {<< >>, <<">">>},
         unsent = <<"CRLF">> => got # <<">">>
  PROVE  /\ Tail(unsent) \in Suffixes /\ now \in Lines
         /\ Tail(unsent) \in {<< >>, Message} => now = << >>
         /\ Tail(unsent) = <<"command", "CRLF">> => now \in {<< >>, <<">">>}
         /\ Tail(unsent) = <<"CRLF">> => now # <<">">>
<1>1. CASE unsent = Message
  <2>1. Head(unsent) = ">" /\ Tail(unsent) = <<"command", "CRLF">> /\ got = << >>
    BY <1>1 DEF Message
  <2>2. now = <<">">>
    BY <2>1 DEF Extended
  <2> QED BY <2>1, <2>2 DEF Lines, Suffixes, Message
<1>2. CASE unsent = <<"command", "CRLF">>
  <2>1. Head(unsent) = "command" /\ Tail(unsent) = <<"CRLF">>
    BY <1>2
  <2>2. Append(<< >>, "command") = <<"command">> /\ Append(<<">">>, "command") = <<">", "command">>
    BY AppendPair
  <2>3. now = Append(got, "command")
    BY <2>1 DEF Extended
  <2>4. now = <<"command">> \/ now = <<">", "command">>
    BY <1>2, <2>2, <2>3
  <2>5. /\ <<"CRLF">> # << >> /\ <<"CRLF">> # Message /\ <<"CRLF">> # <<"command", "CRLF">>
        /\ <<">">> # <<"command">> /\ <<">">> # <<">", "command">>
    BY DEF Message
  <2>6. <<"CRLF">> \in Suffixes /\ <<"command">> \in Lines /\ <<">", "command">> \in Lines
    BY DEF Suffixes, Lines
  <2>7. now \in Lines /\ now # <<">">>
    BY <2>4, <2>5, <2>6, Zenon
  <2>8. Tail(unsent) \in Suffixes /\ Tail(unsent) \notin {<< >>, Message} /\ Tail(unsent) # <<"command", "CRLF">>
    BY <2>1, <2>5, <2>6, Zenon
  <2> QED BY <2>7, <2>8, Zenon
<1>3. CASE unsent = <<"CRLF">>
  <2>1. Head(unsent) = "CRLF" /\ Tail(unsent) = << >>
    BY <1>3
  <2>2. now = << >>
    BY <1>3, <2>1 DEF Extended
  <2> QED BY <2>1, <2>2 DEF Lines, Suffixes, Message
<1> QED BY <1>1, <1>2, <1>3 DEF Suffixes

LEMMA WriteKeeps == ASSUME IInv, Write PROVE IInv'
<1>1. /\ unsent # << >> /\ unsent' = Tail(unsent) /\ unsent \in Suffixes /\ line \in [Threads -> Lines]
      /\ mState' = mState /\ at' = at /\ sock' = sock /\ ui' = ui
      /\ mAcceptThread' = mAcceptThread /\ mConnectThread' = mConnectThread /\ mConnectedThread' = mConnectedThread
  BY DEF Write, IInv, Service, Types, TypeOK, refs
<1>2. OneConnection' /\ Alone' /\ HasThread' /\ Quiet'
  BY <1>1 DEF IInv, Service, HasThread, Quiet, OneConnection, Alone, Live
<1>3. Tail(unsent) \in Suffixes
  <2>1. CASE unsent = Message
    BY <2>1 DEF Suffixes, Message
  <2>2. CASE unsent = <<"command", "CRLF">>
    BY <2>2 DEF Suffixes
  <2>3. CASE unsent = <<"CRLF">>
    BY <2>3 DEF Suffixes
  <2> QED BY <1>1, <2>1, <2>2, <2>3 DEF Suffixes
<1>4. CASE mState = "CONNECTED" /\ sock[mConnectedThread] = "open"
  <2>1. mConnectedThread \in Threads
    BY <1>4 DEF IInv, Service, Types, TypeOK, HasThread
  <2> DEFINE got == line[mConnectedThread]
             now == Extended(got, Head(unsent))
  <2>2. /\ got \in Lines
        /\ unsent = Message => got = << >>
        /\ unsent = <<"command", "CRLF">> => got \in {<< >>, <<">">>}
        /\ unsent = <<"CRLF">> => got # <<">">>
    BY <1>1, <1>4, <2>1 DEF IInv, Service, Fits
  <2>3. line' = [line EXCEPT ![mConnectedThread] = now]
    BY <1>4 DEF Write, Writable
  <2>4. /\ now \in Lines
        /\ Tail(unsent) \in {<< >>, Message} => now = << >>
        /\ Tail(unsent) = <<"command", "CRLF">> => now \in {<< >>, <<">">>}
        /\ Tail(unsent) = <<"CRLF">> => now # <<">">>
    BY <1>1, <2>2, PartFits
  <2>5. line'[mConnectedThread] = now /\ line' \in [Threads -> Lines]
    BY <1>1, <2>1, <2>3, <2>4
  <2>6. Types'
    BY <1>1, <1>3, <2>5 DEF IInv, Service, Types, TypeOK
  <2>7. Fits'
    BY <1>1, <2>4, <2>5 DEF Fits
  <2> QED BY <1>2, <2>6, <2>7 DEF IInv, Service
<1>5. CASE ~(mState = "CONNECTED" /\ sock[mConnectedThread] = "open")
  <2>1. line' = line
    BY <1>5 DEF Write, Writable
  <2>2. Types' /\ Fits'
    BY <1>1, <1>3, <1>5, <2>1 DEF IInv, Service, Types, TypeOK, Fits
  <2> QED BY <1>2, <2>2 DEF IInv, Service
<1> QED BY <1>4, <1>5

-----------------------------------------------------------------------------
\* The threads; none runs before the activity is shown.
LEMMA ThreadKeeps ==
  ASSUME IInv, NEW t \in Threads, Thread(t) \/ PeerLeaves(t)
  PROVE  IInv'
<1>0. /\ sock \in [Threads -> {"open", "closed", "broken"}] /\ at \in [Threads -> Places] /\ unsent \in Suffixes
      /\ line \in [Threads -> Lines] /\ ui \in {"created", "alive", "destroyed"}
  BY DEF IInv, Service, Types, TypeOK, Places
<1>1. at[t] # "ended" /\ ui' = ui /\ unsent' = unsent
  BY DEF Thread, Test, Accept, Accepted, ConnectSucceeds, ConnectFails, Restart, Forget, Connected, Lost, PeerLeaves
<1>2. ui # "created" /\ Quiet'
  BY <1>1 DEF IInv, Quiet
<1> SUFFICES Service'
  BY <1>2 DEF IInv
<1>3. CASE Test(t)
  <2>1. Types' /\ HasThread'
    BY <1>0, <1>3 DEF Test, IInv, Service, Types, TypeOK, HasThread, Places, AcceptPlaces, refs
  <2>2. OneConnection' /\ Alone' /\ Fits'
    BY <1>0, <1>3 DEF Test, IInv, Service, OneConnection, Alone, Live, Fits, AcceptPlaces, refs
  <2> QED BY <2>1, <2>2 DEF Service
<1>4. CASE Accept(t)
  <2>1. Types' /\ HasThread'
    BY <1>0, <1>4 DEF Accept, IInv, Service, Types, TypeOK, HasThread, Places, AcceptPlaces, refs
  <2>2. OneConnection' /\ Alone' /\ Fits'
    BY <1>0, <1>4 DEF Accept, IInv, Service, OneConnection, Alone, Live, Fits, AcceptPlaces, refs
  <2> QED BY <2>1, <2>2 DEF Service
<1>5. CASE Accepted(t)
  <2>1. CASE mState \in {"LISTEN", "CONNECTING"}
    <3>1. Fresh \in Threads /\ Fresh # t /\ connected(Fresh, t)
      BY <1>1, <1>5, <2>1, FreshIsFree DEF Accepted, Free
    <3> QED BY <1>1, <1>5, <3>1, ConnectedKeeps DEF IInv, Accepted, AcceptPlaces
  <2>2. CASE mState \notin {"LISTEN", "CONNECTING"}
    <3>1. Types' /\ HasThread'
      BY <1>0, <1>1, <1>5, <2>2 DEF Accepted, IInv, Service, Types, TypeOK, HasThread, Places, AcceptPlaces, refs
    <3>2. OneConnection' /\ Alone' /\ Fits'
      BY <1>0, <1>1, <1>5, <2>2 DEF Accepted, IInv, Service, OneConnection, Alone, Live, Fits, AcceptPlaces, refs
    <3> QED BY <3>1, <3>2 DEF Service
  <2> QED BY <2>1, <2>2
<1>6. CASE ConnectSucceeds(t)
  <2>1. Types' /\ HasThread'
    BY <1>0, <1>6 DEF ConnectSucceeds, IInv, Service, Types, TypeOK, HasThread, Places, ConnectPlaces, refs
  <2>2. OneConnection' /\ Alone' /\ Fits'
    BY <1>0, <1>6 DEF ConnectSucceeds, IInv, Service, OneConnection, Alone, Live, Fits, AcceptPlaces, refs
  <2> QED BY <2>1, <2>2 DEF Service
<1>7. CASE ConnectFails(t)
  <2>1. Types' /\ HasThread'
    BY <1>0, <1>7 DEF ConnectFails, IInv, Service, Types, TypeOK, States, HasThread, Places, ConnectPlaces, refs
  <2>2. OneConnection' /\ Alone' /\ Fits'
    BY <1>0, <1>7 DEF ConnectFails, IInv, Service, OneConnection, Alone, Live, Fits, AcceptPlaces, refs
  <2> QED BY <2>1, <2>2 DEF Service
<1>8. CASE Restart(t)
  BY <1>0, <1>1, <1>8, StartKeeps DEF Restart, IInv
<1>9. CASE Forget(t)
  <2>1. Types' /\ HasThread'
    BY <1>0, <1>9 DEF Forget, IInv, Service, Types, TypeOK, HasThread, Places, ConnectPlaces
  <2>2. OneConnection' /\ Alone' /\ Fits'
    BY <1>0, <1>9 DEF Forget, IInv, Service, OneConnection, Alone, Live, Fits, AcceptPlaces
  <2> QED BY <2>1, <2>2 DEF Service
<1>10. CASE Connected(t)
  <2>1. Null # t
    BY ThreadAssumption
  <2> QED BY <1>1, <1>10, <2>1, ConnectedKeeps DEF Connected, IInv
<1>11. CASE Lost(t)
  <2>1. Types' /\ HasThread'
    BY <1>0, <1>11 DEF Lost, IInv, Service, Types, TypeOK, States, HasThread, Places, Lines, refs
  <2>2. OneConnection' /\ Alone' /\ Fits'
    BY <1>0, <1>11 DEF Lost, IInv, Service, OneConnection, Alone, Live, Fits, AcceptPlaces, refs
  <2> QED BY <2>1, <2>2 DEF Service
<1>12. CASE PeerLeaves(t)
  <2>1. Types' /\ HasThread'
    BY <1>0, <1>12 DEF PeerLeaves, IInv, Service, Types, TypeOK, HasThread, refs
  <2>2. OneConnection' /\ Alone' /\ Fits'
    BY <1>0, <1>12 DEF PeerLeaves, IInv, Service, Types, TypeOK, OneConnection, Alone, Live, Fits, HasThread, refs
  <2> QED BY <2>1, <2>2 DEF Service
<1> QED BY <1>3, <1>4, <1>5, <1>6, <1>7, <1>8, <1>9, <1>10, <1>11, <1>12 DEF Thread

LEMMA Kept == IInv /\ [Next]_vars => IInv'
<1> SUFFICES ASSUME IInv, [Next]_vars PROVE IInv'
  OBVIOUS
<1>1. CASE UNCHANGED vars
  BY <1>1 DEF IInv, Service, Types, TypeOK, HasThread, OneConnection, Alone, Live, Fits, Quiet, vars, refs
<1> QED
  BY <1>1, ResumeKeeps, ConnectKeeps, StopKeeps, SendKeeps, WriteKeeps, ThreadKeeps DEF Next

(* The service keeps its invariant, whatever the threads do and however many
   there are. *)
THEOREM Invariant == Spec => []IInv
  BY Initial, Kept, PTL DEF Spec

(* Whoever finds the service connected finds a thread to write through, and
   nothing listens beside a connection that is alive, although threads that
   were cancelled set the state behind its back. *)
THEOREM WriteFindsThread == Spec => []ConnectedHasThread
<1>1. IInv => ConnectedHasThread
  BY DEF IInv, Service, Types, HasThread, Alone, ConnectedHasThread
<1> QED BY <1>1, Invariant, PTL

(* At most one connection is alive, and at most one socket listens. *)
THEOREM OneAlive == Spec => []OneConnection
<1>1. IInv => OneConnection
  BY DEF IInv, Service
<1> QED BY <1>1, Invariant, PTL

(* No part of a message is taken for another message's. *)
THEOREM CommandsWhole == Spec => []WholeCommands
<1>1. IInv => WholeCommands
  BY DEF IInv, Service, Types, Lines, WholeCommands
<1> QED BY <1>1, Invariant, PTL

(* A known connection is closed by the user or an attempt only, and a late
   report, or a failing attempt, is all that overwrites its state. *)
THEOREM Lasts == Spec => KnownLasts
<1> DEFINE Kind(t) ==
             /\ sock'[t] = "closed" =>
                  Connect \/ Stop \/ \E u \in Threads : at[u] \in ConnectPlaces /\ Moves(u)
             /\ mState' # "CONNECTED" /\ sock'[t] = "open" =>
                  \E u \in Threads \ {t} : at[u] \in {"connecting", "reading"} /\ Moves(u)
<1>1. IInv /\ [Next]_vars =>
        [\A t \in Threads : Live(t) /\ mState = "CONNECTED" => Kind(t)]_vars
  <2> SUFFICES ASSUME IInv, Next, NEW t \in Threads, Live(t), mState = "CONNECTED"
               PROVE  Kind(t)
    OBVIOUS
  <2>0. sock \in [Threads -> {"open", "closed", "broken"}] /\ at \in [Threads -> Places]
        /\ t = mConnectedThread
    BY DEF IInv, Service, Types, TypeOK, Places, OneConnection
  <2>1. ~Resume
    BY DEF Resume, IInv, Quiet, Live
  <2>2. CASE Connect
    <3>1. Free # {}
      <4>1. Cardinality(Free) # 0
        BY <2>2 DEF Connect
      <4> QED BY <4>1, FS_EmptySet
    <3>2. Fresh # t
      BY <3>1, FreshIsFree DEF Free, Live
    <3>3. sock'[t] = "closed"
      BY <2>0, <2>2, <3>2 DEF Connect, Closing
    <3> QED BY <2>2, <3>3
  <2>3. CASE Stop
    BY <2>0, <2>3 DEF Stop, Closing, Replaced, Live
  <2>4. CASE SendMessage \/ Write
    BY <2>4 DEF SendMessage, Write, Live
  <2>5. ASSUME NEW u \in Threads, Thread(u) \/ PeerLeaves(u)
        PROVE  Kind(t)
    <3>1. CASE Restart(u) \/ Connected(u)
      <4>1. at[u] \in ConnectPlaces /\ u # t
        BY <3>1 DEF Restart, Connected, ConnectPlaces, Live
      <4>2. at'[u] \in {"ended", "reading"}
        BY <2>0, <3>1, <4>1, FreshIsFree DEF Restart, Connected, start, connected, Free, ConnectPlaces
      <4>3. Moves(u)
        BY <4>1, <4>2 DEF Moves, ConnectPlaces
      <4>4. sock'[t] # "open" \/ mState' = "CONNECTED"
        <5>1. CASE Restart(u)
          BY <2>0, <4>1, <5>1, FreshIsFree DEF Restart, start, Closing, Free, Live
        <5>2. CASE Connected(u)
          BY <5>2 DEF Connected, connected
        <5> QED BY <3>1, <5>1, <5>2
      <4> QED BY <4>1, <4>3, <4>4
    <3>2. CASE Accepted(u)
      BY <3>2 DEF Accepted, Live
    <3>3. CASE Test(u) \/ Accept(u) \/ ConnectSucceeds(u) \/ Forget(u)
      BY <3>3 DEF Test, Accept, ConnectSucceeds, Forget, Live
    <3>4. CASE ConnectFails(u)
      <4>1. u # t /\ at[u] = "connecting" /\ at'[u] = "failing" /\ sock' = sock
        BY <2>0, <3>4 DEF ConnectFails, Live
      <4>2. Moves(u)
        BY <4>1 DEF Moves
      <4> QED BY <4>1, <4>2 DEF Live
    <3>5. CASE Lost(u)
      <4>1. u # t /\ at[u] = "reading" /\ at'[u] = "ended" /\ sock'[t] = "open"
        BY <2>0, <3>5 DEF Lost, Live
      <4>2. Moves(u)
        BY <4>1 DEF Moves
      <4> QED BY <4>1, <4>2
    <3>6. CASE PeerLeaves(u)
      <4>1. sock'[t] \in {"open", "broken"} /\ mState' = mState
        BY <2>0, <3>6 DEF PeerLeaves, Live
      <4> QED BY <4>1
    <3> QED BY <2>5, <3>1, <3>2, <3>3, <3>4, <3>5, <3>6 DEF Thread
  <2> QED BY <2>1, <2>2, <2>3, <2>4, <2>5 DEF Next
<1> QED BY <1>1, Invariant, PTL DEF Spec, KnownLasts
=============================================================================
