---------------------------- MODULE RemoteService ----------------------------
(***************************************************************************)
(* WordClockRemoteService.java: the Bluetooth connection of the remote     *)
(* control.  The user interface and three kinds of threads share the       *)
(* connection state and a reference to the latest thread of each kind.     *)
(* One action is one critical section or one blocking call.  A connect     *)
(* thread that has succeeded ends when connected() has started the thread  *)
(* for its socket, which here goes on under its name.                      *)
(***************************************************************************)
EXTENDS Integers, FiniteSets, Sequences

CONSTANTS
  N,         \* bound on the threads alive or referenced at a time, at least 4
  Null

Threads == 1 .. N

ASSUME ThreadAssumption == N \in Nat \ (0 .. 3) /\ Null \notin Threads

VARIABLES
  mState, mAcceptThread, mConnectThread, mConnectedThread,
  at,        \* where each thread is
  sock,      \* its socket: "open", "closed" by cancel, or "broken" by the peer
  ui,        \* the activity: "created", "alive" or "destroyed"
  \* sendMessage
  unsent,    \* the parts of the message still to be written
  line       \* what the peer of each connection has got of the current line

refs == <<mAcceptThread, mConnectThread, mConnectedThread>>
vars == <<mState, refs, at, sock, ui, unsent, line>>

States == {"NONE", "LISTEN", "CONNECTING", "CONNECTED"}
AcceptPlaces == {"test", "accepting", "accepted"}
ConnectPlaces == {"connecting", "failing", "up", "forgot"}
Message == <<">", "command", "CRLF">>
Suffixes == {<<>>, <<"CRLF">>, <<"command", "CRLF">>, Message}

TypeOK ==
  /\ mState \in States
  /\ {mAcceptThread, mConnectThread, mConnectedThread} \subseteq Threads \cup {Null}
  /\ at \in [Threads -> AcceptPlaces \cup ConnectPlaces \cup {"reading", "ended"}]
  /\ sock \in [Threads -> {"open", "closed", "broken"}]
  /\ ui \in {"created", "alive", "destroyed"} /\ unsent \in Suffixes

Init ==
  /\ mState = "NONE" /\ mAcceptThread = Null /\ mConnectThread = Null /\ mConnectedThread = Null
  /\ at = [t \in Threads |-> "ended"] /\ sock = [t \in Threads |-> "closed"]
  /\ ui = "created" /\ unsent = << >> /\ line = [t \in Threads |-> << >>]

Free == {t \in Threads : at[t] = "ended" /\ t \notin {mAcceptThread, mConnectThread, mConnectedThread}}
Fresh == CHOOSE t \in Free : TRUE

\* cancel() closes the thread's socket; the thread finds out for itself.
Closing(threads) == [t \in Threads |-> IF t \in threads THEN "closed" ELSE sock[t]]

-----------------------------------------------------------------------------
(* The synchronised methods. *)

\* Called by thread t, which has closed its own socket and then ends.  An accept thread started while the
\* state still is CONNECTED may read it and end at once.
start(t) ==
  /\ mConnectThread' = Null /\ mConnectedThread' = Null /\ mState' = "LISTEN"
  /\ IF mAcceptThread = Null
     THEN /\ mAcceptThread' = Fresh
          /\ \E first \in {"test"} \cup (IF mState = "CONNECTED" THEN {"ended"} ELSE {}) :
               at' = [[at EXCEPT ![t] = "ended"] EXCEPT ![Fresh] = first]
          /\ sock' = [Closing({t, mConnectThread, mConnectedThread}) EXCEPT ![Fresh] = "open"]
     ELSE /\ at' = [at EXCEPT ![t] = "ended"] /\ UNCHANGED mAcceptThread
          /\ sock' = Closing({t, mConnectThread, mConnectedThread})

Replaced_Forgets == {mConnectThread, mAcceptThread}

\* The threads that a new connection cancels.
Replaced == {mConnectThread, mConnectedThread, mAcceptThread}

\* The new connection's thread is t; accepting, or Null, is the accept thread calling.
connected(t, accepting) ==
  /\ mConnectThread' = Null /\ mConnectedThread' = t /\ mAcceptThread' = Null
  /\ at' = [u \in Threads |-> IF u = t THEN "reading" ELSE IF u = accepting THEN "test" ELSE at[u]]
  /\ sock' = [Closing(Replaced) EXCEPT ![t] = IF accepting = Null THEN sock[t] ELSE "open"]
  /\ line' = [line EXCEPT ![t] = << >>]
  /\ mState' = "CONNECTED"

-----------------------------------------------------------------------------
(* The user interface, one thread.  It starts the service once, connects
   when the user has chosen a device, and stops the service in the end. *)
Resume ==
  /\ ui = "created" /\ ui' = "alive"
  /\ start(Fresh)
  /\ UNCHANGED <<unsent, line>>

Connect ==
  /\ ui = "alive" /\ unsent = << >> /\ Cardinality(Free) >= 3
  /\ mConnectThread' = Fresh /\ mConnectedThread' = Null /\ mState' = "CONNECTING"
  /\ at' = [at EXCEPT ![Fresh] = "connecting"]
  /\ sock' = [Closing({mConnectedThread} \cup (IF mState = "CONNECTING" THEN {mConnectThread} ELSE {}))
                EXCEPT ![Fresh] = "open"]
  /\ UNCHANGED <<mAcceptThread, ui, unsent, line>>

Stop ==
  /\ ui = "alive" /\ ui' = "destroyed" /\ unsent = << >>
  /\ mConnectThread' = Null /\ mConnectedThread' = Null /\ mAcceptThread' = Null
  /\ mState' = "NONE" /\ sock' = Closing(Replaced)
  /\ UNCHANGED <<at, unsent, line>>

SendMessage_Again ==
  /\ ui = "alive" /\ mState = "CONNECTED"
  /\ unsent' = Message
  /\ UNCHANGED <<mState, refs, at, sock, ui, line>>

\* sendMessage writes its three parts one by one.
SendMessage ==
  /\ ui = "alive" /\ unsent = << >> /\ mState = "CONNECTED"
  /\ unsent' = Message
  /\ UNCHANGED <<mState, refs, at, sock, ui, line>>

\* A line end completes a line, but for one that has lost its command.
Extended(got, part) ==
  IF part = "CRLF" /\ got # <<">">> THEN << >> ELSE Append(got, part)

\* Without a connection write() drops its argument.
Writable == mState = "CONNECTED"

Write ==
  /\ unsent # << >> /\ unsent' = Tail(unsent)
  /\ line' = IF Writable /\ sock[mConnectedThread] = "open"
             THEN [line EXCEPT ![mConnectedThread] = Extended(@, Head(unsent))]
             ELSE line
  /\ UNCHANGED <<mState, refs, at, sock, ui>>

-----------------------------------------------------------------------------
(* AcceptThread.run.  The state is read without the lock. *)
Test(t) ==
  /\ at[t] = "test"
  /\ at' = [at EXCEPT ![t] = IF mState = "CONNECTED" THEN "ended" ELSE "accepting"]
  /\ UNCHANGED <<mState, refs, sock, ui, unsent, line>>

\* accept() returns a connection, or fails: always when the socket has been closed.
Accept(t) ==
  /\ at[t] = "accepting"
  /\ \E result \in {"ended"} \cup (IF sock[t] = "open" THEN {"accepted"} ELSE {}) :
       at' = [at EXCEPT ![t] = result]
  /\ UNCHANGED <<mState, refs, sock, ui, unsent, line>>

Accepted_Always(t) ==
  /\ at[t] = "accepted" /\ Free # {} /\ connected(Fresh, t)
  /\ UNCHANGED <<ui, unsent>>

Accepted(t) ==
  /\ at[t] = "accepted"
  /\ IF mState \in {"LISTEN", "CONNECTING"}
     THEN Free # {} /\ connected(Fresh, t)
     ELSE at' = [at EXCEPT ![t] = "test"] /\ UNCHANGED <<mState, refs, sock, line>>
  /\ UNCHANGED <<ui, unsent>>

(* ConnectThread.run. *)
ConnectSucceeds(t) ==
  /\ at[t] = "connecting" /\ sock[t] = "open"
  /\ at' = [at EXCEPT ![t] = "up"]
  /\ UNCHANGED <<mState, refs, sock, ui, unsent, line>>

ConnectFails_Quits(t) ==
  /\ at[t] = "connecting"
  /\ at' = [at EXCEPT ![t] = "ended"]
  /\ UNCHANGED <<mState, refs, sock, ui, unsent, line>>

\* connectionFailed, whoever is connected by now.
ConnectFails(t) ==
  /\ at[t] = "connecting"
  /\ at' = [at EXCEPT ![t] = "failing"] /\ mState' = "LISTEN"
  /\ UNCHANGED <<refs, sock, ui, unsent, line>>

Restart(t) ==
  /\ at[t] = "failing" /\ Free # {}
  /\ start(t)
  /\ UNCHANGED <<ui, unsent, line>>

\* The thread forgets itself, or whichever attempt came after it.
Forget(t) ==
  /\ at[t] = "up"
  /\ at' = [at EXCEPT ![t] = "forgot"] /\ mConnectThread' = Null
  /\ UNCHANGED <<mState, mAcceptThread, mConnectedThread, sock, ui, unsent, line>>

Connected(t) ==
  /\ at[t] = "forgot"
  /\ connected(t, Null)
  /\ UNCHANGED <<ui, unsent>>

(* ConnectedThread.run ends with connectionLost, also when cancelled. *)
Lost_KeepsState(t) ==
  /\ at[t] = "reading" /\ sock[t] # "open"
  /\ at' = [at EXCEPT ![t] = "ended"]
  /\ sock' = [sock EXCEPT ![t] = "closed"] /\ line' = [line EXCEPT ![t] = << >>]
  /\ UNCHANGED <<mState, refs, ui, unsent>>

Lost(t) ==
  /\ at[t] = "reading" /\ sock[t] # "open"
  /\ at' = [at EXCEPT ![t] = "ended"] /\ mState' = "LISTEN"
  /\ sock' = [sock EXCEPT ![t] = "closed"] /\ line' = [line EXCEPT ![t] = << >>]
  /\ UNCHANGED <<refs, ui, unsent>>

PeerLeaves(t) ==
  /\ at[t] = "reading" /\ sock[t] = "open"
  /\ sock' = [sock EXCEPT ![t] = "broken"]
  /\ UNCHANGED <<mState, refs, at, ui, unsent, line>>

Thread(t) ==
  \/ Test(t) \/ Accept(t) \/ Accepted(t)
  \/ ConnectSucceeds(t) \/ ConnectFails(t) \/ Restart(t) \/ Forget(t) \/ Connected(t)
  \/ Lost(t)

Next ==
  \/ Resume \/ Connect \/ Stop \/ SendMessage \/ Write
  \/ \E t \in Threads : Thread(t) \/ PeerLeaves(t)

\* The threads run: connect() returns in the end, one way or the other; a
\* cancelled accept() and read() fail.
Spec ==
  /\ Init /\ [][Next]_vars
  /\ \A t \in Threads :
       WF_vars(ConnectSucceeds(t) \/ ConnectFails(t) \/ Restart(t) \/ Forget(t) \/ Connected(t))

-----------------------------------------------------------------------------
Live(t) == at[t] = "reading" /\ sock[t] = "open"

(* Whoever finds the service connected finds the thread of a connection that
   has not reported its end: write() has somewhere to write to, although
   threads that were cancelled set the state behind its back.  And however
   they overwrite it, a connection that is alive is never taken for an attempt
   or for a stopped service, and nothing listens beside it. *)
ConnectedHasThread ==
  /\ TypeOK
  /\ mState = "CONNECTED" => mConnectedThread # Null /\ at[mConnectedThread] = "reading"
  /\ \A t \in Threads : Live(t) => mState \in {"CONNECTED", "LISTEN"} /\ mAcceptThread = Null

(* At most one connection is alive and at most one socket listens, both those
   the service knows, whatever attempts overlap; all others were cancelled. *)
OneConnection ==
  \A t \in Threads :
    /\ Live(t) => t = mConnectedThread
    /\ at[t] \in AcceptPlaces /\ sock[t] = "open" => t = mAcceptThread

(* The clock never gets a marker and a line end without the command between
   them, nor two markers in a line: a message that is cut stays cut. *)
WholeCommands ==
  \A t \in Threads : line[t] \in {<< >>, <<">">>, <<">", "command">>, <<"command">>}

Moves(t) == at'[t] # at[t]

(* A connection that is known as connected is closed by the user or by an
   attempt to connect that was under way: never by the accept thread nor by
   the late report of an earlier connection's end.  Such a report, or a failing
   attempt, only overwrites the state, and nothing else does while it lives. *)
KnownLasts ==
  [][ \A t \in Threads : Live(t) /\ mState = "CONNECTED" =>
        /\ sock'[t] = "closed" =>
             Connect \/ Stop \/ \E u \in Threads : at[u] \in ConnectPlaces /\ Moves(u)
        /\ mState' # "CONNECTED" /\ sock'[t] = "open" =>
             \E u \in Threads \ {t} : at[u] \in {"connecting", "reading"} /\ Moves(u) ]_vars

(* An attempt to connect comes to an end, also when it is replaced. *)
AttemptsEnd == mState = "CONNECTING" ~> mState # "CONNECTING"

(* "STATE_LISTEN = 1; // now listening for incoming connections": when every
   thread has ended and the service says LISTEN, it has at least made a socket
   to listen on that it has not closed since. *)
ListensInListen ==
  mState = "LISTEN" /\ ui = "alive" /\ (\A t \in Threads : at[t] = "ended") => mAcceptThread # Null
=============================================================================
