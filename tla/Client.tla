------------------------------- MODULE Client -------------------------------
(***************************************************************************)
(* The terminal client, client/client.c: the callbacks of its event loop,  *)
(* and what they do to `client` and to the messages between it and the     *)
(* server.  Names and lines are shorter than the buffers they are read to. *)
(***************************************************************************)
EXTENDS UserText

CONSTANTS
  Char,     \* the characters that are typed
  Typed,    \* what is typed as a name or a password
  Line,     \* what is typed to chat: a room, or None when no number comes first, and a text
  Room,     \* rooms
  MaxInput, \* bound: inputs in a behaviour
  None

ASSUME TypedAssumption == Typed \subseteq Seq(Char) /\ Now \notin Char
ASSUME MaxInputAssumption == MaxInput \in Nat
ASSUME NoneAssumption == None \notin Room
ASSUME LineAssumption == \A line \in Line : line.text \in Seq(Char)

VARIABLES
  conn,       \* the bufferevent, and the process
  prompting,  \* stdin_cb waits for a name and a password to be typed
  username, pass, userId, is_login,  \* the fields of client
  toServer,   \* messages on their way to the server
  toClient,   \* and back
  \* history
  inputs,     \* number of inputs
  waiting,    \* logins sent and not answered
  overlapped, \* a login has been sent before the last one was answered
  typed       \* the lines that were typed to chat

client == <<username, pass, userId, is_login>>
history == <<inputs, waiting, overlapped, typed>>
clientVars == <<conn, prompting, client, toServer, toClient, history>>

Empty == <<>>
Login(name, msg) == [type |-> "LOGIN", sender |-> name, msg |-> msg, room |-> None]
\* The message of line number nr; the number is history.
Chat(name, msg, g, nr) ==
  [type |-> "TEXT", sender |-> name, msg |-> msg, room |-> g, nr |-> nr]
LoginReply(rc) == [type |-> "LOGIN", rc |-> rc]
ChatReply == [type |-> "TEXT", rc |-> 0]

ClientInit ==
  /\ conn = "connecting"
  /\ prompting = FALSE
  /\ username = Empty /\ pass = Empty /\ userId = 0 /\ is_login = FALSE
  /\ toServer = <<>>
  /\ toClient = <<>>
  /\ inputs = 0 /\ waiting = 0 /\ overlapped = FALSE /\ typed = <<>>

Ready == conn # "exited" /\ ~ prompting

-----------------------------------------------------------------------------
(***************************************************************************)
(* stdin_cb.  Not logged in, input 1 asks for a name and a password, and   *)
(* the loop is blocked until they are typed; other input changes nothing.  *)
(* The line that is to cut the newline off the password puts the end of    *)
(* the name at the length of the password.                                 *)
(***************************************************************************)
stdin_cbPrompts ==
  /\ Ready
  /\ ~ is_login
  /\ inputs < MaxInput
  /\ prompting' = TRUE
  /\ inputs' = inputs + 1
  /\ UNCHANGED <<conn, client, toServer, toClient, waiting, overlapped, typed>>

CutAt(name, word) == SubSeq(name, 1, IF Len(word) < Len(name) THEN Len(word) ELSE Len(name))

\* Mutant of SendLogin: the name is stored before it is cut.
SendLoginStoredUncut(name, word) ==
  /\ toServer' = Append(toServer, Login(CutAt(name, word), user_msg(CutAt(name, word), word)))
  /\ username' = name
  /\ pass' = word
  /\ waiting' = waiting + 1
  /\ overlapped' = (overlapped \/ waiting > 0)
  /\ UNCHANGED <<conn, userId, is_login, toClient>>

SendLogin(name, word) ==
  /\ toServer' = Append(toServer, Login(CutAt(name, word), user_msg(CutAt(name, word), word)))
  /\ username' = CutAt(name, word)
  /\ pass' = word
  /\ waiting' = waiting + 1
  /\ overlapped' = (overlapped \/ waiting > 0)
  /\ UNCHANGED <<conn, userId, is_login, toClient>>

\* The process ends; what the kernel has not been given is lost.
Exit ==
  /\ conn' = "exited"
  /\ prompting' = FALSE
  /\ \E n \in 0 .. Len(toServer) : toServer' = SubSeq(toServer, 1, n)
  /\ toClient' = <<>>
  /\ UNCHANGED <<client, history>>

\* The buffer of getpass is freed and used again by the next getpass: from
\* the second time on the process may abort.
stdin_cbLogin(name, word) ==
  /\ prompting
  /\ \/ SendLogin(name, word) /\ prompting' = FALSE /\ UNCHANGED <<inputs, typed>>
     \/ inputs > 1 /\ Exit

(***************************************************************************)
(* Logged in, a line is read with "%d:%s": a number, a colon, a word; what *)
(* follows the word is not sent.  A line without a number leaves the room  *)
(* uninitialised, and the word is empty; the message is sent all the same. *)
(***************************************************************************)
stdin_cbChat(line, g) ==
  /\ Ready
  /\ is_login
  /\ inputs < MaxInput
  /\ line.room # None => g = line.room
  /\ LET msg == IF line.room = None THEN Empty ELSE FirstWord(line.text) IN
       toServer' = Append(toServer, Chat(username, msg, g, Len(typed) + 1))
  /\ typed' = Append(typed, line)
  /\ inputs' = inputs + 1
  /\ UNCHANGED <<conn, prompting, client, toClient, waiting, overlapped>>

-----------------------------------------------------------------------------
\* Mutant of read_cb: any answer is taken for an id.
read_cbAnyAnswer ==
  /\ Ready
  /\ toClient # <<>>
  /\ toClient' = Tail(toClient)
  /\ IF Head(toClient).type = "LOGIN"
     THEN /\ userId' = Head(toClient).rc /\ is_login' = TRUE
          /\ waiting' = waiting - 1
          /\ UNCHANGED <<username, pass>>
     ELSE UNCHANGED <<client, waiting>>
  /\ UNCHANGED <<conn, prompting, toServer, inputs, overlapped, typed>>

\* read_cb.  A refused login clears the name, and does not log out.
read_cb ==
  /\ Ready
  /\ toClient # <<>>
  /\ toClient' = Tail(toClient)
  /\ LET m == Head(toClient) IN
       \/ /\ m.type = "LOGIN" /\ m.rc > 0
          /\ userId' = m.rc
          /\ is_login' = TRUE
          /\ waiting' = waiting - 1
          /\ UNCHANGED <<username, pass>>
       \/ /\ m.type = "LOGIN" /\ m.rc <= 0
          /\ username' = Empty
          /\ pass' = Empty
          /\ waiting' = waiting - 1
          /\ UNCHANGED <<userId, is_login>>
       \/ m.type # "LOGIN" /\ UNCHANGED <<client, waiting>>
  /\ UNCHANGED <<conn, prompting, toServer, inputs, overlapped, typed>>

\* event_cb: connected; or, whatever the event, the loop is left.
event_cbConnected ==
  /\ Ready
  /\ conn = "connecting"
  /\ conn' = "connected"
  /\ UNCHANGED <<prompting, client, toServer, toClient, history>>

event_cbEnds == Ready /\ Exit

\* SIGINT: signal_cb, and the end of main.
signal_cb == Ready /\ Exit

Input ==
  \/ stdin_cbPrompts
  \/ \E name, word \in Typed : stdin_cbLogin(name, word)
  \/ \E line \in Line, g \in Room : stdin_cbChat(line, g)
=============================================================================
