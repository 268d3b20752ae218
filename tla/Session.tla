------------------------------ MODULE Session ------------------------------
(***************************************************************************)
(* One client and the server, over a connection that keeps messages whole  *)
(* and in order, for as long as the client is logged in as somebody: does  *)
(* it show its user who the server takes it for?  The server's account     *)
(* handlers answer as Accounts has them answer, its readcb consumes what   *)
(* has arrived and handles the first message of it.                        *)
(***************************************************************************)
EXTENDS Client

CONSTANTS
  Account,  \* the accounts there are: name -> [id, pass]
  MaxQueue  \* bound: messages on their way to the client when others chat

ASSUME AccountAssumption == \A n \in DOMAIN Account : Account[n].id \in Nat \ {0}
ASSUME MaxQueueAssumption == MaxQueue \in Nat

ERROR_NORMAL == -1
ERROR_USER_NOTEXISTS == -3

VARIABLES
  server,   \* the server process
  \* history
  granted,  \* the logins it has acknowledged: <<name, id>>
  handled   \* the chats it has handled, in their order

serverVars == <<server, granted, handled>>
vars == <<clientVars, serverVars>>

Ids == {Account[n].id : n \in DOMAIN Account}

TypeOK ==
  /\ conn \in {"connecting", "connected", "exited"}
  /\ prompting \in BOOLEAN /\ is_login \in BOOLEAN /\ overlapped \in BOOLEAN
  /\ userId \in Ids \cup {0}
  /\ inputs \in 0 .. MaxInput /\ waiting \in 0 .. MaxInput
  /\ \A i \in DOMAIN toServer : toServer[i].type = "TEXT" => toServer[i].room \in Room
  /\ server \in {"up", "down"}
  /\ granted \subseteq (DOMAIN Account) \X Ids

Init ==
  /\ ClientInit
  /\ server = "up"
  /\ granted = {}
  /\ handled = <<>>

-----------------------------------------------------------------------------
Granted(u) == u.username \in DOMAIN Account /\ Account[u.username].pass = u.pass
Refusal(u) == IF u.username \in DOMAIN Account THEN ERROR_NORMAL ELSE ERROR_USER_NOTEXISTS

(***************************************************************************)
(* handleLogin: login_user's answer, for the words of the message.  Any    *)
(* login may be answered -1, when Redis fails.                             *)
(***************************************************************************)
\* Mutant of handleLogin: a refused login is not answered.
handleLoginSilent(m) ==
  /\ m.type = "LOGIN"
  /\ LET u == msg2user(m.msg) IN
       IF Granted(u)
       THEN /\ granted' = granted \cup {<<u.username, Account[u.username].id>>}
            /\ toClient' = Append(toClient, LoginReply(Account[u.username].id))
       ELSE UNCHANGED <<granted, toClient>>
  /\ UNCHANGED handled

handleLogin(m) ==
  /\ m.type = "LOGIN"
  /\ LET u == msg2user(m.msg) IN
       \/ /\ Granted(u)
          /\ granted' = granted \cup {<<u.username, Account[u.username].id>>}
          /\ toClient' = Append(toClient, LoginReply(Account[u.username].id))
       \/ /\ UNCHANGED granted
          /\ \E rc \in {ERROR_NORMAL} \cup (IF Granted(u) THEN {} ELSE {Refusal(u)}) :
               toClient' = Append(toClient, LoginReply(rc))
  /\ UNCHANGED handled

\* handleChat writes nothing to the connection the message came from.
handleChat(m) ==
  /\ m.type = "TEXT"
  /\ handled' = Append(handled, m)
  /\ UNCHANGED <<granted, toClient>>

Consume == \E n \in 1 .. Len(toServer) : toServer' = SubSeq(toServer, n + 1, Len(toServer))

\* Mutant of handleMessage: an empty message is not dropped.
handleAnyMessage(m) == handleLogin(m) \/ handleChat(m)

handleMessage(m) ==
  \/ m.msg = Empty /\ UNCHANGED <<granted, handled, toClient>>
  \/ m.msg # Empty /\ (handleLogin(m) \/ handleChat(m))

\* What is written to a client that has gone is lost.
readcb ==
  /\ server = "up"
  /\ conn # "connecting"
  /\ toServer # <<>>
  /\ Consume
  /\ handleMessage(Head(toServer))
  /\ UNCHANGED <<conn, prompting, client, history, server>>

\* A message of another client is routed to this one; the descriptor may be
\* that of a user who was here before, so it need not be logged in.
OthersChat ==
  /\ server = "up"
  /\ conn = "connected"
  /\ Len(toClient) < MaxQueue
  /\ toClient' = Append(toClient, ChatReply)
  /\ UNCHANGED <<conn, prompting, client, toServer, history, serverVars>>

\* What it has not given to the kernel, and what has not been read, is lost.
ServerStops ==
  /\ server = "up"
  /\ server' = "down"
  /\ \E n \in 0 .. Len(toClient) : toClient' = SubSeq(toClient, 1, n)
  /\ toServer' = <<>>
  /\ UNCHANGED <<conn, prompting, client, history, granted, handled>>

ClientReads == read_cb /\ UNCHANGED serverVars
ClientConnects == server = "up" /\ event_cbConnected /\ UNCHANGED serverVars
ClientDisconnected == server = "down" /\ event_cbEnds /\ UNCHANGED serverVars
UserActs == (Input \/ signal_cb) /\ UNCHANGED serverVars

ClientLoop == ClientReads \/ ClientConnects \/ ClientDisconnected

Next == UserActs \/ ClientLoop \/ readcb \/ OthersChat \/ ServerStops

\* The two event loops dispatch what is ready.  The user types or not, and
\* the server goes on or stops, as they like.
Fairness == WF_vars(ClientLoop) /\ WF_vars(readcb)

Spec == Init /\ [][Next]_vars /\ Fairness

-----------------------------------------------------------------------------
(***************************************************************************)
(* Properties                                                              *)
(***************************************************************************)

\* The client considers itself logged in only under an id that the server has
\* acknowledged to it.
LoginAcknowledged == is_login => \E g \in granted : g[2] = userId

\* The name the client shows, and signs with, is the one that the server gave
\* the id for: when the user waited for one login to be answered before the
\* next, and the name is a word: one that is empty or has blanks shifts the
\* fields that msg2user reads.
NameIsOfUser ==
  is_login /\ ~ overlapped /\ IsWord(username) => <<username, userId>> \in granted

\* The chats that the server handles are lines that were typed, in the order in
\* which they were typed and each at most once, whichever of them are dropped on
\* the way; each for the room that its line begins with, and not for the one that
\* is left uninitialised by a line without a number; and with the whole text of
\* the line when that is a word: of a text with blanks only a part arrives.
HandledAsTyped ==
  /\ \A i \in DOMAIN handled :
       LET m == handled[i] IN
         /\ m.nr \in DOMAIN typed
         /\ m.room = typed[m.nr].room
         /\ IsWord(typed[m.nr].text) => m.msg = typed[m.nr].text
  /\ \A i, j \in DOMAIN handled : i < j => handled[i].nr < handled[j].nr

\* A login that is waited for, and that no other has overlapped, is under way as
\* long as both processes are up: it is the only message on its way to the
\* server, under the name that is stored, or its answer is on its way back.
LoginUnderWay ==
  waiting > 0 /\ ~ overlapped /\ server = "up" /\ conn # "exited" =>
    /\ ~ is_login
    /\ \/ toServer = <<Login(username, user_msg(username, pass))>>
       \/ toServer = <<>> /\ \E i \in DOMAIN toClient : toClient[i].type = "LOGIN"

\* A login is answered, as long as the user does not begin another one before
\* (which also keeps the client from reading the answer).
LoginAnswered ==
  (waiting > 0 /\ ~ overlapped) ~> (waiting = 0 \/ overlapped \/ prompting \/ conn = "exited")
=============================================================================
