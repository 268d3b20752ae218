----------------------------- MODULE ChatServer -----------------------------
(***************************************************************************)
(* The server of server/server.c: one libevent loop that runs a callback   *)
(* at a time (accept, readable, closed), its table of clients keyed by     *)
(* descriptor, the part of the Redis database that routes messages, and    *)
(* the byte streams of its connections.                                    *)
(*                                                                         *)
(* A callback is one action: nothing else of the process runs in between,  *)
(* and what it writes leaves the process only after it has returned.  The  *)
(* Redis commands inside login and registration are steps of Accounts.tla; *)
(* here they have the outcomes that module shows they have.                *)
(*                                                                         *)
(* Key and Value of the table are descriptors and connections; a           *)
(* connection stands for its bufferevent and is used once.  Descriptors    *)
(* need not be below the capacity of the table, nor fewer than it.         *)
(***************************************************************************)
EXTENDS LinearProbing, FiniteSets, Sequences

CONSTANTS
  User,       \* accounts, by id
  Room,       \* chatroom ids
  members,    \* SET chatroom:<id>; nothing in the server changes it
  Types,      \* the types of message clients send
  MaxSend,    \* bound: messages sent in a behaviour
  RedisFaults \* may Redis answer REDIS_REPLY_ERROR?

Fd == Key
Conn == Value
Offline == -1
AllTypes == {"REGISTER", "LOGIN", "LOGOUT", "TEXT", "OTHER"}

ASSUME FdAssumption == Fd \subseteq Nat \ {0}
ASSUME NoFdAssumption == Null \notin Int
ASSUME UserAssumption == IsFiniteSet(User)
ASSUME MembersAssumption == members \in [Room -> SUBSET User]
ASSUME TypesAssumption == Types \subseteq AllTypes
ASSUME BoundAssumption == MaxSend \in Nat
ASSUME RedisFaultsAssumption == RedisFaults \in BOOLEAN

VARIABLES
  proc,        \* the server process: "up", "hung" in a loop, or "down"
  status,      \* of each connection: "new", "open", "closing", "closed"
  fdOf,        \* the descriptor the server holds for a connection
  clients,     \* HashMap *clients
  registered,  \* Redis: the users that have an account
  sockfd,      \* Redis: field sockfd of user:<id>, Null when it has none
  saved,       \* Redis: messages chatroom:<id>:1, chatroom:<id>:2, ...
  toServer,    \* what a client has sent and readcb has not consumed
  written,     \* history: what the server has written to a connection
  session,     \* history: where a user is logged in, until LOGOUT
  sent         \* the number of messages sent

redis == <<registered, sockfd, saved>>
vars == <<proc, status, fdOf, clients, registered, sockfd, saved, toServer,
          written, session, sent>>

(***************************************************************************)
(* IMAGE is handled like TEXT and stands under that name.  OTHER is every  *)
(* message that handleAllMessage ignores or readcb drops as empty.         *)
(***************************************************************************)
Account == [type : {"REGISTER", "LOGIN", "LOGOUT"}, user : User]
Text == [type : {"TEXT"}, room : Room, id : 1 .. MaxSend, from : Conn]
Other == [type : {"OTHER"}]
Message == {m \in Account \cup Text \cup Other : m.type \in Types}
Reply == [type : {"REGISTER", "LOGIN", "LOGOUT"}, user : User, ok : BOOLEAN]

TypeOK ==
  /\ proc \in {"up", "hung", "down"}
  /\ status \in [Conn -> {"new", "open", "closing", "closed"}]
  /\ fdOf \in [Conn -> Fd \cup {Null}]
  /\ clients \in Table
  /\ registered \in SUBSET User
  /\ sockfd \in [User -> Fd \cup {Offline, Null}]
  /\ saved \in [Room -> Seq(Text)]
  /\ toServer \in [Conn -> Seq(Message)]
  /\ written \in [Conn -> Seq(Text \cup Reply)]
  /\ session \in [User -> Conn \cup {Null}]
  /\ sent \in 0 .. MaxSend

Held(c) == status[c] \in {"open", "closing"}

(***************************************************************************)
(* The server starts on whatever database earlier runs of it have left.    *)
(***************************************************************************)
Init ==
  /\ proc = "up"
  /\ status = [c \in Conn |-> "new"]
  /\ fdOf = [c \in Conn |-> Null]
  /\ clients = EmptyTable
  /\ registered \in SUBSET User
  /\ sockfd \in [User -> Fd \cup {Offline, Null}]
  /\ \A u \in User \ registered : sockfd[u] = Null
  /\ saved = [g \in Room |-> <<>>]
  /\ toServer = [c \in Conn |-> <<>>]
  /\ written = [c \in Conn |-> <<>>]
  /\ session = [u \in User |-> Null]
  /\ sent = 0

-----------------------------------------------------------------------------
(***************************************************************************)
(* The process ends: SIGINT, a failed accept, a NULL pointer.  The kernel  *)
(* closes its descriptors; Redis keeps what it has.                        *)
(***************************************************************************)
Die ==
  /\ proc' = "down"
  /\ status' = [c \in Conn |-> IF status[c] = "new" THEN "new" ELSE "closed"]
  /\ fdOf' = [c \in Conn |-> Null]
  /\ clients' = EmptyTable
  /\ toServer' = [c \in Conn |-> <<>>]
  /\ UNCHANGED <<written, session, sent>>

ServerStops == proc # "down" /\ Die /\ UNCHANGED redis

ServerStarts ==
  /\ proc = "down"
  /\ proc' = "up"
  /\ UNCHANGED <<status, fdOf, clients, redis, toServer, written, session, sent>>

-----------------------------------------------------------------------------
(***************************************************************************)
(* listener_cb and connectClient.  The kernel gives out the lowest free    *)
(* descriptor; hash_set stores nothing when the table is full.  When there *)
(* is no descriptor left, accept fails and listener_errorcb ends the loop. *)
(***************************************************************************)
FreeFds == Fd \ {fdOf[c] : c \in Conn}
LowestFd(fd) == fd \in FreeFds /\ \A f \in FreeFds : fd <= f

connectClient(fd, c) ==
  IF Cardinality(Occupied(clients)) >= Cap THEN clients ELSE Store(clients, fd, c)

Accept(c) ==
  /\ proc = "up"
  /\ status[c] = "new"
  /\ \E fd \in Fd : /\ LowestFd(fd)
                    /\ fdOf' = [fdOf EXCEPT ![c] = fd]
                    /\ clients' = connectClient(fd, c)
  /\ status' = [status EXCEPT ![c] = "open"]
  /\ UNCHANGED <<proc, redis, toServer, written, session, sent>>

AcceptFails(c) ==
  /\ proc = "up"
  /\ status[c] = "new"
  /\ FreeFds = {}
  /\ Die
  /\ UNCHANGED redis

-----------------------------------------------------------------------------
\* A client sends a message (SendText numbers it), and closes its connection.
Send(c, m) ==
  /\ status[c] = "open"
  /\ sent < MaxSend
  /\ sent' = sent + 1
  /\ toServer' = [toServer EXCEPT ![c] = Append(@, m)]
  /\ UNCHANGED <<proc, status, fdOf, clients, redis, written, session>>

SendText(c, g) ==
  /\ "TEXT" \in Types
  /\ Send(c, [type |-> "TEXT", room |-> g, id |-> sent + 1, from |-> c])

Close(c) ==
  /\ status[c] = "open"
  /\ status' = [status EXCEPT ![c] = "closing"]
  /\ UNCHANGED <<proc, fdOf, clients, redis, toServer, written, session, sent>>

(***************************************************************************)
(* eventcb: disconnectClient, then bufferevent_free closes the descriptor  *)
(* and drops what is buffered.  EOF comes after the data that precedes it; *)
(* an error need not.  Nothing is written to Redis.  The search for a      *)
(* descriptor that a full table lacks does not end.                        *)
(***************************************************************************)
\* Mutant of eventcb: without disconnectClient.
eventcbKeepsClient(c) ==
  /\ proc = "up"
  /\ status[c] = "closing"
  /\ fdOf' = [fdOf EXCEPT ![c] = Null]
  /\ status' = [status EXCEPT ![c] = "closed"]
  /\ toServer' = [toServer EXCEPT ![c] = <<>>]
  /\ UNCHANGED <<proc, clients, redis, written, session, sent>>

eventcb(c) ==
  /\ proc = "up"
  /\ status[c] = "closing"
  /\ ~ Diverges(clients, fdOf[c])
  /\ clients' = Remove(clients, fdOf[c])
  /\ fdOf' = [fdOf EXCEPT ![c] = Null]
  /\ status' = [status EXCEPT ![c] = "closed"]
  /\ toServer' = [toServer EXCEPT ![c] = <<>>]
  /\ UNCHANGED <<proc, redis, written, session, sent>>

eventcbHangs(c) ==
  /\ proc = "up"
  /\ status[c] = "closing"
  /\ Diverges(clients, fdOf[c])
  /\ proc' = "hung"
  /\ UNCHANGED <<status, fdOf, clients, redis, toServer, written, session, sent>>

-----------------------------------------------------------------------------
(***************************************************************************)
(* The account handlers, for message m of connection c.  A handler writes  *)
(* its reply last, whatever became of the Redis commands.                  *)
(***************************************************************************)
Respond(c, m, ok) ==
  written' = [written EXCEPT ![c] =
                Append(@, [type |-> m.type, user |-> m.user, ok |-> ok])]

handleRegister(c, m) ==
  /\ m.type = "REGISTER"
  /\ \/ /\ m.user \notin registered
        /\ registered' = registered \cup {m.user}
        /\ Respond(c, m, TRUE)
     \/ /\ m.user \in registered \/ RedisFaults
        /\ UNCHANGED registered
        /\ Respond(c, m, FALSE)
  /\ UNCHANGED <<sockfd, saved, session>>

\* Mutant of handleLogin: set_online for any result of login_user.
handleLoginUnchecked(c, m) ==
  /\ m.type = "LOGIN"
  /\ sockfd' = [sockfd EXCEPT ![m.user] = fdOf[c]]
  /\ \/ /\ m.user \in registered
        /\ session' = [session EXCEPT ![m.user] = c]
        /\ Respond(c, m, TRUE)
     \/ /\ UNCHANGED session
        /\ Respond(c, m, FALSE)
  /\ UNCHANGED <<registered, saved>>

\* set_online may fail unnoticed; login_user refuses a user it does not know
\* and a wrong password, and when Redis answers an error.
handleLogin(c, m) ==
  /\ m.type = "LOGIN"
  /\ \/ /\ m.user \in registered
        /\ sockfd' = [sockfd EXCEPT ![m.user] = fdOf[c]]
        /\ session' = [session EXCEPT ![m.user] = c]
        /\ Respond(c, m, TRUE)
     \/ /\ m.user \in registered /\ RedisFaults
        /\ UNCHANGED <<sockfd, session>>
        /\ Respond(c, m, TRUE)
     \/ /\ UNCHANGED <<sockfd, session>>
        /\ Respond(c, m, FALSE)
  /\ UNCHANGED <<registered, saved>>

\* Mutant of handleLogout: sockfd is set to 0, which is not positive either.
handleLogoutZero(c, m) ==
  /\ m.type = "LOGOUT"
  /\ m.user \in registered
  /\ sockfd' = [sockfd EXCEPT ![m.user] = 0]
  /\ session' = [session EXCEPT ![m.user] = Null]
  /\ Respond(c, m, TRUE)
  /\ UNCHANGED <<registered, saved>>

\* Whoever asks: the message names the user.
handleLogout(c, m) ==
  /\ m.type = "LOGOUT"
  /\ \/ /\ m.user \in registered
        /\ sockfd' = [sockfd EXCEPT ![m.user] = Offline]
        /\ session' = [session EXCEPT ![m.user] = Null]
        /\ Respond(c, m, TRUE)
     \/ /\ RedisFaults
        /\ UNCHANGED <<sockfd, session>>
        /\ Respond(c, m, FALSE)
  /\ UNCHANGED <<registered, saved>>

-----------------------------------------------------------------------------
(***************************************************************************)
(* handleChat.  get_fd_byid reads the sockfd of every member and keeps the *)
(* positive ones (Online).  Each of them gets the message, unless it is    *)
(* the sender's own connection, and for each of them the message is saved, *)
(* delivered or not.  The table may lead to a bufferevent that has been    *)
(* freed: its memory may be that of another connection by now, or writing  *)
(* to it may go unnoticed, or crash (SegFaults).                           *)
(***************************************************************************)
Online(g) == {u \in members[g] : sockfd[u] \notin {Null, Offline}}
Target(u) == Lookup(clients, sockfd[u])
Freed(g) == {c \in Conn : ~ Held(c) /\ \E u \in Online(g) : Target(u) = c}
Memory(g) == [Freed(g) -> {c \in Conn : Held(c)} \cup {Null}]

\* The connection that a write for u goes to, with memory a.
Reached(u, a) == IF Target(u) \in DOMAIN a THEN a[Target(u)] ELSE Target(u)
Copies(m, n) == [i \in 1 .. n |-> m]

SaveCopies(m, n) ==
  saved' = [saved EXCEPT ![m.room] = @ \o Copies(m, n)]

\* Mutants of Broadcast: every write goes to the connection looked up first;
\* output is put in front of what is buffered.
BroadcastToFirst(c, m, a) ==
  \/ Online(m.room) = {} /\ UNCHANGED written
  \/ \E u \in Online(m.room) : written' = [d \in Conn |->
       IF d # c /\ Reached(u, a) = d
       THEN written[d] \o Copies(m, Cardinality(Online(m.room))) ELSE written[d]]

BroadcastPrepends(c, m, a) ==
  written' = [d \in Conn |->
    IF d = c THEN written[d]
    ELSE Copies(m, Cardinality({u \in Online(m.room) : Reached(u, a) = d})) \o written[d]]

Broadcast(c, m, a) ==
  written' = [d \in Conn |->
    IF d = c THEN written[d]
    ELSE written[d] \o Copies(m, Cardinality({u \in Online(m.room) : Reached(u, a) = d}))]

\* Mutant of Receivers: only a message nobody was there to get is saved.
ReceiversUnread(c, g, a) == {u \in Online(g) : Reached(u, a) = Null}

Receivers(c, g, a) == {u \in Online(g) : Reached(u, a) # c}

handleChat(c, m) ==
  /\ m.type = "TEXT"
  /\ \A u \in members[m.room] : sockfd[u] # Null
  /\ \A u \in Online(m.room) : ~ Diverges(clients, sockfd[u])
  /\ \E a \in Memory(m.room) :
       /\ Broadcast(c, m, a)
       /\ \E n \in 0 .. Cardinality(Receivers(c, m.room, a)) :
            /\ RedisFaults \/ n = Cardinality(Receivers(c, m.room, a))
            /\ SaveCopies(m, n)
  /\ UNCHANGED <<registered, sockfd, session>>

\* An error of SMEMBERS, or of HGET before a descriptor is found: no one.
chatReachesNoOne(c, m) ==
  /\ m.type = "TEXT"
  /\ RedisFaults
  /\ UNCHANGED <<redis, written, session>>

handleOther(c, m) ==
  /\ m.type = "OTHER"
  /\ UNCHANGED <<redis, written, session>>

(***************************************************************************)
(* The inputs on which a handler dereferences NULL before it has changed   *)
(* anything: LOGOUT of an unknown name; TEXT to a room with a member who   *)
(* never logged in, or with two members when HGET fails after a descriptor *)
(* has been found.                                                         *)
(***************************************************************************)
SegFaults(m) ==
  \/ m.type = "LOGOUT" /\ m.user \notin registered
  \/ /\ m.type = "TEXT"
     /\ \/ \E u \in members[m.room] : sockfd[u] = Null
        \/ RedisFaults /\ \E u \in Online(m.room) : members[m.room] # {u}

\* The loop of handleChat breaks off, or never ends: saves have been made.
ChatBreaksOff(c, m) ==
  /\ \A u \in members[m.room] : sockfd[u] # Null
  /\ \E a \in Memory(m.room) :
       \E n \in 0 .. Cardinality({u \in Receivers(c, m.room, a) :
                                   ~ Diverges(clients, sockfd[u])}) : SaveCopies(m, n)
  /\ UNCHANGED <<registered, sockfd>>

ChatCrashes(m) == m.type = "TEXT" /\ Freed(m.room) # {}
ChatHangs(m) == m.type = "TEXT" /\ \E u \in Online(m.room) : Diverges(clients, sockfd[u])

-----------------------------------------------------------------------------
(***************************************************************************)
(* readcb consumes all the input there is, however many messages that is,  *)
(* and unpacks the first.                                                  *)
(***************************************************************************)
\* Mutant of Consume: what has been read is left in the buffer.
ConsumePeeks(c) ==
  \E n \in 0 .. Len(toServer[c]) :
    toServer' = [toServer EXCEPT ![c] = SubSeq(@, n + 1, Len(@))]

Consume(c) ==
  \E n \in 1 .. Len(toServer[c]) :
    toServer' = [toServer EXCEPT ![c] = SubSeq(@, n + 1, Len(@))]

readcb(c) ==
  /\ proc = "up"
  /\ Held(c)
  /\ toServer[c] # <<>>
  /\ LET m == Head(toServer[c]) IN
       \/ handleRegister(c, m) \/ handleLogin(c, m) \/ handleLogout(c, m)
       \/ handleChat(c, m) \/ chatReachesNoOne(c, m) \/ handleOther(c, m)
  /\ Consume(c)
  /\ UNCHANGED <<proc, status, fdOf, clients, sent>>

readcbSegFaults(c) ==
  /\ proc = "up"
  /\ Held(c)
  /\ toServer[c] # <<>>
  /\ LET m == Head(toServer[c]) IN
       \/ SegFaults(m) /\ UNCHANGED redis
       \/ ChatCrashes(m) /\ ChatBreaksOff(c, m)
  /\ Die

\* The search for a stale descriptor that a full table lacks does not end.
readcbHangs(c) ==
  /\ proc = "up"
  /\ Held(c)
  /\ toServer[c] # <<>>
  /\ LET m == Head(toServer[c]) IN ChatHangs(m) /\ ChatBreaksOff(c, m)
  /\ proc' = "hung"
  /\ UNCHANGED <<status, fdOf, clients, toServer, written, session, sent>>

-----------------------------------------------------------------------------
Callback(c) ==
  \/ Accept(c) \/ AcceptFails(c)
  \/ readcb(c) \/ readcbSegFaults(c) \/ readcbHangs(c)
  \/ eventcb(c) \/ eventcbHangs(c)

Client(c) ==
  \/ \E m \in Message \ Text : Send(c, m)
  \/ \E g \in Room : SendText(c, g)
  \/ Close(c)

Next ==
  \/ ServerStops \/ ServerStarts
  \/ \E c \in Conn : Callback(c) \/ Client(c)

Spec == Init /\ [][Next]_vars

-----------------------------------------------------------------------------
(***************************************************************************)
(* Properties                                                              *)
(***************************************************************************)

\* The table holds exactly the connections the server holds, each under its
\* own descriptor: no bufferevent that has been freed can be found in it, and
\* none that is in use is missing.
ClientsExact ==
  \A fd \in Fd, c \in Conn : Lookup(clients, fd) = c <=> fdOf[c] = fd

\* A user who logged in on a connection that is still held, and did not log
\* out, is routed to that connection: whatever other connections came and
\* went, and whoever else logged in, since.
OnlineReachable ==
  \A u \in User : session[u] # Null /\ Held(session[u]) /\ proc = "up"
                    => sockfd[u] > 0 /\ Target(u) = session[u]

\* The positions of chat messages, in a sequence and in what c has been sent.
TextsIn(q) == {i \in DOMAIN q : q[i].type = "TEXT"}
TextsTo(c) == TextsIn(written[c])

\* No two messages are in one order in p and in the other in q.  With q = p:
\* a message that another has followed does not come again.
SameOrder(p, q) ==
  \A i, j \in TextsIn(p), k, l \in TextsIn(q) :
    i < j /\ k < l /\ p[i] = q[l] /\ p[j] = q[k] => p[i] = p[j]

\* All clients get the messages that they both get in one order, whoever sent
\* them, and it is the order of the room's history: also for those that get
\* them through a stale descriptor, and across restarts.
TotalOrder ==
  \A c \in Conn : /\ \A d \in Conn : SameOrder(written[c], written[d])
                  /\ \A g \in Room : SameOrder(written[c], saved[g])

\* A client gets the messages of one sender in the order they were sent, also
\* when readcb drops some and a client gets several copies of others.
SenderOrder ==
  \A c \in Conn : \A i, j \in TextsTo(c) :
    i < j /\ written[c][i].from = written[c][j].from => written[c][i].id <= written[c][j].id

\* A message that reached anybody is in the history of its room.
DeliveredIsSaved ==
  \A c \in Conn : \A i \in TextsTo(c) :
    \E j \in DOMAIN saved[written[c][i].room] :
      saved[written[c][i].room][j] = written[c][i]

\* What the step adds to a sequence.
Added(q, q2) == {q2[i] : i \in Len(q) + 1 .. Len(q2)}

\* When a message is saved for a room, every member who is logged in gets it
\* in the same callback, except on the connection it came from.
ReachesMembers ==
  [][\A g \in Room : \A m \in Added(saved[g], saved'[g]) : \A u \in members[g] :
       proc' = "up" /\ session[u] \notin {Null, m.from} /\ Held(session[u])
         => m \in Added(written[session[u]], written'[session[u]])]_vars

\* get_fd_byid finds "all valid sockfds(online) in this chatroom": each is the
\* descriptor of a connection its user is logged in on.
RoomFdsOnline ==
  proc = "up" => \A g \in Room : \A u \in Online(g) :
    \E c \in Conn : Held(c) /\ fdOf[c] = sockfd[u] /\ session[u] = c
=============================================================================
