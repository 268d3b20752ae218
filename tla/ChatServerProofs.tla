-------------------------- MODULE ChatServerProofs --------------------------
(***************************************************************************)
(* Theorems about ChatServer, for any number of users, rooms, connections, *)
(* descriptors and messages.                                               *)
(***************************************************************************)
EXTENDS ChatServer, LinearProbingProofs, SequenceTheorems

(***************************************************************************)
(* Types.  A connection has a descriptor exactly while the server holds it.*)
(***************************************************************************)
HeldHasFd == \A c \in Conn : Held(c) <=> fdOf[c] # Null

Typed == TypeOK /\ HeldHasFd

LEMMA FdFacts == Null \notin Fd /\ Offline \notin Fd /\ Null # Offline
<1>1. Offline \in Int /\ ~ (Offline > 0)
  BY DEF Offline
<1>2. \A fd \in Fd : fd \in Int /\ fd > 0
  BY FdAssumption
<1> QED BY <1>1, <1>2, NoFdAssumption

LEMMA CopiesOf ==
  ASSUME NEW S, NEW m \in S, NEW n \in Nat
  PROVE  /\ Copies(m, n) \in Seq(S)
         /\ Len(Copies(m, n)) = n
         /\ \A i \in 1 .. n : Copies(m, n)[i] = m
<1>1. Copies(m, n) \in [1 .. n -> S]
  BY DEF Copies
<1>2. Copies(m, n) \in Seq(S)
  BY <1>1
<1>3. DOMAIN Copies(m, n) = 1 .. n
  BY DEF Copies
<1>4. Len(Copies(m, n)) = n
  BY <1>2, <1>3, LenProperties
<1> QED BY <1>2, <1>4 DEF Copies

LEMMA MembersFinite ==
  ASSUME NEW g \in Room, NEW S \in SUBSET Online(g)
  PROVE  Cardinality(S) \in Nat
<1>1. S \subseteq User
  BY MembersAssumption DEF Online
<1> QED BY <1>1, UserAssumption, FS_Subset, FS_CardinalityType

LEMMA MessageKinds ==
  ASSUME NEW m \in Message
  PROVE  /\ m.type = "TEXT" => m \in Text
         /\ m.type \in {"REGISTER", "LOGIN", "LOGOUT"} => m \in Account /\ m.user \in User
         /\ m \in Account \cup Text \cup Other
  BY DEF Message, Account, Text, Other

LEMMA FirstMessage ==
  ASSUME TypeOK, NEW c \in Conn, toServer[c] # <<>>
  PROVE  Head(toServer[c]) \in Message /\ Len(toServer[c]) \in Nat \ {0}
<1>1. toServer[c] \in Seq(Message)
  BY DEF TypeOK
<1> QED BY <1>1, HeadTailProperties, EmptySeq

LEMMA ConsumeTypes ==
  ASSUME TypeOK, NEW c \in Conn, toServer[c] # <<>>, Consume(c)
  PROVE  toServer' \in [Conn -> Seq(Message)]
<1>1. PICK n \in 1 .. Len(toServer[c]) :
        toServer' = [toServer EXCEPT ![c] = SubSeq(@, n + 1, Len(@))]
  BY DEF Consume
<1>2. toServer[c] \in Seq(Message) /\ Len(toServer[c]) \in Nat
  BY FirstMessage DEF TypeOK
<1>3. \A i \in n + 1 .. Len(toServer[c]) : toServer[c][i] \in Message
  BY <1>2, ElementOfSeq
<1>4. SubSeq(toServer[c], n + 1, Len(toServer[c])) \in Seq(Message)
  BY <1>2, <1>3, SubSeqProperties
<1> QED BY <1>1, <1>4 DEF TypeOK

\* The process ends.
LEMMA DieTypes ==
  ASSUME TypeOK, Die
  PROVE  /\ proc' = "down"
         /\ status' \in [Conn -> {"new", "open", "closing", "closed"}]
         /\ fdOf' \in [Conn -> Fd \cup {Null}]
         /\ clients' \in Table
         /\ toServer' \in [Conn -> Seq(Message)]
         /\ HeldHasFd'
         /\ UNCHANGED <<written, session, sent>>
<1>1. clients' \in Table
  BY DEF Die, EmptyTable, Table
<1>2. toServer' \in [Conn -> Seq(Message)]
  BY EmptySeq DEF Die
<1>3. HeldHasFd'
  BY DEF Die, HeldHasFd, Held
<1> QED BY <1>1, <1>2, <1>3 DEF Die, TypeOK

LEMMA RespondTypes ==
  ASSUME TypeOK, NEW c \in Conn, NEW m \in Message, NEW ok \in BOOLEAN,
         m.type \in {"REGISTER", "LOGIN", "LOGOUT"}, Respond(c, m, ok)
  PROVE  written' \in [Conn -> Seq(Text \cup Reply)]
<1>1. [type |-> m.type, user |-> m.user, ok |-> ok] \in Reply
  BY MessageKinds DEF Reply
<1>2. written[c] \in Seq(Text \cup Reply)
  BY DEF TypeOK
<1>3. Append(written[c], [type |-> m.type, user |-> m.user, ok |-> ok]) \in Seq(Text \cup Reply)
  BY <1>1, <1>2
<1> QED BY <1>3 DEF Respond, TypeOK

LEMMA SaveTypes ==
  ASSUME TypeOK, NEW m \in Text, NEW n \in Nat, SaveCopies(m, n)
  PROVE  saved' \in [Room -> Seq(Text)]
<1>1. m.room \in Room /\ saved[m.room] \in Seq(Text) /\ Copies(m, n) \in Seq(Text)
  BY CopiesOf DEF TypeOK, Text
<1>2. saved[m.room] \o Copies(m, n) \in Seq(Text)
  BY <1>1, ConcatProperties
<1> QED BY <1>2 DEF SaveCopies, TypeOK

LEMMA BroadcastTypes ==
  ASSUME TypeOK, NEW c \in Conn, NEW m \in Text, NEW a, Broadcast(c, m, a)
  PROVE  written' \in [Conn -> Seq(Text \cup Reply)]
<1>1. ASSUME NEW d \in Conn
      PROVE  written[d] \o Copies(m, Cardinality({u \in Online(m.room) : Reached(u, a) = d}))
               \in Seq(Text \cup Reply)
  <2> DEFINE k == Cardinality({u \in Online(m.room) : Reached(u, a) = d})
  <2>1. k \in Nat
    BY MembersFinite DEF Text
  <2> HIDE DEF k
  <2>2. Copies(m, k) \in Seq(Text \cup Reply) /\ written[d] \in Seq(Text \cup Reply)
    BY <2>1, CopiesOf DEF TypeOK
  <2>3. written[d] \o Copies(m, k) \in Seq(Text \cup Reply)
    BY <2>2, ConcatProperties
  <2> QED BY <2>3 DEF k
<1>2. \A d \in Conn : written[d] \in Seq(Text \cup Reply)
  BY DEF TypeOK
<1> QED BY <1>1, <1>2 DEF Broadcast

-----------------------------------------------------------------------------
LEMMA InitTyped == Init => Typed
<1>1. Init => TypeOK
  BY BoundAssumption, EmptySeq DEF Init, TypeOK, EmptyTable, Table
<1>2. Init => HeldHasFd
  BY DEF Init, HeldHasFd, Held
<1> QED BY <1>1, <1>2 DEF Typed

LEMMA AcceptTyped ==
  ASSUME Typed, NEW c \in Conn, Accept(c)
  PROVE  Typed'
<1>1. PICK fd \in Fd : /\ fdOf' = [fdOf EXCEPT ![c] = fd]
                       /\ clients' = connectClient(fd, c)
  BY DEF Accept
<1>2. clients' \in Table
  <2>1. [key |-> fd, value |-> c] \in Node
    BY DEF Node, Fd, Conn
  <2>2. clients \in Table
    BY DEF Typed, TypeOK
  <2> QED BY <1>1, <2>1, <2>2 DEF connectClient, Store, Table
<1>3. HeldHasFd'
  BY <1>1, FdFacts DEF Accept, Typed, TypeOK, HeldHasFd, Held
<1>4. TypeOK'
  BY <1>1, <1>2 DEF Accept, redis, Typed, TypeOK
<1> QED BY <1>3, <1>4 DEF Typed

LEMMA EventcbTyped ==
  ASSUME Typed, NEW c \in Conn, eventcb(c)
  PROVE  Typed'
<1>1. clients' \in Table
  BY DEF eventcb, Remove, Typed, TypeOK, Table
<1>2. HeldHasFd'
  BY DEF eventcb, Typed, TypeOK, HeldHasFd, Held
<1>3. toServer' \in [Conn -> Seq(Message)]
  BY EmptySeq DEF eventcb, Typed, TypeOK
<1>4. TypeOK'
  BY <1>1, <1>3 DEF eventcb, redis, Typed, TypeOK
<1> QED BY <1>2, <1>4 DEF Typed

LEMMA SendTyped ==
  ASSUME Typed, NEW c \in Conn, NEW m \in Message, Send(c, m)
  PROVE  Typed'
<1>1. Append(toServer[c], m) \in Seq(Message)
  BY DEF Typed, TypeOK
<1>2. toServer' \in [Conn -> Seq(Message)]
  BY <1>1 DEF Send, Typed, TypeOK
<1>3. sent' \in 0 .. MaxSend
  BY BoundAssumption DEF Send, Typed, TypeOK
<1> QED BY <1>2, <1>3 DEF Send, redis, Typed, TypeOK, HeldHasFd, Held

LEMMA TextIsMessage ==
  ASSUME TypeOK, NEW c \in Conn, NEW g \in Room, SendText(c, g)
  PROVE  [type |-> "TEXT", room |-> g, id |-> sent + 1, from |-> c] \in Message
<1>1. sent + 1 \in 1 .. MaxSend
  BY BoundAssumption DEF SendText, Send, TypeOK
<1>2. [type |-> "TEXT", room |-> g, id |-> sent + 1, from |-> c] \in Text
  BY <1>1 DEF Text
<1> QED BY <1>2 DEF Message, SendText

(***************************************************************************)
(* What a handler that returns leaves behind.                              *)
(***************************************************************************)
HandlersTyped ==
  /\ registered' \in SUBSET User
  /\ sockfd' \in [User -> Fd \cup {Offline, Null}]
  /\ saved' \in [Room -> Seq(Text)]
  /\ written' \in [Conn -> Seq(Text \cup Reply)]
  /\ session' \in [User -> Conn \cup {Null}]

Handled(c, m) ==
  \/ handleRegister(c, m) \/ handleLogin(c, m) \/ handleLogout(c, m)
  \/ handleChat(c, m) \/ chatReachesNoOne(c, m) \/ handleOther(c, m)

LEMMA HandledTyped ==
  ASSUME Typed, NEW c \in Conn, Held(c), NEW m \in Message, Handled(c, m)
  PROVE  HandlersTyped
<1> USE DEF Typed
<1>1. CASE handleRegister(c, m)
  <2>1. m.user \in User
    BY <1>1, MessageKinds DEF handleRegister
  <2>2. written' \in [Conn -> Seq(Text \cup Reply)]
    BY <1>1, RespondTypes DEF handleRegister
  <2> QED BY <1>1, <2>1, <2>2 DEF handleRegister, HandlersTyped, TypeOK
<1>2. CASE handleLogin(c, m)
  <2>1. m.user \in User
    BY <1>2, MessageKinds DEF handleLogin
  <2>2. written' \in [Conn -> Seq(Text \cup Reply)]
    BY <1>2, RespondTypes DEF handleLogin
  <2>3. fdOf[c] \in Fd
    BY DEF TypeOK, HeldHasFd
  <2>4. sockfd' \in [User -> Fd \cup {Offline, Null}]
    BY <1>2, <2>1, <2>3 DEF handleLogin, TypeOK
  <2>5. session' \in [User -> Conn \cup {Null}]
    BY <1>2, <2>1 DEF handleLogin, TypeOK
  <2> QED BY <1>2, <2>2, <2>4, <2>5 DEF handleLogin, HandlersTyped, TypeOK
<1>3. CASE handleLogout(c, m)
  <2>1. m.user \in User
    BY <1>3, MessageKinds DEF handleLogout
  <2>2. written' \in [Conn -> Seq(Text \cup Reply)]
    BY <1>3, RespondTypes DEF handleLogout
  <2>3. sockfd' \in [User -> Fd \cup {Offline, Null}]
    BY <1>3, <2>1 DEF handleLogout, TypeOK
  <2>4. session' \in [User -> Conn \cup {Null}]
    BY <1>3, <2>1 DEF handleLogout, TypeOK
  <2> QED BY <1>3, <2>2, <2>3, <2>4 DEF handleLogout, HandlersTyped, TypeOK
<1>4. CASE handleChat(c, m)
  <2>1. m \in Text
    BY <1>4, MessageKinds DEF handleChat
  <2>2. PICK a \in Memory(m.room) :
          /\ Broadcast(c, m, a)
          /\ \E n \in 0 .. Cardinality(Receivers(c, m.room, a)) : SaveCopies(m, n)
    BY <1>4 DEF handleChat
  <2>3. PICK n \in 0 .. Cardinality(Receivers(c, m.room, a)) : SaveCopies(m, n)
    BY <2>2
  <2>4. Cardinality(Receivers(c, m.room, a)) \in Nat
    BY <2>1, MembersFinite DEF Text, Receivers
  <2>5. saved' \in [Room -> Seq(Text)]
    BY <2>1, <2>3, <2>4, SaveTypes
  <2>6. written' \in [Conn -> Seq(Text \cup Reply)]
    BY <2>1, <2>2, BroadcastTypes
  <2> QED BY <1>4, <2>5, <2>6 DEF handleChat, HandlersTyped, TypeOK
<1>5. CASE chatReachesNoOne(c, m) \/ handleOther(c, m)
  BY <1>5 DEF chatReachesNoOne, handleOther, redis, HandlersTyped, TypeOK
<1> QED BY <1>1, <1>2, <1>3, <1>4, <1>5 DEF Handled

LEMMA ReadcbTyped ==
  ASSUME Typed, NEW c \in Conn, readcb(c)
  PROVE  Typed'
<1>1. Head(toServer[c]) \in Message /\ toServer[c] # <<>> /\ Held(c)
  BY FirstMessage DEF readcb, Typed
<1>2. Handled(c, Head(toServer[c]))
  BY DEF readcb, Handled
<1>3. HandlersTyped
  BY <1>1, <1>2, HandledTyped
<1>4. toServer' \in [Conn -> Seq(Message)]
  BY <1>1, ConsumeTypes DEF readcb, Typed
<1> QED BY <1>3, <1>4 DEF readcb, HandlersTyped, Typed, TypeOK, HeldHasFd, Held

\* A chat that breaks off has saved copies and done nothing else.
LEMMA ChatBreaksOffTyped ==
  ASSUME TypeOK, NEW c \in Conn, NEW m \in Message, m.type = "TEXT", ChatBreaksOff(c, m)
  PROVE  saved' \in [Room -> Seq(Text)] /\ UNCHANGED <<registered, sockfd>>
<1>1. m \in Text
  BY MessageKinds
<1>2. PICK a \in Memory(m.room) :
        \E n \in 0 .. Cardinality({u \in Receivers(c, m.room, a) :
                                    ~ Diverges(clients, sockfd[u])}) : SaveCopies(m, n)
  BY DEF ChatBreaksOff
<1> DEFINE k == Cardinality({u \in Receivers(c, m.room, a) : ~ Diverges(clients, sockfd[u])})
<1>3. k \in Nat
  BY <1>1, MembersFinite DEF Text, Receivers
<1>4. \E n \in 0 .. k : SaveCopies(m, n)
  BY <1>2
<1> HIDE DEF k
<1>5. PICK n \in 0 .. k : SaveCopies(m, n)
  BY <1>4
<1> QED BY <1>1, <1>3, <1>5, SaveTypes DEF ChatBreaksOff

LEMMA ReadcbStopsTyped ==
  ASSUME Typed, NEW c \in Conn, readcbSegFaults(c) \/ readcbHangs(c)
  PROVE  Typed'
<1>1. Head(toServer[c]) \in Message
  BY FirstMessage DEF readcbSegFaults, readcbHangs, Typed
<1>2. /\ saved' \in [Room -> Seq(Text)]
      /\ UNCHANGED <<registered, sockfd>>
  BY <1>1, ChatBreaksOffTyped
  DEF readcbSegFaults, readcbHangs, ChatCrashes, ChatHangs, redis, Typed, TypeOK
<1>3. CASE readcbSegFaults(c)
  BY <1>2, <1>3, DieTypes DEF readcbSegFaults, Typed, TypeOK
<1>4. CASE readcbHangs(c)
  BY <1>2, <1>4 DEF readcbHangs, Typed, TypeOK, HeldHasFd, Held
<1> QED BY <1>3, <1>4

LEMMA StepTyped == Typed /\ [Next]_vars => Typed'
<1> SUFFICES ASSUME Typed, [Next]_vars PROVE Typed'
  OBVIOUS
<1>1. CASE UNCHANGED vars
  BY <1>1 DEF vars, redis, Typed, TypeOK, HeldHasFd, Held
<1>2. CASE ServerStops
  BY <1>2, DieTypes DEF ServerStops, redis, Typed, TypeOK
<1>3. CASE ServerStarts
  BY <1>3 DEF ServerStarts, redis, Typed, TypeOK, HeldHasFd, Held
<1>4. ASSUME NEW c \in Conn, Callback(c) PROVE Typed'
  <2>1. CASE AcceptFails(c)
    BY <2>1, DieTypes DEF AcceptFails, redis, Typed, TypeOK
  <2>2. CASE eventcbHangs(c)
    BY <2>2 DEF eventcbHangs, redis, Typed, TypeOK, HeldHasFd, Held
  <2> QED BY <1>4, <2>1, <2>2, AcceptTyped, ReadcbTyped, ReadcbStopsTyped, EventcbTyped
          DEF Callback
<1>5. ASSUME NEW c \in Conn, Client(c) PROVE Typed'
  <2>1. CASE Close(c)
    BY <2>1 DEF Close, redis, Typed, TypeOK, HeldHasFd, Held
  <2>2. CASE \E m \in Message \ Text : Send(c, m)
    BY <2>2, SendTyped
  <2>3. CASE \E g \in Room : SendText(c, g)
    BY <2>3, SendTyped, TextIsMessage DEF SendText, Typed
  <2> QED BY <1>5, <2>1, <2>2, <2>3 DEF Client
<1> QED BY <1>1, <1>2, <1>3, <1>4, <1>5 DEF Next

LEMMA TypedCorrect == Spec => []Typed
  BY InitTyped, StepTyped, PTL DEF Spec

\* Every variable keeps its type, whatever the descriptors are and however
\* often the server dies; sockfd is a descriptor, -1 or missing.
THEOREM TypeCorrect == Spec => []TypeOK
  BY TypedCorrect, PTL DEF Typed

-----------------------------------------------------------------------------
(***************************************************************************)
(* What the server has not read yet of a connection comes from that        *)
(* connection.                                                             *)
(***************************************************************************)
OwnText(c, m) == m.type = "TEXT" => m.from = c
OwnMessages ==
  \A c \in Conn : \A i \in 1 .. Len(toServer[c]) : OwnText(c, toServer[c][i])

LEMMA FirstIsOwn ==
  ASSUME TypeOK, OwnMessages, NEW c \in Conn, toServer[c] # <<>>
  PROVE  OwnText(c, Head(toServer[c]))
<1>1. toServer[c] \in Seq(Message) /\ Len(toServer[c]) \in Nat \ {0}
  BY FirstMessage DEF TypeOK
<1>2. Head(toServer[c]) = toServer[c][1] /\ 1 \in 1 .. Len(toServer[c])
  BY <1>1
<1> QED BY <1>2 DEF OwnMessages

LEMMA ConsumeOwn ==
  ASSUME TypeOK, OwnMessages, NEW c \in Conn, toServer[c] # <<>>, Consume(c)
  PROVE  OwnMessages'
<1>1. PICK n \in 1 .. Len(toServer[c]) :
        toServer' = [toServer EXCEPT ![c] = SubSeq(@, n + 1, Len(@))]
  BY DEF Consume
<1> DEFINE q == toServer[c]
           r == SubSeq(q, n + 1, Len(q))
<1>2. q \in Seq(Message) /\ Len(q) \in Nat
  BY FirstMessage DEF TypeOK
<1>3. \A i \in n + 1 .. Len(q) : q[i] \in Message
  BY <1>2, ElementOfSeq
<1>4. /\ Len(r) = IF n + 1 <= Len(q) THEN Len(q) - n ELSE 0
      /\ \A i \in 1 .. Len(q) - n : r[i] = q[n + i]
  BY <1>2, <1>3, SubSeqProperties
<1>5. toServer'[c] = r /\ \A d \in Conn \ {c} : toServer'[d] = toServer[d]
  BY <1>1 DEF TypeOK
<1> HIDE DEF r
<1>6. ASSUME NEW i \in 1 .. Len(r) PROVE OwnText(c, r[i])
  <2>1. n + i \in 1 .. Len(q) /\ r[i] = q[n + i]
    BY <1>2, <1>4
  <2> QED BY <2>1 DEF OwnMessages
<1> QED BY <1>5, <1>6 DEF OwnMessages

LEMMA SendOwn ==
  ASSUME TypeOK, OwnMessages, NEW c \in Conn, NEW m \in Message, OwnText(c, m), Send(c, m)
  PROVE  OwnMessages'
<1> DEFINE q == toServer[c]
<1>1. q \in Seq(Message)
  BY DEF TypeOK
<1>2. toServer'[c] = Append(q, m) /\ \A d \in Conn \ {c} : toServer'[d] = toServer[d]
  BY DEF Send, TypeOK
<1>3. /\ Len(Append(q, m)) = Len(q) + 1 /\ Len(q) \in Nat
      /\ Append(q, m)[Len(q) + 1] = m
      /\ \A i \in 1 .. Len(q) : Append(q, m)[i] = q[i]
  BY <1>1
<1>4. ASSUME NEW i \in 1 .. Len(toServer'[c]) PROVE OwnText(c, toServer'[c][i])
  BY <1>2, <1>3 DEF OwnMessages
<1> QED BY <1>2, <1>4 DEF OwnMessages

LEMMA OwnMessagesStep ==
  ASSUME Typed, OwnMessages, [Next]_vars
  PROVE  OwnMessages'
<1> USE DEF Typed
<1>1. CASE UNCHANGED toServer
  BY <1>1 DEF OwnMessages
<1>2. CASE Die
  <2>1. \A c \in Conn : toServer'[c] = <<>> /\ Len(toServer'[c]) = 0
    BY <1>2, EmptySeq DEF Die
  <2> QED BY <2>1 DEF OwnMessages
<1>3. ASSUME NEW c \in Conn, readcb(c) PROVE OwnMessages'
  BY <1>3, ConsumeOwn DEF readcb
<1>4. ASSUME NEW c \in Conn, eventcb(c) PROVE OwnMessages'
  <2>1. /\ toServer'[c] = <<>> /\ Len(toServer'[c]) = 0
        /\ \A d \in Conn \ {c} : toServer'[d] = toServer[d]
    BY <1>4, EmptySeq DEF eventcb, TypeOK
  <2> QED BY <2>1 DEF OwnMessages
<1>5. ASSUME NEW c \in Conn, Client(c) PROVE OwnMessages'
  <2>1. CASE \E m \in Message \ Text : Send(c, m)
    BY <2>1, SendOwn, MessageKinds DEF OwnText
  <2>2. CASE \E g \in Room : SendText(c, g)
    <3>1. PICK g \in Room : SendText(c, g)
      BY <2>2
    <3> DEFINE m == [type |-> "TEXT", room |-> g, id |-> sent + 1, from |-> c]
    <3>2. m \in Message /\ m.from = c
      BY <3>1, TextIsMessage
    <3> QED BY <3>1, <3>2, SendOwn DEF SendText, OwnText
  <2>3. CASE Close(c)
    BY <1>1, <2>3 DEF Close
  <2> QED BY <1>5, <2>1, <2>2, <2>3 DEF Client
<1>6. ASSUME NEW c \in Conn, Callback(c) PROVE OwnMessages'
  BY <1>1, <1>2, <1>3, <1>4, <1>6
  DEF Callback, Accept, AcceptFails, readcbSegFaults, readcbHangs, eventcbHangs
<1> QED
  BY <1>1, <1>2, <1>5, <1>6 DEF Next, vars, ServerStops, ServerStarts

LEMMA OwnMessagesCorrect == Spec => []OwnMessages
<1>1. Init => OwnMessages
  <2> SUFFICES ASSUME Init PROVE OwnMessages
    OBVIOUS
  <2>1. \A c \in Conn : toServer[c] = <<>> /\ Len(toServer[c]) = 0
    BY EmptySeq DEF Init
  <2> QED BY <2>1 DEF OwnMessages
<1>2. Typed /\ OwnMessages /\ [Next]_vars => OwnMessages'
  BY OwnMessagesStep
<1> QED BY <1>1, <1>2, TypedCorrect, PTL DEF Spec

-----------------------------------------------------------------------------
(***************************************************************************)
(* The table of clients and the routing, when no two descriptors collide   *)
(* (as descriptors below the capacity do not, DescriptorsDoNotCollide).    *)
(***************************************************************************)
Exact == AtHome(clients) /\ ClientsExact

LEMMA AcceptExact ==
  ASSUME NoCollision, Typed, Exact, NEW c \in Conn, Accept(c)
  PROVE  Exact'
<1>1. PICK fd \in Fd : /\ LowestFd(fd)
                       /\ fdOf' = [fdOf EXCEPT ![c] = fd]
                       /\ clients' = connectClient(fd, c)
  BY DEF Accept
<1>2. /\ clients \in Table /\ fdOf \in [Conn -> Fd \cup {Null}]
      /\ fd \in Key /\ c \in Value /\ fdOf[c] = Null
  BY DEF Typed, TypeOK, HeldHasFd, Held, Accept, Fd, Conn
<1>3. \A d \in Conn : fdOf[d] # fd
  BY <1>1 DEF LowestFd, FreeFds
<1>4. Lookup(clients, fd) = Null
  BY <1>2, <1>3, LookupType DEF Exact, ClientsExact, Conn, Fd
<1>5. /\ clients' = Store(clients, fd, c)
      /\ AtHome(Store(clients, fd, c))
      /\ Lookup(Store(clients, fd, c), fd) = c
      /\ \A fd2 \in Key \ {fd} : Lookup(Store(clients, fd, c), fd2) = Lookup(clients, fd2)
  <2>1. /\ Cardinality(Occupied(clients)) < Cap
        /\ AtHome(Store(clients, fd, c))
        /\ Lookup(Store(clients, fd, c), fd) = c
        /\ \A fd2 \in Key \ {fd} : Lookup(Store(clients, fd, c), fd2) = Lookup(clients, fd2)
    BY <1>2, <1>4, StoreNew DEF Exact
  <2>2. Cardinality(Occupied(clients)) \in Nat
    BY <1>2, OccupiedFinite, FS_CardinalityType
  <2>3. ~ (Cardinality(Occupied(clients)) >= Cap)
    BY <2>1, <2>2, CapAssumption
  <2> QED BY <1>1, <2>1, <2>3 DEF connectClient
<1>6. ASSUME NEW fd2 \in Fd, NEW d \in Conn
      PROVE  Lookup(clients', fd2) = d <=> fdOf'[d] = fd2
  <2>1. CASE fd2 = fd
    BY <1>1, <1>2, <1>3, <1>5, <2>1
  <2>2. CASE fd2 # fd
    <3>1. Lookup(clients', fd2) = Lookup(clients, fd2)
      BY <1>5, <2>2 DEF Fd
    <3>2. Lookup(clients, fd2) = d <=> fdOf[d] = fd2
      BY DEF Exact, ClientsExact
    <3> QED BY <1>1, <1>2, <2>2, <3>1, <3>2, FdFacts
  <2> QED BY <2>1, <2>2
<1> QED BY <1>5, <1>6 DEF Exact, ClientsExact

LEMMA EventcbExact ==
  ASSUME Typed, Exact, NEW c \in Conn, eventcb(c)
  PROVE  Exact'
<1> DEFINE f == fdOf[c]
<1>1. /\ clients \in Table /\ fdOf \in [Conn -> Fd \cup {Null}]
      /\ f \in Fd /\ f \in Key /\ Null \notin Conn
  BY NullAssumption DEF Typed, TypeOK, HeldHasFd, Held, eventcb, Fd, Conn
<1>2. Lookup(clients, f) = c
  BY <1>1 DEF Exact, ClientsExact
<1>3. clients' = Remove(clients, f) /\ fdOf' = [fdOf EXCEPT ![c] = Null]
  BY DEF eventcb
<1>4. /\ AtHome(Remove(clients, f))
      /\ Lookup(Remove(clients, f), f) = Null
      /\ \A fd \in Key \ {f} : Lookup(Remove(clients, f), fd) = Lookup(clients, fd)
  BY <1>1, <1>2, RemoveFound DEF Exact
<1> HIDE DEF f
<1>5. ASSUME NEW fd \in Fd, NEW d \in Conn
      PROVE  Lookup(clients', fd) = d <=> fdOf'[d] = fd
  <2>1. Lookup(clients, fd) = d <=> fdOf[d] = fd
    BY DEF Exact, ClientsExact
  <2>2. fd # Null
    BY FdFacts
  <2>3. CASE fd = f
    BY <1>1, <1>2, <1>3, <1>4, <2>1, <2>2, <2>3
  <2>4. CASE fd # f
    <3>1. Lookup(clients', fd) = Lookup(clients, fd)
      BY <1>3, <1>4, <2>4 DEF Fd
    <3>2. CASE d = c
      BY <1>1, <1>3, <2>1, <2>2, <2>4, <3>1, <3>2 DEF f
    <3>3. CASE d # c
      BY <1>1, <1>3, <2>1, <3>1, <3>3
    <3> QED BY <3>2, <3>3
  <2> QED BY <2>3, <2>4
<1> QED BY <1>3, <1>4, <1>5 DEF Exact, ClientsExact

LEMMA DieExact == Die => Exact'
<1> SUFFICES ASSUME Die PROVE Exact'
  OBVIOUS
<1>1. clients' = EmptyTable /\ fdOf' = [d \in Conn |-> Null]
  BY DEF Die
<1>2. \A fd \in Fd : Lookup(EmptyTable, fd) = Null
  BY EmptyTableAtHome DEF Fd
<1>3. Null \notin Conn /\ Null \notin Fd
  BY NullAssumption, FdFacts DEF Conn
<1>4. \A fd \in Fd, d \in Conn : Lookup(clients', fd) = d <=> fdOf'[d] = fd
  BY <1>1, <1>2, <1>3
<1> QED BY <1>1, <1>4, EmptyTableAtHome DEF Exact, ClientsExact

LEMMA ExactStep ==
  ASSUME NoCollision, Typed, Exact, [Next]_vars
  PROVE  Exact'
<1>1. CASE UNCHANGED <<clients, fdOf>>
  BY <1>1 DEF Exact, ClientsExact
<1>2. CASE Die
  BY <1>2, DieExact
<1>3. ASSUME NEW c \in Conn, Callback(c) PROVE Exact'
  BY <1>1, <1>2, <1>3, AcceptExact, EventcbExact
  DEF Callback, AcceptFails, readcb, readcbSegFaults, readcbHangs, eventcbHangs
<1>4. ASSUME NEW c \in Conn, Client(c) PROVE Exact'
  BY <1>1, <1>4 DEF Client, Send, SendText, Close
<1> QED BY <1>1, <1>2, <1>3, <1>4 DEF Next, vars, ServerStops, ServerStarts

LEMMA ExactCorrect ==
  ASSUME NoCollision
  PROVE  Spec => []Exact
<1>1. Init => Exact
  <2> SUFFICES ASSUME Init PROVE Exact
    OBVIOUS
  <2>1. clients = EmptyTable /\ \A d \in Conn : fdOf[d] = Null
    BY DEF Init
  <2>2. Null \notin Conn /\ Null \notin Fd
    BY NullAssumption, FdFacts DEF Conn
  <2> QED BY <2>1, <2>2, EmptyTableAtHome DEF Exact, ClientsExact, Fd
<1>2. Typed /\ Exact /\ [Next]_vars => Exact'
  BY ExactStep
<1> QED BY <1>1, <1>2, TypedCorrect, PTL DEF Spec

\* The table leads from a descriptor to the connection that has it, and to
\* nothing else: after any accepts, closes and restarts, as long as no two
\* descriptors share a slot.
THEOREM ClientsExactCorrect ==
  ASSUME NoCollision
  PROVE  Spec => []ClientsExact
<1>1. Exact => ClientsExact
  BY DEF Exact
<1> QED BY <1>1, ExactCorrect, PTL

(***************************************************************************)
(* Routing.  While the connection of a session is held, the sockfd that    *)
(* Redis has for the user is its descriptor; and a session belongs to a    *)
(* connection that has been accepted, so that no later accept takes it.    *)
(***************************************************************************)
Routed ==
  \A u \in User : session[u] # Null =>
    /\ status[session[u]] # "new"
    /\ Held(session[u]) => sockfd[u] = fdOf[session[u]]

LEMMA HandledRouted ==
  ASSUME Typed, Routed, NEW c \in Conn, Held(c), NEW m \in Message, Handled(c, m),
         UNCHANGED <<status, fdOf>>
  PROVE  Routed'
<1> USE DEF Typed
<1>1. CASE UNCHANGED <<sockfd, session>>
  BY <1>1 DEF Routed, Held
<1>2. ASSUME NEW u \in User,
             sockfd' = [sockfd EXCEPT ![u] = fdOf[c]], session' = [session EXCEPT ![u] = c]
      PROVE  Routed'
  <2>1. sockfd'[u] = fdOf[c] /\ session'[u] = c /\ status[c] # "new"
    BY <1>2 DEF TypeOK, Held
  <2>2. \A v \in User \ {u} : sockfd'[v] = sockfd[v] /\ session'[v] = session[v]
    BY <1>2 DEF TypeOK
  <2> QED BY <2>1, <2>2 DEF Routed, Held
<1>3. ASSUME NEW u \in User,
             sockfd' = [sockfd EXCEPT ![u] = Offline], session' = [session EXCEPT ![u] = Null]
      PROVE  Routed'
  <2>1. session'[u] = Null
    BY <1>3 DEF TypeOK
  <2>2. \A v \in User \ {u} : sockfd'[v] = sockfd[v] /\ session'[v] = session[v]
    BY <1>3 DEF TypeOK
  <2> QED BY <2>1, <2>2 DEF Routed, Held
<1> QED
  BY <1>1, <1>2, <1>3, MessageKinds
  DEF Handled, handleRegister, handleLogin, handleLogout, handleChat, chatReachesNoOne,
      handleOther, redis

LEMMA RoutedStep ==
  ASSUME Typed, Routed, [Next]_vars
  PROVE  Routed'
<1> USE DEF Typed
<1>1. CASE UNCHANGED <<status, fdOf, sockfd, session>>
  BY <1>1 DEF Routed, Held
<1>2. CASE Die
  <2>1. \A c \in Conn : ~ Held(c)' /\ (status[c] # "new" => status'[c] # "new")
    BY <1>2 DEF Die, Held
  <2> QED BY <1>2, <2>1 DEF Die, Routed, TypeOK
<1>3. ASSUME NEW c \in Conn, Accept(c) PROVE Routed'
  <2>1. status[c] = "new" /\ UNCHANGED <<sockfd, session>>
    BY <1>3 DEF Accept, redis
  <2>2. \A d \in Conn \ {c} : status'[d] = status[d] /\ fdOf'[d] = fdOf[d]
    BY <1>3 DEF Accept, TypeOK
  <2> QED BY <2>1, <2>2 DEF Routed, Held, TypeOK
<1>4. ASSUME NEW c \in Conn, readcb(c) PROVE Routed'
  BY <1>4, FirstMessage, HandledRouted DEF readcb, Handled
<1>5. ASSUME NEW c \in Conn, eventcb(c) PROVE Routed'
  <2>1. status'[c] = "closed" /\ UNCHANGED <<sockfd, session>>
    BY <1>5 DEF eventcb, redis, TypeOK
  <2>2. \A d \in Conn \ {c} : status'[d] = status[d] /\ fdOf'[d] = fdOf[d]
    BY <1>5 DEF eventcb, TypeOK
  <2> QED BY <2>1, <2>2 DEF Routed, Held, TypeOK
<1>6. ASSUME NEW c \in Conn, Close(c) PROVE Routed'
  BY <1>6 DEF Close, redis, Routed, Held, TypeOK
<1>7. ASSUME NEW c \in Conn, Callback(c) \/ Client(c) PROVE Routed'
  BY <1>1, <1>2, <1>3, <1>4, <1>5, <1>6, <1>7
  DEF Callback, Client, AcceptFails, readcbSegFaults, readcbHangs, eventcbHangs, Send,
      SendText, redis, ChatBreaksOff
<1> QED BY <1>1, <1>2, <1>7 DEF Next, vars, redis, ServerStops, ServerStarts

LEMMA RoutedReachable ==
  ASSUME Typed, ClientsExact, Routed
  PROVE  OnlineReachable
<1> SUFFICES ASSUME NEW u \in User, session[u] # Null, Held(session[u])
             PROVE  sockfd[u] > 0 /\ Target(u) = session[u]
  BY DEF OnlineReachable
<1>1. session[u] \in Conn /\ sockfd[u] = fdOf[session[u]]
  BY DEF Typed, TypeOK, Routed
<1>2. fdOf[session[u]] \in Fd
  BY <1>1 DEF Typed, TypeOK, HeldHasFd
<1>3. Lookup(clients, fdOf[session[u]]) = session[u]
  BY <1>1, <1>2 DEF ClientsExact
<1>4. fdOf[session[u]] > 0
  <2> DEFINE fd == fdOf[session[u]]
  <2> SUFFICES fd > 0
    OBVIOUS
  <2>1. fd \in Fd
    BY <1>2
  <2> HIDE DEF fd
  <2>2. fd \in Nat \ {0}
    BY <2>1, FdAssumption
  <2> QED BY <2>2
<1>5. Target(u) = session[u]
  BY <1>1, <1>3 DEF Target
<1> QED BY <1>1, <1>4, <1>5

LEMMA InitRouted == Init => Routed
  BY DEF Init, Routed

LEMMA RoutedCorrect == Spec => []Routed
<1>1. Typed /\ Routed /\ [Next]_vars => Routed'
  BY RoutedStep
<1> QED BY <1>1, InitRouted, TypedCorrect, PTL DEF Spec

\* A user who logged in on a connection that is still held, and did not log
\* out, is routed to that connection and no other: whatever connections came
\* and went, whoever logged in, and whatever Redis failed to do, since.
THEOREM OnlineReachableCorrect ==
  ASSUME NoCollision
  PROVE  Spec => []OnlineReachable
<1>1. Typed /\ ClientsExact /\ Routed => OnlineReachable
  BY RoutedReachable
<1> QED BY <1>1, TypedCorrect, RoutedCorrect, ClientsExactCorrect, PTL

-----------------------------------------------------------------------------
(***************************************************************************)
(* Delivery.  A step that saves a message and leaves the server running is *)
(* a broadcast, and it writes to everyone who is routed to.                *)
(***************************************************************************)
LEMMA NothingAdded == \A S : \A q \in Seq(S) : Added(q, q) = {}
<1> SUFFICES ASSUME NEW S, NEW q \in Seq(S) PROVE Added(q, q) = {}
  OBVIOUS
<1>1. Len(q) \in Nat /\ Len(q) + 1 .. Len(q) = {}
  OBVIOUS
<1> QED BY <1>1 DEF Added

LEMMA CopiesAdded ==
  ASSUME NEW S, NEW q \in Seq(S), NEW m \in S, NEW n \in Nat
  PROVE  /\ \A x \in Added(q, q \o Copies(m, n)) : x = m
         /\ n > 0 => m \in Added(q, q \o Copies(m, n))
<1> DEFINE r == Copies(m, n)
<1>1. r \in Seq(S) /\ Len(r) = n /\ \A i \in 1 .. n : r[i] = m
  BY CopiesOf
<1> HIDE DEF r
<1>2. Len(q \o r) = Len(q) + n /\ Len(q) \in Nat
  BY <1>1, ConcatProperties, LenProperties
<1>3. ASSUME NEW i \in Len(q) + 1 .. Len(q \o r) PROVE (q \o r)[i] = m
  <2>1. i \in 1 .. Len(q \o r) /\ ~ (i <= Len(q)) /\ i - Len(q) \in 1 .. n
    BY <1>2
  <2> QED BY <1>1, <2>1, ConcatProperties
<1>4. n > 0 => Len(q) + 1 \in Len(q) + 1 .. Len(q \o r)
  BY <1>2
<1> QED BY <1>3, <1>4 DEF Added, r

LEMMA ChatReaches ==
  ASSUME Typed, ClientsExact, Routed, NEW c \in Conn, NEW m \in Text, NEW a \in Memory(m.room),
         Broadcast(c, m, a), NEW u \in members[m.room],
         session[u] \notin {Null, c}, Held(session[u])
  PROVE  m \in Added(written[session[u]], written'[session[u]])
<1> DEFINE s == session[u]
           k == Cardinality({v \in Online(m.room) : Reached(v, a) = s})
<1>1. m.room \in Room /\ u \in User
  BY MembersAssumption DEF Text
<1>2. s \in Conn \ {c}
  BY <1>1 DEF Typed, TypeOK
<1>3. sockfd[u] = fdOf[s] /\ fdOf[s] \in Fd
  BY <1>1, <1>2 DEF Routed, Typed, TypeOK, HeldHasFd
<1>4. u \in Online(m.room) /\ Target(u) = s
  BY <1>1, <1>2, <1>3, FdFacts DEF Online, Target, ClientsExact
<1>5. s \notin DOMAIN a
  BY DEF Memory, Freed
<1>6. Reached(u, a) = s
  BY <1>4, <1>5 DEF Reached
<1>7. k \in Nat /\ k > 0
  <2> DEFINE T == {v \in Online(m.room) : Reached(v, a) = s}
  <2>1. u \in T /\ T \subseteq User
    BY <1>1, <1>4, <1>6, MembersAssumption DEF Online
  <2>2. IsFiniteSet(T)
    BY <2>1, UserAssumption, FS_Subset
  <2>3. Cardinality(T) \in Nat /\ Cardinality(T) # 0
    BY <2>1, <2>2, FS_CardinalityType, FS_EmptySet
  <2> QED BY <2>3
<1>8. written'[s] = written[s] \o Copies(m, k) /\ written[s] \in Seq(Text \cup Reply)
  BY <1>2 DEF Broadcast, Typed, TypeOK
<1> HIDE DEF k, s
<1>9. m \in Added(written[s], written[s] \o Copies(m, k))
  <2> DEFINE q == written[s]
  <2>1. q \in Seq(Text \cup Reply) /\ m \in Text \cup Reply
    BY <1>8
  <2> HIDE DEF q
  <2>2. m \in Added(q, q \o Copies(m, k))
    BY <1>7, <2>1, CopiesAdded
  <2> QED BY <2>2 DEF q
<1> QED BY <1>8, <1>9 DEF s

LEMMA ReachesStep ==
  ASSUME Typed, OwnMessages, ClientsExact, Routed, [Next]_vars,
         NEW g \in Room, NEW m \in Added(saved[g], saved'[g]), NEW u \in members[g],
         proc' = "up", session[u] \notin {Null, m.from}, Held(session[u])
  PROVE  m \in Added(written[session[u]], written'[session[u]])
<1>1. saved[g] \in Seq(Text)
  BY DEF Typed, TypeOK
<1>2. saved'[g] # saved[g]
  BY <1>1, NothingAdded
<1>3. PICK c \in Conn : readcb(c)
  BY <1>2
  DEF Next, vars, redis, ServerStops, ServerStarts, Callback, Client, Accept, AcceptFails,
      Die, readcbSegFaults, readcbHangs, eventcb, eventcbHangs, Send, SendText, Close
<1> DEFINE m0 == Head(toServer[c])
<1>4. m0 \in Message /\ OwnText(c, m0) /\ Handled(c, m0)
  BY <1>3, FirstMessage, FirstIsOwn DEF readcb, Handled, Typed
<1> HIDE DEF m0
<1>5. handleChat(c, m0)
  BY <1>2, <1>4
  DEF Handled, handleRegister, handleLogin, handleLogout, chatReachesNoOne, handleOther, redis
<1>6. m0 \in Text /\ m0.from = c
  BY <1>4, <1>5, MessageKinds DEF handleChat, OwnText
<1>7. PICK a \in Memory(m0.room) :
        /\ Broadcast(c, m0, a)
        /\ \E n \in 0 .. Cardinality(Receivers(c, m0.room, a)) : SaveCopies(m0, n)
  BY <1>5 DEF handleChat
<1>8. PICK n \in Nat : SaveCopies(m0, n)
  <2>1. Cardinality(Receivers(c, m0.room, a)) \in Nat
    BY <1>6, MembersFinite DEF Text, Receivers
  <2> QED BY <1>7, <2>1
<1>9. g = m0.room /\ m = m0
  <2>1. g = m0.room
    BY <1>2, <1>6, <1>8 DEF SaveCopies, Text, Typed, TypeOK
  <2>2. saved'[g] = saved[g] \o Copies(m0, n)
    BY <1>6, <1>8, <2>1 DEF SaveCopies, Typed, TypeOK
  <2> QED BY <1>1, <1>6, <2>1, <2>2, CopiesAdded
<1> QED BY <1>6, <1>7, <1>9, ChatReaches

\* When a message is saved for a room, every member who is logged in on a
\* connection that is held, other than the one it came from, is sent it by
\* the same callback.
THEOREM ReachesMembersCorrect ==
  ASSUME NoCollision
  PROVE  Spec => ReachesMembers
<1>1. Typed /\ OwnMessages /\ ClientsExact /\ Routed /\ [Next]_vars =>
        \A g \in Room : \A m \in Added(saved[g], saved'[g]) : \A u \in members[g] :
          proc' = "up" /\ session[u] \notin {Null, m.from} /\ Held(session[u])
            => m \in Added(written[session[u]], written'[session[u]])
  BY ReachesStep
<1> QED
  BY <1>1, TypedCorrect, OwnMessagesCorrect, ClientsExactCorrect, RoutedCorrect, PTL
  DEF Spec, ReachesMembers
=============================================================================
