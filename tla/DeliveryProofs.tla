--------------------------- MODULE DeliveryProofs ---------------------------
(***************************************************************************)
(* Theorems about what ChatServer delivers: in which order, that it is in  *)
(* the history of the room, and that the order is one for all.  They hold  *)
(* of any table of clients, crowded or not, and of stale descriptors.      *)
(***************************************************************************)
EXTENDS ChatServerProofs

-----------------------------------------------------------------------------
(***************************************************************************)
(* Order.  What a callback adds to what has been written is the message it *)
(* handles, and a reply is no chat message.                                *)
(***************************************************************************)
LEMMA Concatenated ==
  ASSUME NEW S, NEW q \in Seq(S), NEW x \in S, NEW n \in Nat
  PROVE  /\ Len(q \o Copies(x, n)) = Len(q) + n /\ Len(q) \in Nat
         /\ \A i \in 1 .. Len(q) + n :
              (q \o Copies(x, n))[i] = IF i <= Len(q) THEN q[i] ELSE x
<1> DEFINE r == Copies(x, n)
<1>1. r \in Seq(S) /\ Len(r) = n /\ \A i \in 1 .. n : r[i] = x
  BY CopiesOf
<1> HIDE DEF r
<1>2. Len(q \o r) = Len(q) + n /\ Len(q) \in Nat
  BY <1>1, ConcatProperties, LenProperties
<1>3. ASSUME NEW i \in 1 .. Len(q) + n
      PROVE  (q \o r)[i] = IF i <= Len(q) THEN q[i] ELSE x
  <2>1. (q \o r)[i] = IF i <= Len(q) THEN q[i] ELSE r[i - Len(q)]
    BY <1>1, <1>2, ConcatProperties
  <2>2. ~ (i <= Len(q)) => i - Len(q) \in 1 .. n
    BY <1>2
  <2> QED BY <1>1, <2>1, <2>2
<1> QED BY <1>2, <1>3 DEF r

\* A callback for c has written m to others than c, and replies.
WritesOnly(c, m) ==
  \A d \in Conn :
    /\ Len(written[d]) \in Nat /\ Len(written'[d]) \in Nat
    /\ \A i \in 1 .. Len(written'[d]) :
         \/ i \in 1 .. Len(written[d]) /\ written'[d][i] = written[d][i]
         \/ i > Len(written[d]) /\ written'[d][i].type # "TEXT"
         \/ /\ i > Len(written[d]) /\ d # c /\ m \in Text /\ written'[d][i] = m
            /\ handleChat(c, m)

LEMMA RespondWrites ==
  ASSUME TypeOK, NEW c \in Conn, NEW m \in Message, NEW ok \in BOOLEAN,
         m.type \in {"REGISTER", "LOGIN", "LOGOUT"}, Respond(c, m, ok)
  PROVE  WritesOnly(c, m)
<1> DEFINE r == [type |-> m.type, user |-> m.user, ok |-> ok]
           q == written[c]
<1>1. \A d \in Conn : written[d] \in Seq(Text \cup Reply) /\ Len(written[d]) \in Nat
  BY DEF TypeOK
<1>2. written'[c] = Append(q, r) /\ \A d \in Conn \ {c} : written'[d] = written[d]
  BY DEF Respond, TypeOK
<1>3. /\ Len(Append(q, r)) = Len(q) + 1 /\ Len(q) \in Nat
      /\ Append(q, r)[Len(q) + 1] = r
      /\ \A i \in 1 .. Len(q) : Append(q, r)[i] = q[i]
  BY <1>1
<1>4. r.type # "TEXT"
  OBVIOUS
<1> HIDE DEF r
<1>5. /\ Len(written'[c]) \in Nat
      /\ \A i \in 1 .. Len(written'[c]) :
           \/ i \in 1 .. Len(q) /\ written'[c][i] = q[i]
           \/ i > Len(q) /\ written'[c][i].type # "TEXT"
  BY <1>2, <1>3, <1>4
<1> QED BY <1>1, <1>2, <1>5 DEF WritesOnly

LEMMA BroadcastWrites ==
  ASSUME TypeOK, NEW c \in Conn, NEW m \in Text, handleChat(c, m)
  PROVE  WritesOnly(c, m)
<1> SUFFICES ASSUME NEW d \in Conn
             PROVE  /\ Len(written[d]) \in Nat /\ Len(written'[d]) \in Nat
                    /\ \A i \in 1 .. Len(written'[d]) :
                         \/ i \in 1 .. Len(written[d]) /\ written'[d][i] = written[d][i]
                         \/ i > Len(written[d]) /\ d # c /\ written'[d][i] = m
  BY DEF WritesOnly
<1>1. PICK a \in Memory(m.room) : Broadcast(c, m, a)
  BY DEF handleChat
<1> DEFINE k == Cardinality({u \in Online(m.room) : Reached(u, a) = d})
           q == written[d]
<1>2. k \in Nat
  BY MembersFinite DEF Text
<1>3. written'[d] = IF d = c THEN q ELSE q \o Copies(m, k)
  BY <1>1 DEF Broadcast
<1>4. q \in Seq(Text \cup Reply) /\ m \in Text \cup Reply /\ Len(q) \in Nat
  BY DEF TypeOK
<1> HIDE DEF k, q
<1>5. /\ Len(q \o Copies(m, k)) = Len(q) + k
      /\ \A i \in 1 .. Len(q) + k :
           (q \o Copies(m, k))[i] = IF i <= Len(q) THEN q[i] ELSE m
  BY <1>2, <1>4, Concatenated
<1>6. /\ Len(q) \in Nat /\ Len(written'[d]) \in Nat
      /\ \A i \in 1 .. Len(written'[d]) :
           \/ i \in 1 .. Len(q) /\ written'[d][i] = q[i]
           \/ i > Len(q) /\ d # c /\ written'[d][i] = m
  BY <1>2, <1>3, <1>4, <1>5
<1> QED BY <1>6 DEF q

LEMMA ReadcbWrites ==
  ASSUME TypeOK, NEW c \in Conn, NEW m \in Message, Handled(c, m)
  PROVE  WritesOnly(c, m)
<1>1. CASE handleRegister(c, m) \/ handleLogin(c, m) \/ handleLogout(c, m)
  BY <1>1, RespondWrites DEF handleRegister, handleLogin, handleLogout
<1>2. CASE handleChat(c, m)
  BY <1>2, MessageKinds, BroadcastWrites DEF handleChat
<1>3. CASE UNCHANGED written
  <2>1. \A d \in Conn : Len(written[d]) \in Nat
    BY DEF TypeOK
  <2> QED BY <1>3, <2>1 DEF WritesOnly
<1> QED BY <1>1, <1>2, <1>3 DEF Handled, chatReachesNoOne, handleOther

\* Steps that are no callback of readcb write nothing.
LEMMA OnlyReadcbWrites ==
  ASSUME [Next]_vars, \A c \in Conn : ~ readcb(c)
  PROVE  UNCHANGED written
  BY DEF Next, vars, ServerStops, ServerStarts, Callback, Client, Accept, AcceptFails, Die,
     readcbSegFaults, readcbHangs, eventcb, eventcbHangs, Send, SendText, Close

(***************************************************************************)
(* What waits in toServer[c] is newer the later it was sent, and newer     *)
(* than all that has been written of c.                                    *)
(***************************************************************************)
IsText(m) == m.type = "TEXT"

WaitingOrdered ==
  \A c \in Conn : \A i \in 1 .. Len(toServer[c]) : IsText(toServer[c][i]) =>
    /\ toServer[c][i].id \in 1 .. sent
    /\ \A j \in 1 .. Len(toServer[c]) :
         i < j /\ IsText(toServer[c][j]) => toServer[c][i].id < toServer[c][j].id

WrittenBefore ==
  \A d \in Conn : \A i \in 1 .. Len(written[d]) : IsText(written[d][i]) =>
    /\ written[d][i].id \in 1 .. sent
    /\ written[d][i].from \in Conn
    /\ \A j \in 1 .. Len(toServer[written[d][i].from]) :
         IsText(toServer[written[d][i].from][j])
           => written[d][i].id < toServer[written[d][i].from][j].id

\* SenderOrder over positions that are known to be 1 .. Len.
InOrder ==
  \A d \in Conn : \A i, j \in 1 .. Len(written[d]) :
    /\ IsText(written[d][i]) /\ IsText(written[d][j])
    /\ i < j /\ written[d][i].from = written[d][j].from
    => written[d][i].id <= written[d][j].id

Ordered == WaitingOrdered /\ WrittenBefore /\ InOrder

LEMMA InOrderSuffices ==
  ASSUME TypeOK, InOrder
  PROVE  SenderOrder
<1>1. \A c \in Conn : DOMAIN written[c] = 1 .. Len(written[c])
  BY LenProperties DEF TypeOK
<1> QED BY <1>1 DEF InOrder, SenderOrder, TextsTo, TextsIn, IsText

\* What waits after a step that sends nothing waited before it, in the same order.
Advances ==
  \A c \in Conn : \E n \in Nat :
    /\ Len(toServer'[c]) \in Nat /\ Len(toServer'[c]) + n <= Len(toServer[c])
    /\ \A i \in 1 .. Len(toServer'[c]) : toServer'[c][i] = toServer[c][n + i]

LEMMA AdvancesKeeps ==
  ASSUME TypeOK, Ordered, Advances, UNCHANGED sent
  PROVE  /\ WaitingOrdered'
         /\ \A c \in Conn : \A x \in Int :
              (\A j \in 1 .. Len(toServer[c]) : IsText(toServer[c][j]) => x < toServer[c][j].id)
              => (\A j \in 1 .. Len(toServer'[c]) :
                    IsText(toServer'[c][j]) => x < toServer'[c][j].id)
<1> SUFFICES ASSUME NEW c \in Conn
             PROVE  /\ \A i \in 1 .. Len(toServer'[c]) : IsText(toServer'[c][i]) =>
                         /\ toServer'[c][i].id \in 1 .. sent
                         /\ \A j \in 1 .. Len(toServer'[c]) :
                              i < j /\ IsText(toServer'[c][j])
                                => toServer'[c][i].id < toServer'[c][j].id
                    /\ \A x \in Int :
                         (\A j \in 1 .. Len(toServer[c]) :
                            IsText(toServer[c][j]) => x < toServer[c][j].id)
                         => (\A j \in 1 .. Len(toServer'[c]) :
                               IsText(toServer'[c][j]) => x < toServer'[c][j].id)
  BY DEF WaitingOrdered, IsText
<1>1. PICK n \in Nat :
        /\ Len(toServer'[c]) \in Nat /\ Len(toServer'[c]) + n <= Len(toServer[c])
        /\ \A i \in 1 .. Len(toServer'[c]) : toServer'[c][i] = toServer[c][n + i]
  BY DEF Advances
<1>2. Len(toServer[c]) \in Nat
  BY DEF TypeOK
<1>3. \A i \in 1 .. Len(toServer'[c]) : n + i \in 1 .. Len(toServer[c])
  BY <1>1, <1>2
<1>4. \A i, j \in 1 .. Len(toServer'[c]) : i < j => n + i < n + j
  BY <1>1
<1> QED BY <1>1, <1>3, <1>4 DEF Ordered, WaitingOrdered

LEMMA QueueEmptied ==
  ASSUME TypeOK, NEW c \in Conn, toServer'[c] = <<>>
  PROVE  /\ Len(toServer'[c]) \in Nat /\ Len(toServer'[c]) + 0 <= Len(toServer[c])
         /\ \A i \in 1 .. Len(toServer'[c]) : toServer'[c][i] = toServer[c][0 + i]
<1>1. Len(toServer'[c]) = 0 /\ Len(toServer[c]) \in Nat
  BY EmptySeq DEF TypeOK
<1> QED BY <1>1

LEMMA QueueKept ==
  ASSUME TypeOK, NEW c \in Conn, toServer'[c] = toServer[c]
  PROVE  /\ Len(toServer'[c]) \in Nat /\ Len(toServer'[c]) + 0 <= Len(toServer[c])
         /\ \A i \in 1 .. Len(toServer'[c]) : toServer'[c][i] = toServer[c][0 + i]
<1>1. Len(toServer[c]) \in Nat
  BY DEF TypeOK
<1> QED BY <1>1

\* readcb consumes one message at least.
LEMMA ConsumeAdvances ==
  ASSUME TypeOK, NEW c \in Conn, toServer[c] # <<>>, Consume(c)
  PROVE  \E n \in Nat \ {0} :
           /\ Len(toServer'[c]) \in Nat /\ Len(toServer'[c]) + n <= Len(toServer[c])
           /\ \A i \in 1 .. Len(toServer'[c]) : toServer'[c][i] = toServer[c][n + i]
<1>1. PICK n \in 1 .. Len(toServer[c]) :
        toServer' = [toServer EXCEPT ![c] = SubSeq(@, n + 1, Len(@))]
  BY DEF Consume
<1> DEFINE q == toServer[c]
           r == SubSeq(q, n + 1, Len(q))
<1>2. q \in Seq(Message) /\ Len(q) \in Nat
  BY FirstMessage DEF TypeOK
<1>3. \A i \in n + 1 .. Len(q) : q[i] \in Message
  BY <1>2, ElementOfSeq
<1>4. /\ Len(r) = IF n + 1 <= Len(q) THEN Len(q) - n ELSE 0
      /\ \A i \in 1 .. Len(q) - n : r[i] = q[n + i]
  <2> HIDE DEF q
  <2> QED BY <1>2, <1>3, SubSeqProperties
<1>5. toServer'[c] = r /\ n \in Nat \ {0} /\ n <= Len(q)
  BY <1>1, <1>2 DEF TypeOK
<1> HIDE DEF r
<1>6. Len(r) \in Nat /\ Len(r) + n <= Len(q) /\ \A i \in 1 .. Len(r) : i \in 1 .. Len(q) - n
  BY <1>2, <1>4, <1>5
<1> QED BY <1>4, <1>5, <1>6

LEMMA HeadIsFirst ==
  ASSUME TypeOK, NEW c \in Conn, toServer[c] # <<>>
  PROVE  Head(toServer[c]) = toServer[c][1] /\ 1 \in 1 .. Len(toServer[c])
<1>1. toServer[c] \in Seq(Message) /\ Len(toServer[c]) \in Nat \ {0}
  BY FirstMessage DEF TypeOK
<1> QED BY <1>1

\* A step that writes nothing and does not send.
LEMMA OrderKept ==
  ASSUME TypeOK, Ordered, Advances, UNCHANGED <<sent, written>>
  PROVE  Ordered'
<1>1. WaitingOrdered'
  BY AdvancesKeeps
<1>2. sent \in Int
  BY BoundAssumption DEF TypeOK
<1>3. ASSUME NEW d \in Conn, NEW i \in 1 .. Len(written[d]), IsText(written[d][i])
      PROVE  \A j \in 1 .. Len(toServer'[written[d][i].from]) :
               IsText(toServer'[written[d][i].from][j])
                 => written[d][i].id < toServer'[written[d][i].from][j].id
  <2> DEFINE f == written[d][i].from
             x == written[d][i].id
  <2>1. f \in Conn /\ x \in Int
    BY <1>2, <1>3 DEF Ordered, WrittenBefore
  <2>2. \A j \in 1 .. Len(toServer[f]) : IsText(toServer[f][j]) => x < toServer[f][j].id
    BY <1>3 DEF Ordered, WrittenBefore
  <2> HIDE DEF f, x
  <2>3. \A j \in 1 .. Len(toServer'[f]) : IsText(toServer'[f][j]) => x < toServer'[f][j].id
    BY <2>1, <2>2, AdvancesKeeps
  <2> QED BY <2>3 DEF f, x
<1>4. WrittenBefore'
  BY <1>3 DEF Ordered, WrittenBefore, IsText
<1>5. InOrder'
  BY DEF Ordered, InOrder, IsText
<1> QED BY <1>1, <1>4, <1>5 DEF Ordered

\* What waits after a message has been handled is newer than it.
LEMMA ReadcbAdvances ==
  ASSUME TypeOK, OwnMessages, Ordered, NEW c \in Conn, readcb(c)
  PROVE  /\ Advances
         /\ IsText(Head(toServer[c])) =>
              /\ Head(toServer[c]).id \in 1 .. sent
              /\ Head(toServer[c]).from = c
              /\ \A j \in 1 .. Len(toServer'[c]) :
                   IsText(toServer'[c][j]) => Head(toServer[c]).id < toServer'[c][j].id
<1> DEFINE m == Head(toServer[c])
<1>1. m \in Message /\ OwnText(c, m) /\ toServer[c] # <<>>
  BY FirstMessage, FirstIsOwn DEF readcb
<1>2. m = toServer[c][1] /\ 1 \in 1 .. Len(toServer[c])
  BY <1>1, HeadIsFirst
<1> HIDE DEF m
<1>3. PICK n \in Nat \ {0} :
        /\ Len(toServer'[c]) \in Nat /\ Len(toServer'[c]) + n <= Len(toServer[c])
        /\ \A i \in 1 .. Len(toServer'[c]) : toServer'[c][i] = toServer[c][n + i]
  BY <1>1, ConsumeAdvances DEF readcb
<1>4. \A d \in Conn \ {c} : toServer'[d] = toServer[d]
  BY DEF readcb, Consume, TypeOK
<1>5. Advances
  <2>1. \A d \in Conn \ {c} :
          /\ Len(toServer'[d]) \in Nat /\ Len(toServer'[d]) + 0 <= Len(toServer[d])
          /\ \A i \in 1 .. Len(toServer'[d]) : toServer'[d][i] = toServer[d][0 + i]
    BY <1>4, QueueKept
  <2>2. n \in Nat /\ 0 \in Nat
    OBVIOUS
  <2> QED BY <1>3, <2>1, <2>2 DEF Advances
<1>6. IsText(m) => /\ m.id \in 1 .. sent
                   /\ m.from = c
                   /\ \A j \in 1 .. Len(toServer'[c]) :
                        IsText(toServer'[c][j]) => m.id < toServer'[c][j].id
  <2>1. \A j \in 1 .. Len(toServer'[c]) : n + j \in 1 .. Len(toServer[c]) /\ 1 < n + j
    <3>1. Len(toServer[c]) \in Nat
      BY DEF TypeOK
    <3> QED BY <1>3, <3>1
  <2> QED BY <1>1, <1>2, <1>3, <2>1 DEF Ordered, WaitingOrdered, OwnText, IsText
<1> QED BY <1>5, <1>6 DEF m

LEMMA ReadcbOrdered ==
  ASSUME TypeOK, OwnMessages, Ordered, NEW c \in Conn, readcb(c)
  PROVE  Ordered'
<1> DEFINE m == Head(toServer[c])
<1>1. sent \in Int /\ sent' = sent /\ \A d \in Conn : Len(written[d]) \in Nat
  BY BoundAssumption DEF readcb, TypeOK
<1>2. m \in Message /\ toServer[c] # <<>> /\ Handled(c, m)
  BY FirstMessage DEF readcb, Handled
<1>3. m = toServer[c][1] /\ 1 \in 1 .. Len(toServer[c])
  BY <1>2, HeadIsFirst
<1>4. Advances
  BY ReadcbAdvances
<1>5. IsText(m) => /\ m.id \in 1 .. sent
                   /\ m.from = c
                   /\ \A j \in 1 .. Len(toServer'[c]) :
                        IsText(toServer'[c][j]) => m.id < toServer'[c][j].id
  BY ReadcbAdvances
<1> HIDE DEF m
<1>6. WritesOnly(c, m)
  BY <1>2, ReadcbWrites
<1>7. WaitingOrdered'
  BY <1>1, <1>4, AdvancesKeeps
\* The texts that have been written: old ones, and copies of m.
<1>8. ASSUME NEW d \in Conn, NEW i \in 1 .. Len(written'[d]), IsText(written'[d][i])
      PROVE  \/ i \in 1 .. Len(written[d]) /\ written'[d][i] = written[d][i]
             \/ i > Len(written[d]) /\ IsText(m) /\ written'[d][i] = m
  BY <1>6, <1>8 DEF WritesOnly, IsText
<1>9. WrittenBefore'
  <2> SUFFICES ASSUME NEW d \in Conn, NEW i \in 1 .. Len(written'[d]), IsText(written'[d][i])
               PROVE  /\ written'[d][i].id \in 1 .. sent
                      /\ written'[d][i].from \in Conn
                      /\ \A j \in 1 .. Len(toServer'[written'[d][i].from]) :
                           IsText(toServer'[written'[d][i].from][j])
                             => written'[d][i].id < toServer'[written'[d][i].from][j].id
    BY <1>1 DEF WrittenBefore, IsText
  <2>1. CASE IsText(m) /\ written'[d][i] = m
    BY <1>5, <2>1
  <2>2. CASE i \in 1 .. Len(written[d]) /\ written'[d][i] = written[d][i]
    <3> DEFINE f == written[d][i].from
               x == written[d][i].id
    <3>0. IsText(written[d][i])
      BY <2>2
    <3>1. f \in Conn /\ x \in 1 .. sent
      BY <2>2, <3>0 DEF Ordered, WrittenBefore
    <3>2. \A j \in 1 .. Len(toServer[f]) : IsText(toServer[f][j]) => x < toServer[f][j].id
      BY <2>2 DEF Ordered, WrittenBefore
    <3> HIDE DEF f, x
    <3>3. x \in Int
      BY <1>1, <3>1
    <3>4. \A j \in 1 .. Len(toServer'[f]) : IsText(toServer'[f][j]) => x < toServer'[f][j].id
      BY <1>1, <1>4, <3>1, <3>2, <3>3, AdvancesKeeps
    <3> QED BY <2>2, <3>1, <3>4 DEF f, x
  <2> QED BY <1>8, <2>1, <2>2
<1>10. InOrder'
  <2> SUFFICES ASSUME NEW d \in Conn,
                      NEW i \in 1 .. Len(written'[d]), NEW j \in 1 .. Len(written'[d]),
                      IsText(written'[d][i]), IsText(written'[d][j]), i < j,
                      written'[d][i].from = written'[d][j].from
               PROVE  written'[d][i].id <= written'[d][j].id
    BY DEF InOrder, IsText
  <2>1. CASE j \in 1 .. Len(written[d]) /\ written'[d][j] = written[d][j]
    <3>1. i \in 1 .. Len(written[d]) /\ written'[d][i] = written[d][i]
      BY <1>1, <1>8, <2>1
    <3> QED BY <2>1, <3>1 DEF Ordered, InOrder
  <2>2. CASE IsText(m) /\ written'[d][j] = m
    <3>1. CASE written'[d][i] = m
      BY <1>1, <1>5, <2>2, <3>1
    <3>2. CASE i \in 1 .. Len(written[d]) /\ written'[d][i] = written[d][i]
      <4>1. written[d][i].from = c
        BY <1>5, <2>2, <3>2
      <4>2. written[d][i].id < toServer[c][1].id /\ written[d][i].id \in 1 .. sent
        BY <1>3, <2>2, <3>2, <4>1 DEF Ordered, WrittenBefore
      <4> QED BY <1>1, <1>3, <1>5, <2>2, <3>2, <4>2
    <3> QED BY <1>8, <3>1, <3>2
  <2> QED BY <1>8, <2>1, <2>2
<1> QED BY <1>7, <1>9, <1>10 DEF Ordered

\* What waits at j in a queue waited there, or is the message sent.
LEMMA SentWaits ==
  ASSUME TypeOK, NEW c \in Conn, NEW m \in Message, Send(c, m),
         NEW d \in Conn, NEW j \in 1 .. Len(toServer'[d])
  PROVE  \/ j \in 1 .. Len(toServer[d]) /\ toServer'[d][j] = toServer[d][j]
         \/ d = c /\ j = Len(toServer[c]) + 1 /\ toServer'[d][j] = m
<1> DEFINE q == toServer[c]
<1>1. q \in Seq(Message) /\ Len(q) \in Nat
  BY DEF TypeOK
<1>2. toServer'[c] = Append(q, m) /\ \A e \in Conn \ {c} : toServer'[e] = toServer[e]
  BY DEF Send, TypeOK
<1>3. /\ Len(Append(q, m)) = Len(q) + 1
      /\ Append(q, m)[Len(q) + 1] = m
      /\ \A i \in 1 .. Len(q) : Append(q, m)[i] = q[i]
  BY <1>1
<1>4. CASE d = c
  BY <1>1, <1>2, <1>3, <1>4
<1>5. CASE d # c
  BY <1>2, <1>5
<1> QED BY <1>4, <1>5

LEMMA SendOrdered ==
  ASSUME TypeOK, Ordered, NEW c \in Conn, NEW m \in Message, Send(c, m),
         IsText(m) => m.id = sent + 1
  PROVE  Ordered'
<1> DEFINE q == toServer[c]
<1>0. sent \in Nat /\ sent' = sent + 1 /\ UNCHANGED written
  BY BoundAssumption DEF Send, TypeOK
<1>1. q \in Seq(Message) /\ Len(q) \in Nat
  BY DEF TypeOK
<1>2. toServer'[c] = Append(q, m) /\ \A d \in Conn \ {c} : toServer'[d] = toServer[d]
  BY DEF Send, TypeOK
<1>3. /\ Len(Append(q, m)) = Len(q) + 1
      /\ Append(q, m)[Len(q) + 1] = m
      /\ \A i \in 1 .. Len(q) : Append(q, m)[i] = q[i]
  BY <1>1
<1>4. ASSUME NEW d \in Conn, NEW j \in 1 .. Len(toServer'[d])
      PROVE  \/ j \in 1 .. Len(toServer[d]) /\ toServer'[d][j] = toServer[d][j]
             \/ d = c /\ j = Len(q) + 1 /\ toServer'[d][j] = m
  BY SentWaits
<1>5. WaitingOrdered'
  <2> SUFFICES ASSUME NEW d \in Conn, NEW i \in 1 .. Len(toServer'[d]), IsText(toServer'[d][i])
               PROVE  /\ toServer'[d][i].id \in 1 .. sent'
                      /\ \A j \in 1 .. Len(toServer'[d]) :
                           i < j /\ IsText(toServer'[d][j])
                             => toServer'[d][i].id < toServer'[d][j].id
    BY DEF WaitingOrdered, IsText
  <2>1. CASE i \in 1 .. Len(toServer[d]) /\ toServer'[d][i] = toServer[d][i]
    <3>1. toServer[d][i].id \in 1 .. sent
      BY <2>1 DEF Ordered, WaitingOrdered
    <3>2. ASSUME NEW j \in 1 .. Len(toServer'[d]), i < j, IsText(toServer'[d][j])
          PROVE  toServer[d][i].id < toServer'[d][j].id
      <4>1. CASE j \in 1 .. Len(toServer[d]) /\ toServer'[d][j] = toServer[d][j]
        BY <2>1, <3>2, <4>1 DEF Ordered, WaitingOrdered
      <4>2. CASE toServer'[d][j] = m
        BY <1>0, <3>1, <3>2, <4>2
      <4> QED BY <1>4, <4>1, <4>2
    <3> QED BY <1>0, <2>1, <3>1, <3>2
  <2>2. CASE d = c /\ i = Len(q) + 1 /\ toServer'[d][i] = m
    <3>1. Len(toServer'[d]) = Len(q) + 1
      BY <1>2, <1>3, <2>2
    <3> QED BY <1>0, <1>1, <2>2, <3>1
  <2> QED BY <1>4, <2>1, <2>2
<1>6. WrittenBefore'
  <2> SUFFICES ASSUME NEW d \in Conn, NEW i \in 1 .. Len(written[d]), IsText(written[d][i])
               PROVE  /\ written[d][i].id \in 1 .. sent'
                      /\ written[d][i].from \in Conn
                      /\ \A j \in 1 .. Len(toServer'[written[d][i].from]) :
                           IsText(toServer'[written[d][i].from][j])
                             => written[d][i].id < toServer'[written[d][i].from][j].id
    BY <1>0 DEF WrittenBefore, IsText
  <2> DEFINE f == written[d][i].from
             x == written[d][i].id
  <2>1. f \in Conn /\ x \in 1 .. sent
    BY DEF Ordered, WrittenBefore
  <2>2. \A j \in 1 .. Len(toServer[f]) : IsText(toServer[f][j]) => x < toServer[f][j].id
    BY DEF Ordered, WrittenBefore
  <2> HIDE DEF f, x
  <2>3. ASSUME NEW j \in 1 .. Len(toServer'[f]), IsText(toServer'[f][j])
        PROVE  x < toServer'[f][j].id
    BY <1>0, <1>4, <2>1, <2>2, <2>3
  <2>4. x \in 1 .. sent'
    BY <1>0, <2>1
  <2> QED BY <2>1, <2>3, <2>4 DEF f, x
<1>7. InOrder'
  BY <1>0 DEF Ordered, InOrder, IsText
<1> QED BY <1>5, <1>6, <1>7 DEF Ordered

LEMMA OrderStep ==
  ASSUME TypeOK, OwnMessages, Ordered, [Next]_vars
  PROVE  Ordered'
<1>1. ASSUME UNCHANGED <<toServer, sent, written>> PROVE Ordered'
  <2>1. Advances
    BY <1>1, QueueKept DEF Advances
  <2> QED BY <1>1, <2>1, OrderKept
<1>2. CASE Die
  <2>1. \A c \in Conn : toServer'[c] = <<>>
    BY <1>2 DEF Die
  <2>2. Advances
    BY <2>1, QueueEmptied DEF Advances
  <2> QED BY <1>2, <2>2, OrderKept DEF Die
<1>3. ASSUME NEW c \in Conn, eventcb(c) PROVE Ordered'
  <2>1. toServer'[c] = <<>> /\ \A d \in Conn \ {c} : toServer'[d] = toServer[d]
    BY <1>3 DEF eventcb, TypeOK
  <2>2. Advances
    BY <2>1, QueueEmptied, QueueKept DEF Advances
  <2> QED BY <1>3, <2>2, OrderKept DEF eventcb
<1>4. ASSUME NEW c \in Conn, Client(c) PROVE Ordered'
  <2>1. ASSUME NEW m \in Message \ Text, Send(c, m) PROVE Ordered'
    BY <2>1, SendOrdered, MessageKinds DEF IsText
  <2>2. ASSUME NEW g \in Room, SendText(c, g) PROVE Ordered'
    <3> DEFINE m == [type |-> "TEXT", room |-> g, id |-> sent + 1, from |-> c]
    <3>1. m \in Message /\ m.id = sent + 1 /\ Send(c, m)
      BY <2>2, TextIsMessage DEF SendText
    <3> HIDE DEF m
    <3> QED BY <3>1, SendOrdered
  <2>3. CASE Close(c)
    BY <1>1, <2>3 DEF Close
  <2> QED BY <1>4, <2>1, <2>2, <2>3 DEF Client
<1>5. ASSUME NEW c \in Conn, Callback(c) PROVE Ordered'
  BY <1>1, <1>2, <1>3, <1>5, ReadcbOrdered
  DEF Callback, Accept, AcceptFails, readcbSegFaults, readcbHangs, eventcbHangs
<1> QED
  BY <1>1, <1>2, <1>4, <1>5 DEF Next, vars, ServerStops, ServerStarts

\* A client gets what another has sent in the order it was sent, however readcb
\* drops messages, through restarts of the server, and also when the copies meant
\* for a connection that has been freed go to another.
THEOREM SenderOrderCorrect == Spec => []SenderOrder
<1>1. Init => Ordered
  <2> SUFFICES ASSUME Init PROVE Ordered
    OBVIOUS
  <2>1. \A c \in Conn : toServer[c] = <<>> /\ written[c] = <<>>
    BY DEF Init
  <2>2. \A c \in Conn : 1 .. Len(toServer[c]) = {} /\ 1 .. Len(written[c]) = {}
    BY <2>1
  <2> QED BY <2>2 DEF Ordered, WaitingOrdered, WrittenBefore, InOrder
<1>2. Typed /\ OwnMessages /\ Ordered /\ [Next]_vars => Ordered'
  BY OrderStep DEF Typed
<1>3. Typed /\ Ordered => SenderOrder
  BY InOrderSuffices DEF Typed, Ordered
<1> QED BY <1>1, <1>2, <1>3, TypedCorrect, OwnMessagesCorrect, PTL DEF Spec

-----------------------------------------------------------------------------
(***************************************************************************)
(* History.  What is saved stays saved; and when Redis answers, a callback *)
(* that sends a message to anybody saves it.                               *)
(***************************************************************************)
KeptIn(history, m) ==
  m.room \in Room /\ \E j \in 1 .. Len(history[m.room]) : history[m.room][j] = m

HistoryGrows ==
  \A g \in Room : /\ Len(saved[g]) \in Nat /\ Len(saved'[g]) \in Nat
                  /\ Len(saved[g]) <= Len(saved'[g])
                  /\ \A j \in 1 .. Len(saved[g]) : saved'[g][j] = saved[g][j]

\* A step has saved nothing but m.
SavesOnly(m) ==
  \A g \in Room : \A j \in 1 .. Len(saved'[g]) :
    \/ j \in 1 .. Len(saved[g]) /\ saved'[g][j] = saved[g][j]
    \/ j > Len(saved[g]) /\ saved'[g][j] = m

\* DeliveredIsSaved over positions that are known to be 1 .. Len.
WrittenIsSaved ==
  \A d \in Conn : \A i \in 1 .. Len(written[d]) :
    IsText(written[d][i]) => KeptIn(saved, written[d][i])

LEMMA WrittenIsSavedSuffices ==
  ASSUME TypeOK, WrittenIsSaved
  PROVE  DeliveredIsSaved
<1>1. /\ \A c \in Conn : written[c] \in Seq(Text \cup Reply)
      /\ \A g \in Room : saved[g] \in Seq(Text)
  BY DEF TypeOK
<1>2. /\ \A c \in Conn : DOMAIN written[c] = 1 .. Len(written[c])
      /\ \A g \in Room : DOMAIN saved[g] = 1 .. Len(saved[g])
  BY <1>1, LenProperties
<1> SUFFICES ASSUME NEW c \in Conn, NEW i \in DOMAIN written[c], IsText(written[c][i])
             PROVE  \E j \in DOMAIN saved[written[c][i].room] :
                      saved[written[c][i].room][j] = written[c][i]
  BY DEF DeliveredIsSaved, TextsTo, TextsIn, IsText
<1>3. KeptIn(saved, written[c][i])
  BY <1>2 DEF WrittenIsSaved
<1> QED BY <1>2, <1>3 DEF KeptIn

LEMMA HistoryKept ==
  ASSUME TypeOK, UNCHANGED saved
  PROVE  HistoryGrows /\ \A m : SavesOnly(m)
  BY DEF TypeOK, HistoryGrows, SavesOnly

LEMMA StaysInHistory ==
  ASSUME HistoryGrows, NEW m, KeptIn(saved, m)
  PROVE  KeptIn(saved', m)
<1>1. PICK j \in 1 .. Len(saved[m.room]) : saved[m.room][j] = m
  BY DEF KeptIn
<1>2. j \in 1 .. Len(saved'[m.room]) /\ saved'[m.room][j] = m
  BY <1>1 DEF HistoryGrows, KeptIn
<1> QED BY <1>2 DEF KeptIn

LEMMA SavesCopies ==
  ASSUME TypeOK, NEW m \in Text, NEW n \in Nat, SaveCopies(m, n)
  PROVE  HistoryGrows /\ SavesOnly(m) /\ (n > 0 => KeptIn(saved', m))
<1> DEFINE g == m.room
           q == saved[g]
<1>1. g \in Room /\ q \in Seq(Text) /\ Len(q) \in Nat
  <2>1. g \in Room
    BY DEF Text
  <2> QED BY <2>1 DEF TypeOK
<1>2. saved'[g] = q \o Copies(m, n) /\ \A h \in Room \ {g} : saved'[h] = saved[h]
  BY <1>1 DEF SaveCopies, TypeOK
<1> HIDE DEF q
<1>3. /\ Len(q \o Copies(m, n)) = Len(q) + n
      /\ \A i \in 1 .. Len(q) + n :
           (q \o Copies(m, n))[i] = IF i <= Len(q) THEN q[i] ELSE m
  BY <1>1, Concatenated
<1>4. /\ Len(saved'[g]) \in Nat /\ Len(q) <= Len(saved'[g])
      /\ \A j \in 1 .. Len(q) : saved'[g][j] = q[j]
  BY <1>1, <1>2, <1>3
<1>5. \A h \in Room : Len(saved[h]) \in Nat
  BY DEF TypeOK
<1>6. HistoryGrows
  <2> SUFFICES ASSUME NEW h \in Room
               PROVE  /\ Len(saved[h]) \in Nat /\ Len(saved'[h]) \in Nat
                      /\ Len(saved[h]) <= Len(saved'[h])
                      /\ \A j \in 1 .. Len(saved[h]) : saved'[h][j] = saved[h][j]
    BY DEF HistoryGrows
  <2>1. CASE h = g
    BY <1>1, <1>4, <2>1 DEF q
  <2>2. CASE h # g
    BY <1>2, <1>5, <2>2
  <2> QED BY <2>1, <2>2
<1>7. SavesOnly(m)
  <2> SUFFICES ASSUME NEW h \in Room, NEW j \in 1 .. Len(saved'[h])
               PROVE  \/ j \in 1 .. Len(saved[h]) /\ saved'[h][j] = saved[h][j]
                      \/ j > Len(saved[h]) /\ saved'[h][j] = m
    BY DEF SavesOnly
  <2>1. CASE h = g
    <3>1. j \in 1 .. Len(q) + n /\ saved'[h] = q \o Copies(m, n)
      BY <1>2, <1>3, <2>1
    <3>2. saved'[h][j] = IF j <= Len(q) THEN q[j] ELSE m
      BY <1>3, <3>1
    <3>3. \/ j \in 1 .. Len(q) /\ saved'[h][j] = q[j]
          \/ j > Len(q) /\ saved'[h][j] = m
      BY <1>1, <3>1, <3>2
    <3> QED BY <2>1, <3>3 DEF q
  <2>2. CASE h # g
    BY <1>2, <2>2
  <2> QED BY <2>1, <2>2
<1>8. ASSUME n > 0 PROVE KeptIn(saved', m)
  <2>1. Len(q) + n \in 1 .. Len(saved'[g]) /\ saved'[g][Len(q) + n] = m
    BY <1>1, <1>2, <1>3, <1>8
  <2> QED BY <1>1, <2>1 DEF KeptIn
<1> QED BY <1>6, <1>7, <1>8

\* A broadcast saves what it sends.
LEMMA ChatSaves ==
  ASSUME ~ RedisFaults, TypeOK, NEW c \in Conn, NEW m \in Text, handleChat(c, m)
  PROVE  /\ HistoryGrows
         /\ \A d \in Conn : \A i \in 1 .. Len(written'[d]) :
              i > Len(written[d]) => KeptIn(saved', m)
<1>1. PICK a \in Memory(m.room) :
        Broadcast(c, m, a) /\ SaveCopies(m, Cardinality(Receivers(c, m.room, a)))
  BY DEF handleChat
<1> DEFINE R == Receivers(c, m.room, a)
<1>2. m.room \in Room /\ R \subseteq Online(m.room) /\ Online(m.room) \subseteq User
  BY MembersAssumption DEF Text, Receivers, Online
<1>3. IsFiniteSet(R) /\ Cardinality(R) \in Nat
  BY <1>2, UserAssumption, FS_Subset, FS_CardinalityType
<1>4. SaveCopies(m, Cardinality(R))
  BY <1>1
<1>5. HistoryGrows /\ (Cardinality(R) > 0 => KeptIn(saved', m))
  <2> DEFINE n == Cardinality(R)
  <2>1. n \in Nat /\ SaveCopies(m, n)
    BY <1>3, <1>4
  <2> HIDE DEF n
  <2>2. HistoryGrows /\ (n > 0 => KeptIn(saved', m))
    BY <2>1, SavesCopies
  <2> QED BY <2>2 DEF n
<1>6. ASSUME NEW d \in Conn, NEW i \in 1 .. Len(written'[d]), i > Len(written[d])
      PROVE  Cardinality(R) > 0
  <2> DEFINE W == {u \in Online(m.room) : Reached(u, a) = d}
             q == written[d]
  <2>1. q \in Seq(Text \cup Reply) /\ Len(q) \in Nat
    BY DEF TypeOK
  <2>2. d # c /\ written'[d] = q \o Copies(m, Cardinality(W))
    BY <1>1, <1>6, <2>1 DEF Broadcast
  <2>3. W # {}
    <3>1. ASSUME W = {} PROVE FALSE
      <4>1. Cardinality(W) = 0
        BY <3>1, FS_EmptySet
      <4>2. Len(q \o Copies(m, 0)) = Len(q) + 0
        <5>1. m \in Text \cup Reply /\ 0 \in Nat
          OBVIOUS
        <5> HIDE DEF q
        <5> QED BY <2>1, <5>1, Concatenated
      <4>3. Len(written'[d]) = Len(q)
        BY <2>1, <2>2, <4>1, <4>2
      <4> QED BY <1>6, <2>1, <4>3
    <3> QED BY <3>1
  <2>4. R # {}
    BY <2>2, <2>3 DEF Receivers
  <2>5. Cardinality(R) # 0
    BY <1>3, <2>4, FS_EmptySet
  <2> QED BY <1>3, <2>5
<1> QED BY <1>5, <1>6

\* A chat that breaks off saves, and takes nothing back.
LEMMA BrokenChatGrows ==
  ASSUME TypeOK, NEW c \in Conn, NEW m \in Message, m.type = "TEXT", ChatBreaksOff(c, m)
  PROVE  HistoryGrows /\ SavesOnly(m)
<1>1. m \in Text
  BY MessageKinds
<1>2. PICK a \in Memory(m.room) :
        \E n \in 0 .. Cardinality({u \in Receivers(c, m.room, a) :
                                    ~ Diverges(clients, sockfd[u])}) : SaveCopies(m, n)
  BY DEF ChatBreaksOff
<1> DEFINE k == Cardinality({u \in Receivers(c, m.room, a) : ~ Diverges(clients, sockfd[u])})
<1>3. k \in Nat
  BY <1>1, MembersFinite DEF Text, Receivers
<1>4. \E n \in 0 .. k : SaveCopies(m, n)
  BY <1>2
<1> HIDE DEF k
<1>5. PICK n \in 0 .. k : SaveCopies(m, n)
  BY <1>4
<1> QED BY <1>1, <1>3, <1>5, SavesCopies

LEMMA HistoryStep ==
  ASSUME ~ RedisFaults, TypeOK, WrittenIsSaved, [Next]_vars
  PROVE  WrittenIsSaved'
<1>1. ASSUME HistoryGrows, UNCHANGED written PROVE WrittenIsSaved'
  <2> SUFFICES ASSUME NEW d \in Conn, NEW i \in 1 .. Len(written[d]), IsText(written[d][i])
               PROVE  KeptIn(saved', written[d][i])
    BY <1>1 DEF WrittenIsSaved, IsText, KeptIn
  <2> QED BY <1>1, StaysInHistory DEF WrittenIsSaved
<1>2. ASSUME NEW c \in Conn, readcb(c) PROVE WrittenIsSaved'
  <2> DEFINE m == Head(toServer[c])
  <2>1. m \in Message /\ Handled(c, m)
    BY <1>2, FirstMessage DEF readcb, Handled
  <2> HIDE DEF m
  <2>2. WritesOnly(c, m)
    BY <2>1, ReadcbWrites
  <2>3. /\ HistoryGrows
        /\ \A d \in Conn : \A i \in 1 .. Len(written'[d]) :
             i > Len(written[d]) /\ handleChat(c, m) => KeptIn(saved', m)
    <3>1. CASE handleChat(c, m)
      <4>1. m \in Text
        BY <2>1, <3>1, MessageKinds DEF handleChat
      <4> QED BY <3>1, <4>1, ChatSaves
    <3>2. CASE ~ handleChat(c, m)
      <4>1. UNCHANGED saved
        BY <2>1, <3>2
        DEF Handled, handleRegister, handleLogin, handleLogout, chatReachesNoOne, handleOther,
            redis
      <4> QED BY <3>2, <4>1, HistoryKept
    <3> QED BY <3>1, <3>2
  <2> SUFFICES ASSUME NEW d \in Conn, NEW i \in 1 .. Len(written'[d]), IsText(written'[d][i])
               PROVE  KeptIn(saved', written'[d][i])
    BY DEF WrittenIsSaved, IsText
  <2>4. CASE i \in 1 .. Len(written[d]) /\ written'[d][i] = written[d][i]
    <3> DEFINE x == written[d][i]
    <3>1. KeptIn(saved, x)
      BY <2>4 DEF WrittenIsSaved
    <3>2. KeptIn(saved', x)
      BY <2>3, <3>1, StaysInHistory
    <3> QED BY <2>4, <3>1, <3>2
  <2>5. CASE i > Len(written[d]) /\ m \in Text /\ written'[d][i] = m /\ handleChat(c, m)
    <3>1. KeptIn(saved', m)
      BY <2>3, <2>5 DEF Text
    <3> QED BY <2>5, <3>1
  <2> QED BY <2>2, <2>4, <2>5 DEF WritesOnly, IsText
<1>3. ASSUME NEW c \in Conn, readcbSegFaults(c) \/ readcbHangs(c) PROVE WrittenIsSaved'
  <2>1. Head(toServer[c]) \in Message /\ UNCHANGED written
    BY <1>3, FirstMessage DEF readcbSegFaults, readcbHangs, Die
  <2>2. HistoryGrows
    BY <1>3, <2>1, BrokenChatGrows, HistoryKept
    DEF readcbSegFaults, readcbHangs, ChatCrashes, ChatHangs, redis
  <2> QED BY <1>1, <2>1, <2>2
<1>4. CASE UNCHANGED <<saved, written>>
  BY <1>1, <1>4, HistoryKept
<1> QED
  BY <1>2, <1>3, <1>4
  DEF Next, vars, redis, ServerStops, ServerStarts, Callback, Client, Accept, AcceptFails, Die,
      eventcb, eventcbHangs, Send, SendText, Close

\* As long as Redis answers, nobody is sent a message that the history of its room
\* does not have, then or later: also when the callback that sends it crashes, and
\* when a stale descriptor leads it to a stranger.
THEOREM DeliveredIsSavedCorrect ==
  ASSUME ~ RedisFaults
  PROVE  Spec => []DeliveredIsSaved
<1>1. Init => WrittenIsSaved
  <2> SUFFICES ASSUME Init PROVE WrittenIsSaved
    OBVIOUS
  <2>1. \A c \in Conn : written[c] = <<>>
    BY DEF Init
  <2>2. \A c \in Conn : 1 .. Len(written[c]) = {}
    BY <2>1
  <2> QED BY <2>2 DEF WrittenIsSaved
<1>2. Typed /\ WrittenIsSaved /\ [Next]_vars => WrittenIsSaved'
  BY HistoryStep DEF Typed
<1>3. Typed /\ WrittenIsSaved => DeliveredIsSaved
  BY WrittenIsSavedSuffices DEF Typed
<1> QED BY <1>1, <1>2, <1>3, TypedCorrect, PTL DEF Spec

-----------------------------------------------------------------------------
(***************************************************************************)
(* One order for all.  A message that is handled has been neither written  *)
(* nor saved before, so that it comes last wherever it comes; except in a  *)
(* process that hangs, which has saved it and reads it no more.            *)
(***************************************************************************)
OlderThan(m, q) == \A j \in 1 .. Len(q) : IsText(q[j]) => m.id < q[j].id

Older(m) == OlderThan(m, toServer[m.from])

SavedBefore ==
  \A g \in Room : \A k \in 1 .. Len(saved[g]) :
    /\ saved[g][k].id \in 1 .. sent
    /\ proc # "hung" => Older(saved[g][k])

\* SameOrder over positions that are known to be 1 .. Len.
OneOrder(p, q) ==
  \A i, j \in 1 .. Len(p), k, l \in 1 .. Len(q) :
    /\ IsText(p[i]) /\ IsText(p[j])
    /\ i < j /\ k < l /\ p[i] = q[l] /\ p[j] = q[k]
    => p[i] = p[j]

OneOrderForAll ==
  \A c \in Conn : /\ \A d \in Conn : OneOrder(written[c], written[d])
                  /\ \A g \in Room : OneOrder(written[c], saved[g])

LEMMA OneOrderSuffices ==
  ASSUME TypeOK, OneOrderForAll
  PROVE  TotalOrder
<1>1. \A c \in Conn : DOMAIN written[c] = 1 .. Len(written[c])
  BY LenProperties DEF TypeOK
<1>2. \A g \in Room : DOMAIN saved[g] = 1 .. Len(saved[g])
  BY LenProperties DEF TypeOK
<1>3. ASSUME NEW p, NEW q, DOMAIN p = 1 .. Len(p), DOMAIN q = 1 .. Len(q), OneOrder(p, q)
      PROVE  SameOrder(p, q)
  BY <1>3 DEF OneOrder, SameOrder, TextsIn, IsText
<1> QED BY <1>1, <1>2, <1>3 DEF OneOrderForAll, TotalOrder

\* What p2 has beyond p is m, and replies; and p has no m.
Extends(p, p2, m) ==
  /\ Len(p) \in Nat /\ Len(p2) \in Nat
  /\ \A i \in 1 .. Len(p) : IsText(p[i]) => p[i] # m
  /\ \A i \in 1 .. Len(p2) :
       \/ i \in 1 .. Len(p) /\ p2[i] = p[i]
       \/ i > Len(p) /\ ~ IsText(p2[i])
       \/ i > Len(p) /\ p2[i] = m

LEMMA OrderExtends ==
  ASSUME NEW p, NEW p2, NEW q, NEW q2, NEW m,
         OneOrder(p, q), Extends(p, p2, m), Extends(q, q2, m)
  PROVE  OneOrder(p2, q2)
<1> SUFFICES ASSUME NEW i \in 1 .. Len(p2), NEW j \in 1 .. Len(p2),
                    NEW k \in 1 .. Len(q2), NEW l \in 1 .. Len(q2),
                    IsText(p2[i]), IsText(p2[j]), i < j, k < l,
                    p2[i] = q2[l], p2[j] = q2[k]
             PROVE  p2[i] = p2[j]
  BY DEF OneOrder
<1>1. /\ Len(p) \in Nat /\ Len(q) \in Nat
      /\ \/ i \in 1 .. Len(p) /\ p2[i] = p[i]
         \/ i > Len(p) /\ p2[i] = m
      /\ \/ j \in 1 .. Len(p) /\ p2[j] = p[j]
         \/ j > Len(p) /\ p2[j] = m
      /\ \/ l \in 1 .. Len(q) /\ q2[l] = q[l]
         \/ l > Len(q) /\ q2[l] = m
      /\ \/ k \in 1 .. Len(q) /\ q2[k] = q[k]
         \/ k > Len(q) /\ q2[k] = m
  BY DEF Extends
<1>2. CASE p2[i] = m
  <2>1. ~ (i \in 1 .. Len(p))
    BY <1>1, <1>2 DEF Extends
  <2>2. ~ (j \in 1 .. Len(p))
    BY <1>1, <2>1
  <2> QED BY <1>1, <1>2, <2>2
<1>3. CASE p2[j] = m
  <2>1. ~ (k \in 1 .. Len(q))
    BY <1>1, <1>3 DEF Extends
  <2>2. ~ (l \in 1 .. Len(q))
    BY <1>1, <2>1
  <2> QED BY <1>1, <1>3, <2>2
<1>4. CASE p2[i] # m /\ p2[j] # m
  BY <1>1, <1>4 DEF OneOrder
<1> QED BY <1>2, <1>3, <1>4

LEMMA HeadIsFresh ==
  ASSUME TypeOK, OwnMessages, Ordered, SavedBefore, proc = "up",
         NEW c \in Conn, toServer[c] # <<>>
  PROVE  /\ \A d \in Conn : \A i \in 1 .. Len(written[d]) :
              IsText(written[d][i]) => written[d][i] # Head(toServer[c])
         /\ \A g \in Room : \A k \in 1 .. Len(saved[g]) :
              IsText(saved[g][k]) => saved[g][k] # Head(toServer[c])
<1> DEFINE m == Head(toServer[c])
<1>1. m = toServer[c][1] /\ 1 \in 1 .. Len(toServer[c]) /\ OwnText(c, m)
  BY HeadIsFirst, FirstIsOwn
<1>2. IsText(m) => m.from = c /\ m.id \in 1 .. sent
  BY <1>1 DEF Ordered, WaitingOrdered, OwnText, IsText
<1> HIDE DEF m
<1>3. \A n \in 1 .. sent : ~ (n < n)
  BY BoundAssumption DEF TypeOK
<1>4. ASSUME NEW x, IsText(x), Older(x), x = m PROVE FALSE
  <2>1. IsText(toServer[c][1]) /\ x.from = c
    BY <1>1, <1>2, <1>4
  <2>2. m.id < m.id
    BY <1>1, <1>4, <2>1 DEF Older, OlderThan
  <2> QED BY <1>2, <1>3, <1>4, <2>2
<1>5. \A d \in Conn : \A i \in 1 .. Len(written[d]) :
        IsText(written[d][i]) => Older(written[d][i])
  BY DEF Ordered, WrittenBefore, Older, OlderThan
<1>6. \A g \in Room : \A k \in 1 .. Len(saved[g]) : Older(saved[g][k])
  BY DEF SavedBefore
<1> QED BY <1>4, <1>5, <1>6 DEF m

LEMMA ReadcbSaves ==
  ASSUME TypeOK, NEW c \in Conn, NEW m \in Message, Handled(c, m)
  PROVE  SavesOnly(m)
<1>1. CASE handleChat(c, m)
  <2>1. m \in Text
    BY <1>1, MessageKinds DEF handleChat
  <2>2. PICK a \in Memory(m.room) :
          \E n \in 0 .. Cardinality(Receivers(c, m.room, a)) : SaveCopies(m, n)
    BY <1>1 DEF handleChat
  <2>3. Cardinality(Receivers(c, m.room, a)) \in Nat
    BY <2>1, MembersFinite DEF Text, Receivers
  <2>4. PICK n \in 0 .. Cardinality(Receivers(c, m.room, a)) : SaveCopies(m, n)
    BY <2>2
  <2>5. n \in Nat
    BY <2>3
  <2> QED BY <2>1, <2>4, <2>5, SavesCopies
<1>2. CASE ~ handleChat(c, m)
  <2>1. UNCHANGED saved
    BY <1>2
    DEF Handled, handleRegister, handleLogin, handleLogout, chatReachesNoOne, handleOther, redis
  <2> QED BY <2>1, HistoryKept
<1> QED BY <1>1, <1>2

\* What waits after a step is newer than all that is saved.
LEMMA SavedBeforeKept ==
  ASSUME TypeOK, Ordered, SavedBefore, Advances, UNCHANGED <<sent, saved>>,
         proc' # "hung" => proc # "hung"
  PROVE  SavedBefore'
<1> SUFFICES ASSUME NEW g \in Room, NEW k \in 1 .. Len(saved[g]), proc' # "hung"
             PROVE  /\ saved[g][k].id \in 1 .. sent
                    /\ OlderThan(saved[g][k], toServer'[saved[g][k].from])
  BY DEF SavedBefore, Older
<1> DEFINE f == saved[g][k].from
           x == saved[g][k].id
<1>1. saved[g][k] \in Text
  BY ElementOfSeq DEF TypeOK
<1>2. f \in Conn /\ x \in Int
  BY <1>1, BoundAssumption DEF Text
<1>3. \A j \in 1 .. Len(toServer[f]) : IsText(toServer[f][j]) => x < toServer[f][j].id
  BY DEF SavedBefore, Older, OlderThan
<1> HIDE DEF f, x
<1>4. \A j \in 1 .. Len(toServer'[f]) : IsText(toServer'[f][j]) => x < toServer'[f][j].id
  BY <1>2, <1>3, AdvancesKeeps
<1> QED BY <1>4 DEF f, x, OlderThan, SavedBefore

LEMMA SavedBeforeStep ==
  ASSUME TypeOK, TypeOK', OwnMessages, Ordered, SavedBefore, [Next]_vars
  PROVE  SavedBefore'
<1>0. sent \in Nat /\ \A g \in Room : saved[g] \in Seq(Text) /\ saved'[g] \in Seq(Text)
  BY BoundAssumption DEF TypeOK
<1>1. ASSUME UNCHANGED <<toServer, sent, saved>>, proc' # "hung" => proc # "hung"
      PROVE  SavedBefore'
  <2>1. Advances
    BY <1>1, QueueKept DEF Advances
  <2> QED BY <1>1, <2>1, SavedBeforeKept
\* When the process ends nothing is left waiting.
<1>2. ASSUME Die,
             \A g \in Room : \A j \in 1 .. Len(saved'[g]) :
               \/ j \in 1 .. Len(saved[g]) /\ saved'[g][j] = saved[g][j]
               \/ saved'[g][j].from \in Conn /\ saved'[g][j].id \in 1 .. sent
      PROVE  SavedBefore'
  <2> SUFFICES ASSUME NEW g \in Room, NEW k \in 1 .. Len(saved'[g])
               PROVE  /\ saved'[g][k].id \in 1 .. sent
                      /\ OlderThan(saved'[g][k], toServer'[saved'[g][k].from])
    BY <1>2 DEF SavedBefore, Die, Older
  <2>1. saved'[g][k].from \in Conn /\ saved'[g][k].id \in 1 .. sent
    <3>1. ASSUME k \in 1 .. Len(saved[g]) PROVE saved[g][k].from \in Conn /\ saved[g][k].id \in 1 .. sent
      <4>1. saved[g][k] \in Text
        BY <1>0, <3>1, ElementOfSeq
      <4> QED BY <3>1, <4>1 DEF SavedBefore, Text
    <3> QED BY <1>2, <3>1
  <2>2. Len(toServer'[saved'[g][k].from]) = 0
    BY <1>2, <2>1, EmptySeq DEF Die
  <2> QED BY <2>1, <2>2 DEF OlderThan
<1>3. ASSUME Die, UNCHANGED saved PROVE SavedBefore'
  BY <1>2, <1>3
<1>4. ASSUME NEW c \in Conn, eventcb(c) PROVE SavedBefore'
  <2>1. toServer'[c] = <<>> /\ \A d \in Conn \ {c} : toServer'[d] = toServer[d]
    BY <1>4 DEF eventcb, TypeOK
  <2>2. Advances
    BY <2>1, QueueEmptied, QueueKept DEF Advances
  <2> QED BY <1>4, <2>2, SavedBeforeKept DEF eventcb, redis
<1>5. ASSUME NEW c \in Conn, NEW m \in Message, Send(c, m), IsText(m) => m.id = sent + 1
      PROVE  SavedBefore'
  <2> SUFFICES ASSUME NEW g \in Room, NEW k \in 1 .. Len(saved[g])
               PROVE  /\ saved[g][k].id \in 1 .. sent + 1
                      /\ proc # "hung" =>
                           OlderThan(saved[g][k], toServer'[saved[g][k].from])
    BY <1>5 DEF SavedBefore, Send, redis, Older
  <2> DEFINE f == saved[g][k].from
             x == saved[g][k].id
  <2>1. f \in Conn /\ x \in 1 .. sent
    <3>1. saved[g][k] \in Text
      BY <1>0, ElementOfSeq
    <3> QED BY <3>1 DEF SavedBefore, Text
  <2>2. ASSUME proc # "hung"
        PROVE  \A j \in 1 .. Len(toServer[f]) : IsText(toServer[f][j]) => x < toServer[f][j].id
    BY <2>2 DEF SavedBefore, Older, OlderThan
  <2> HIDE DEF f, x
  <2>3. ASSUME proc # "hung", NEW j \in 1 .. Len(toServer'[f]), IsText(toServer'[f][j])
        PROVE  x < toServer'[f][j].id
    <3>1. \/ j \in 1 .. Len(toServer[f]) /\ toServer'[f][j] = toServer[f][j]
          \/ toServer'[f][j] = m
      BY <1>5, <2>1, <2>3, SentWaits
    <3> QED BY <1>0, <1>5, <2>1, <2>2, <2>3, <3>1
  <2>4. x \in 1 .. sent + 1
    BY <1>0, <2>1
  <2> QED BY <2>3, <2>4 DEF OlderThan, f, x
<1>6. ASSUME NEW c \in Conn, Client(c) PROVE SavedBefore'
  <2>1. ASSUME NEW m \in Message \ Text, Send(c, m) PROVE SavedBefore'
    BY <1>5, <2>1, MessageKinds DEF IsText
  <2>2. ASSUME NEW g \in Room, SendText(c, g) PROVE SavedBefore'
    <3> DEFINE m == [type |-> "TEXT", room |-> g, id |-> sent + 1, from |-> c]
    <3>1. m \in Message /\ m.id = sent + 1 /\ Send(c, m)
      BY <2>2, TextIsMessage DEF SendText
    <3> HIDE DEF m
    <3> QED BY <1>5, <3>1
  <2>3. CASE Close(c)
    BY <1>1, <2>3 DEF Close, redis
  <2> QED BY <1>6, <2>1, <2>2, <2>3 DEF Client
<1>7. ASSUME NEW c \in Conn, readcb(c) PROVE SavedBefore'
  <2> DEFINE m == Head(toServer[c])
  <2>1. m \in Message /\ Handled(c, m) /\ SavesOnly(m)
    BY <1>7, FirstMessage, ReadcbSaves DEF readcb, Handled
  <2>2. /\ Advances
        /\ IsText(m) => /\ m.id \in 1 .. sent /\ m.from = c
                        /\ \A j \in 1 .. Len(toServer'[c]) :
                             IsText(toServer'[c][j]) => m.id < toServer'[c][j].id
    BY <1>7, ReadcbAdvances
  <2> HIDE DEF m
  <2>3. sent' = sent /\ proc # "hung"
    BY <1>7 DEF readcb
  <2> SUFFICES ASSUME NEW g \in Room, NEW k \in 1 .. Len(saved'[g])
               PROVE  /\ saved'[g][k].id \in 1 .. sent
                      /\ OlderThan(saved'[g][k], toServer'[saved'[g][k].from])
    BY <2>3 DEF SavedBefore, Older
  <2>4. CASE k \in 1 .. Len(saved[g]) /\ saved'[g][k] = saved[g][k]
    <3> DEFINE f == saved[g][k].from
               x == saved[g][k].id
    <3>1. f \in Conn /\ x \in 1 .. sent /\ x \in Int
      <4>1. saved[g][k] \in Text
        BY <1>0, <2>4, ElementOfSeq
      <4> QED BY <1>0, <2>4, <4>1 DEF SavedBefore, Text
    <3>2. \A j \in 1 .. Len(toServer[f]) : IsText(toServer[f][j]) => x < toServer[f][j].id
      BY <2>3, <2>4 DEF SavedBefore, Older, OlderThan
    <3> HIDE DEF f, x
    <3>3. \A j \in 1 .. Len(toServer'[f]) : IsText(toServer'[f][j]) => x < toServer'[f][j].id
      BY <2>2, <2>3, <3>1, <3>2, AdvancesKeeps
    <3> QED BY <2>4, <3>1, <3>3 DEF f, x, OlderThan
  <2>5. CASE k > Len(saved[g]) /\ saved'[g][k] = m
    <3>1. IsText(m)
      <4>1. m \in Text
        BY <1>0, <2>5, ElementOfSeq
      <4> QED BY <4>1 DEF Text, IsText
    <3> QED BY <2>2, <2>5, <3>1 DEF OlderThan
  <2> QED BY <2>1, <2>4, <2>5 DEF SavesOnly
\* A chat that breaks off: the process ends, or hangs and reads no more.
<1>8. ASSUME NEW c \in Conn, readcbSegFaults(c) \/ readcbHangs(c) PROVE SavedBefore'
  <2> DEFINE m == Head(toServer[c])
  <2>1. m \in Message /\ toServer[c] # <<>>
    BY <1>8, FirstMessage DEF readcbSegFaults, readcbHangs
  <2>2. m = toServer[c][1] /\ 1 \in 1 .. Len(toServer[c]) /\ OwnText(c, m)
    BY <2>1, HeadIsFirst, FirstIsOwn
  <2>3. \/ Die /\ UNCHANGED saved
        \/ m.type = "TEXT" /\ ChatBreaksOff(c, m) /\ (Die \/ (UNCHANGED sent /\ proc' = "hung"))
    <3>1. CASE readcbSegFaults(c)
      <4>1. Die /\ (UNCHANGED redis \/ (ChatCrashes(m) /\ ChatBreaksOff(c, m)))
        BY <3>1 DEF readcbSegFaults
      <4> QED BY <4>1 DEF ChatCrashes, redis
    <3>2. CASE readcbHangs(c)
      BY <3>2 DEF readcbHangs, ChatHangs
    <3> QED BY <1>8, <3>1, <3>2
  <2> HIDE DEF m
  <2>4. IsText(m) => m.from = c /\ m.id \in 1 .. sent
    BY <2>2 DEF Ordered, WaitingOrdered, OwnText, IsText
  <2>5. CASE Die /\ UNCHANGED saved
    BY <1>3, <2>5
  <2>6. CASE m.type = "TEXT" /\ ChatBreaksOff(c, m)
    <3>1. SavesOnly(m) /\ m.from \in Conn /\ m.id \in 1 .. sent
      BY <2>1, <2>4, <2>6, BrokenChatGrows DEF IsText
    <3>2. CASE Die
      BY <1>2, <3>1, <3>2 DEF SavesOnly
    <3>3. CASE UNCHANGED sent /\ proc' = "hung"
      BY <3>1, <3>3 DEF SavedBefore, SavesOnly
    <3> QED BY <2>3, <2>6, <3>2, <3>3
  <2> QED BY <2>3, <2>5, <2>6
<1>9. ASSUME NEW c \in Conn, Callback(c) PROVE SavedBefore'
  BY <1>1, <1>3, <1>4, <1>7, <1>8, <1>9
  DEF Callback, Accept, AcceptFails, eventcbHangs, redis
<1> QED
  BY <1>1, <1>3, <1>6, <1>9 DEF Next, vars, redis, ServerStops, ServerStarts

LEMMA OneOrderStep ==
  ASSUME TypeOK, TypeOK', OwnMessages, Ordered, SavedBefore, OneOrderForAll, [Next]_vars
  PROVE  OneOrderForAll'
<1>1. CASE UNCHANGED <<written, saved>>
  BY <1>1 DEF OneOrderForAll
<1>2. /\ \A d \in Conn : Len(written[d]) \in Nat /\ Len(written'[d]) \in Nat
      /\ \A g \in Room : Len(saved[g]) \in Nat /\ Len(saved'[g]) \in Nat
  BY DEF TypeOK
\* What has been read first is all that a callback of readcb adds anywhere.
<1>3. ASSUME NEW c \in Conn, proc = "up", toServer[c] # <<>>, SavesOnly(Head(toServer[c])),
             UNCHANGED written \/ WritesOnly(c, Head(toServer[c]))
      PROVE  OneOrderForAll'
  <2> DEFINE m == Head(toServer[c])
  <2>1. /\ \A d \in Conn : \A i \in 1 .. Len(written[d]) : IsText(written[d][i]) => written[d][i] # m
        /\ \A g \in Room : \A k \in 1 .. Len(saved[g]) : IsText(saved[g][k]) => saved[g][k] # m
    BY <1>3, HeadIsFresh
  <2>2. SavesOnly(m) /\ (UNCHANGED written \/ WritesOnly(c, m))
    BY <1>3
  <2> HIDE DEF m
  <2>3. ASSUME NEW d \in Conn PROVE Extends(written[d], written'[d], m)
    <3>1. CASE UNCHANGED written
      BY <1>2, <2>1, <3>1 DEF Extends
    <3>2. CASE WritesOnly(c, m)
      BY <1>2, <2>1, <3>2 DEF Extends, WritesOnly, IsText
    <3> QED BY <2>2, <3>1, <3>2
  <2>4. ASSUME NEW g \in Room PROVE Extends(saved[g], saved'[g], m)
    BY <1>2, <2>1, <2>2 DEF Extends, SavesOnly
  <2>5. ASSUME NEW d \in Conn, NEW e \in Conn PROVE OneOrder(written'[d], written'[e])
    <3>1. OneOrder(written[d], written[e])
      BY DEF OneOrderForAll
    <3> QED BY <2>3, <3>1, OrderExtends
  <2>6. ASSUME NEW d \in Conn, NEW g \in Room PROVE OneOrder(written'[d], saved'[g])
    <3>1. OneOrder(written[d], saved[g])
      BY DEF OneOrderForAll
    <3> QED BY <2>3, <2>4, <3>1, OrderExtends
  <2> QED BY <2>5, <2>6 DEF OneOrderForAll, OneOrder, IsText
<1>4. ASSUME NEW c \in Conn, readcb(c) PROVE OneOrderForAll'
  <2> DEFINE m == Head(toServer[c])
  <2>1. m \in Message /\ Handled(c, m) /\ proc = "up" /\ toServer[c] # <<>>
    BY <1>4, FirstMessage DEF readcb, Handled
  <2> HIDE DEF m
  <2>2. WritesOnly(c, m) /\ SavesOnly(m)
    BY <2>1, ReadcbWrites, ReadcbSaves
  <2> QED BY <1>3, <2>1, <2>2 DEF m
<1>5. ASSUME NEW c \in Conn, readcbSegFaults(c) \/ readcbHangs(c) PROVE OneOrderForAll'
  <2>1. /\ Head(toServer[c]) \in Message /\ toServer[c] # <<>> /\ proc = "up"
        /\ UNCHANGED written
    BY <1>5, FirstMessage DEF readcbSegFaults, readcbHangs, Die
  <2>2. SavesOnly(Head(toServer[c]))
    BY <1>5, <2>1, BrokenChatGrows, HistoryKept
    DEF readcbSegFaults, readcbHangs, ChatCrashes, ChatHangs, redis
  <2> QED BY <1>3, <2>1, <2>2
<1> QED
  BY <1>1, <1>4, <1>5
  DEF Next, vars, redis, ServerStops, ServerStarts, Callback, Client, Accept, AcceptFails, Die,
      eventcb, eventcbHangs, Send, SendText, Close

\* Whoever gets two messages gets them in the order in which everybody else gets them
\* and in which they are saved: with colliding descriptors, through stale ones, when
\* the copies for a freed connection go to another, when Redis fails, and when the
\* server ends, hangs and starts again between the two.
THEOREM TotalOrderCorrect == Spec => []TotalOrder
<1>1. Init => Ordered /\ SavedBefore /\ OneOrderForAll
  <2> SUFFICES ASSUME Init PROVE Ordered /\ SavedBefore /\ OneOrderForAll
    OBVIOUS
  <2>1. /\ \A c \in Conn : toServer[c] = <<>> /\ written[c] = <<>>
        /\ \A g \in Room : saved[g] = <<>>
    BY DEF Init
  <2>2. /\ \A c \in Conn : 1 .. Len(toServer[c]) = {} /\ 1 .. Len(written[c]) = {}
        /\ \A g \in Room : 1 .. Len(saved[g]) = {}
    BY <2>1
  <2> QED BY <2>2 DEF Ordered, WaitingOrdered, WrittenBefore, InOrder, SavedBefore,
                      OneOrderForAll, OneOrder
<1>2. /\ Typed /\ Typed' /\ OwnMessages /\ Ordered /\ SavedBefore /\ OneOrderForAll
      /\ [Next]_vars
      => Ordered' /\ SavedBefore' /\ OneOrderForAll'
  BY OrderStep, SavedBeforeStep, OneOrderStep DEF Typed
<1>3. Typed /\ OneOrderForAll => TotalOrder
  BY OneOrderSuffices DEF Typed
<1> QED BY <1>1, <1>2, <1>3, TypedCorrect, OwnMessagesCorrect, PTL DEF Spec
=============================================================================
