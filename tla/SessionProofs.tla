--------------------------- MODULE SessionProofs ---------------------------
(***************************************************************************)
(* Theorems about Session, for any accounts, names, passwords and lines,   *)
(* any number of inputs, and a server that stops at any moment.  They are  *)
(* safety: what the fairness of Spec brings about is left to TLC.          *)
(***************************************************************************)
EXTENDS Session, TLAPS, SequenceTheorems, FiniteSetTheorems

-----------------------------------------------------------------------------
(***************************************************************************)
(* The inductive invariant.  What is on its way is told apart by what is   *)
(* in a queue, and by how many logins are.                                 *)
(***************************************************************************)
Elems(q) == {q[i] : i \in 1 .. Len(q)}
LoginsAt(q) == {i \in 1 .. Len(q) : q[i].type = "LOGIN"}
Pending(q) == Cardinality(LoginsAt(q))

Words == {Empty} \cup {FirstWord(l.text) : l \in Line}
Requests == {Login(n, user_msg(n, w)) : n \in Seq(Char), w \in Seq(Char)}
              \cup {Chat(n, x, g, k) : n \in Seq(Char), x \in Words, g \in Room, k \in Nat}
Replies == {LoginReply(rc) : rc \in Ids \cup {ERROR_NORMAL, ERROR_USER_NOTEXISTS}}
             \cup {ChatReply}

Types ==
  /\ conn \in {"connecting", "connected", "exited"}
  /\ prompting \in BOOLEAN /\ is_login \in BOOLEAN /\ overlapped \in BOOLEAN
  /\ username \in Seq(Char) /\ pass \in Seq(Char)
  /\ userId \in Ids \cup {0}
  /\ inputs \in 0 .. MaxInput /\ waiting \in Nat
  /\ toServer \in Seq(Requests) /\ toClient \in Seq(Replies)
  /\ server \in {"up", "down"}
  /\ granted \subseteq (DOMAIN Account) \X Ids

\* A login that is on its way is waited for, and was typed at a prompt; more than
\* one is waited for only when they have overlapped.
LoginsCounted ==
  /\ prompting => waiting + 1 <= inputs
  /\ waiting <= inputs
  /\ Pending(toServer) + Pending(toClient) <= waiting
  /\ ~ overlapped => waiting <= 1

\* An id on its way to the client has been granted.
IdsGranted ==
  /\ \A m \in Elems(toClient) :
       m.type = "LOGIN" /\ m.rc > 0 => \E g \in granted : g[2] = m.rc
  /\ LoginAcknowledged

\* A chat is a line that was typed; one that is not dropped has its room, and its
\* text if that is a word.
LineOf(m, lines) ==
  /\ m.nr \in 1 .. Len(lines)
  /\ m.msg # Empty =>
       /\ m.room = lines[m.nr].room
       /\ IsWord(lines[m.nr].text) => m.msg = lines[m.nr].text

AsTyped(m) == LineOf(m, typed)

InOrder(q) ==
  \A i, j \in 1 .. Len(q) :
    i < j /\ q[i].type = "TEXT" /\ q[j].type = "TEXT" => q[i].nr < q[j].nr

\* The chats that are handled, and after them those on their way to the server, are
\* lines that were typed, in the order in which they were typed.
ChatsTyped ==
  /\ typed \in Seq(Line) /\ handled \in Seq(Requests)
  /\ \A m \in Elems(toServer) : m.type = "TEXT" => AsTyped(m)
  /\ \A h \in Elems(handled) : h.type = "TEXT" /\ h.msg # Empty /\ AsTyped(h)
  /\ InOrder(toServer) /\ InOrder(handled)
  /\ \A h \in Elems(handled), m \in Elems(toServer) : m.type = "TEXT" => h.nr < m.nr

\* While logins have not overlapped, the one on its way is of the name that is
\* stored, and so is the id that answers it; and it is asked for only when the
\* client is not logged in.
NamesMatch ==
  /\ prompting => ~ is_login
  /\ ~ overlapped =>
       /\ \A m \in Elems(toServer) :
            m.type = "LOGIN" => m = Login(username, user_msg(username, pass))
       /\ \A m \in Elems(toClient) :
            m.type = "LOGIN" /\ m.rc > 0 /\ IsWord(username) => <<username, m.rc>> \in granted
  /\ NameIsOfUser

-----------------------------------------------------------------------------
(***************************************************************************)
(* Texts: sscanf gives back the word that was printed first.               *)
(***************************************************************************)
LEMMA FirstWordIsPrefix ==
  ASSUME NEW S, NEW u \in Seq(S), NEW q \in Seq(S),
         IsWord(u), Len(u) <= Len(q), Len(u) < Len(q) => q[Len(u) + 1] = Blank,
         \A i \in 1 .. Len(u) : q[i] = u[i]
  PROVE  FirstWord(q) = u
<1> DEFINE k == Len(u)
<1>1. k \in Nat \ {0} /\ Len(q) \in Nat /\ DOMAIN u = 1 .. k
  BY EmptySeq, LenProperties DEF IsWord
<1>2. \A i \in 1 .. k : q[i] # Blank
  BY <1>1 DEF IsWord
<1> HIDE DEF k
<1>3. WordStart(q) = 1
  <2>1. /\ 1 \in 1 .. Len(q) + 1
        /\ 1 <= Len(q) => q[1] # Blank
        /\ \A j \in 1 .. 1 - 1 : q[j] = Blank
    BY <1>1, <1>2
  <2>2. \A i \in 1 .. Len(q) + 1 : (\A j \in 1 .. i - 1 : q[j] = Blank) => i = 1
    BY <1>1, <1>2
  <2> QED BY <2>1, <2>2 DEF WordStart
<1>4. WordEnd(q) = k + 1
  <2>1. /\ k + 1 \in 1 .. Len(q) + 1
        /\ k + 1 <= Len(q) => q[k + 1] = Blank
        /\ \A j \in 1 .. (k + 1) - 1 : q[j] # Blank
    BY <1>1, <1>2 DEF k
  <2>2. ASSUME NEW i \in 1 .. Len(q) + 1,
               i <= Len(q) => q[i] = Blank, \A j \in 1 .. i - 1 : q[j] # Blank
        PROVE  i = k + 1
    <3>1. k <= Len(q) /\ (k < Len(q) => k + 1 \in 1 .. Len(q) /\ q[k + 1] = Blank)
      BY <1>1 DEF k
    <3>2. ~ (i > k + 1)
      BY <1>1, <2>2, <3>1
    <3>3. ~ (i < k + 1)
      BY <1>1, <1>2, <2>2, <3>1
    <3> QED BY <1>1, <3>2, <3>3
  <2>3. WordEnd(q) = CHOOSE i \in 1 .. Len(q) + 1 :
                       /\ i <= Len(q) => q[i] = Blank
                       /\ \A j \in 1 .. i - 1 : q[j] # Blank
    BY <1>3 DEF WordEnd
  <2> QED BY <2>1, <2>2, <2>3
<1>5. FirstWord(q) = SubSeq(q, 1, k)
  BY <1>1, <1>3, <1>4 DEF FirstWord
<1>6. \A i \in 1 .. k : q[i] \in S
  BY <1>1, ElementOfSeq DEF k
<1>7. /\ SubSeq(q, 1, k) \in Seq(S)
      /\ Len(SubSeq(q, 1, k)) = k
      /\ \A i \in 1 .. k : SubSeq(q, 1, k)[i] = q[i]
  BY <1>1, <1>6, SubSeqProperties
<1>8. SubSeq(q, 1, k) = u
  BY <1>1, <1>7, SeqEqual DEF k
<1> QED BY <1>5, <1>8

LEMMA WordIsFirst ==
  ASSUME NEW S, NEW u \in Seq(S), IsWord(u)
  PROVE  FirstWord(u) = u
<1>1. Len(u) <= Len(u) /\ ~ (Len(u) < Len(u))
  BY LenProperties
<1> QED BY <1>1, FirstWordIsPrefix

\* The name of a login that is a word arrives as it was sent, whatever the password.
LEMMA NameArrives ==
  ASSUME NEW u \in Seq(Char), NEW w \in Seq(Char), IsWord(u)
  PROVE  msg2user(user_msg(u, w)).username = u
<1> DEFINE S == Char \cup {Blank, Now}
           ub == u \o <<Blank>>
           ubw == ub \o w
           q == ubw \o <<Blank, Now>>
<1>1. /\ u \in Seq(S) /\ w \in Seq(S) /\ <<Blank>> \in Seq(S) /\ <<Blank, Now>> \in Seq(S)
      /\ Len(<<Blank>>) = 1 /\ <<Blank>>[1] = Blank /\ Len(<<Blank, Now>>) = 2
  BY SeqMonotonic
<1>2. Len(u) \in Nat /\ Len(w) \in Nat
  BY LenProperties
<1> HIDE DEF S
<1>3. /\ ub \in Seq(S) /\ Len(ub) = Len(u) + 1
      /\ \A i \in 1 .. Len(u) + 1 : ub[i] = IF i <= Len(u) THEN u[i] ELSE <<Blank>>[i - Len(u)]
  BY <1>1, ConcatProperties
<1>4. (\A i \in 1 .. Len(u) : ub[i] = u[i]) /\ ub[Len(u) + 1] = Blank
  <2>1. \A i \in 1 .. Len(u) : i \in 1 .. Len(u) + 1 /\ i <= Len(u)
    BY <1>2
  <2>2. Len(u) + 1 \in 1 .. Len(u) + 1 /\ ~ (Len(u) + 1 <= Len(u)) /\ Len(u) + 1 - Len(u) = 1
    BY <1>2
  <2> QED BY <1>1, <1>3, <2>1, <2>2
<1> HIDE DEF ub
<1>5. /\ ubw \in Seq(S) /\ Len(ubw) = Len(u) + 1 + Len(w)
      /\ \A i \in 1 .. Len(u) + 1 : ubw[i] = ub[i]
  <2>1. /\ ubw \in Seq(S) /\ Len(ubw) = Len(ub) + Len(w)
        /\ \A i \in 1 .. Len(ub) + Len(w) : ubw[i] = IF i <= Len(ub) THEN ub[i] ELSE w[i - Len(ub)]
    <3>1. ub \in Seq(S) /\ w \in Seq(S)
      BY <1>1, <1>3
    <3> QED BY <3>1, ConcatProperties, Zenon
  <2> HIDE DEF ubw
  <2>2. \A i \in 1 .. Len(u) + 1 : i \in 1 .. Len(ub) + Len(w) /\ i <= Len(ub)
    BY <1>2, <1>3
  <2> QED BY <1>2, <1>3, <2>1, <2>2
<1> HIDE DEF ubw
<1>6. /\ q \in Seq(S) /\ Len(q) = Len(u) + 1 + Len(w) + 2
      /\ \A i \in 1 .. Len(u) + 1 : q[i] = ubw[i]
  BY <1>1, <1>2, <1>5, ConcatProperties
<1>7. user_msg(u, w) = q
  <2>1. w \o <<Blank, Now>> \in Seq(S) /\ <<Blank>> \o (w \o <<Blank, Now>>) \in Seq(S)
    BY <1>1, ConcatProperties
  <2> QED BY <1>1, <1>3, <2>1, ConcatAssociative DEF user_msg, ubw, ub
<1> HIDE DEF q
<1>8. FirstWord(q) = u
  <2>1. /\ \A i \in 1 .. Len(u) : i \in 1 .. Len(u) + 1
        /\ Len(u) + 1 \in 1 .. Len(u) + 1 /\ Len(u) < Len(q)
    BY <1>2, <1>6
  <2>2. (\A i \in 1 .. Len(u) : q[i] = u[i]) /\ q[Len(u) + 1] = Blank
    BY <1>4, <1>5, <1>6, <2>1
  <2> QED BY <1>1, <1>6, <2>1, <2>2, FirstWordIsPrefix
<1> QED BY <1>7, <1>8 DEF msg2user

-----------------------------------------------------------------------------
(***************************************************************************)
(* Queues.                                                                 *)
(***************************************************************************)
LEMMA PendingFinite ==
  ASSUME NEW S, NEW q \in Seq(S)
  PROVE  IsFiniteSet(LoginsAt(q)) /\ Pending(q) \in Nat
<1>1. Len(q) \in Nat
  BY LenProperties
<1>2. IsFiniteSet(1 .. Len(q))
  BY <1>1, FS_Interval
<1>3. LoginsAt(q) \in SUBSET (1 .. Len(q))
  BY DEF LoginsAt
<1>4. IsFiniteSet(LoginsAt(q))
  BY <1>2, <1>3, FS_Subset
<1> QED BY <1>4, FS_CardinalityType DEF Pending

LEMMA NonePending ==
  ASSUME NEW S, NEW q \in Seq(S), Pending(q) = 0
  PROVE  \A m \in Elems(q) : m.type # "LOGIN"
<1>1. LoginsAt(q) = {}
  BY PendingFinite, FS_EmptySet DEF Pending
<1> QED BY <1>1 DEF Elems, LoginsAt

LEMMA EmptyQueue == Elems(<<>>) = {} /\ Pending(<<>>) = 0
<1>1. Elems(<<>>) = {} /\ LoginsAt(<<>>) = {}
  BY EmptySeq DEF Elems, LoginsAt
<1> QED BY <1>1, FS_EmptySet DEF Pending

LEMMA HeadOfQueue ==
  ASSUME NEW S, NEW q \in Seq(S), q # <<>>
  PROVE  /\ Head(q) \in S /\ Head(q) \in Elems(q) /\ Head(q) = q[1]
         /\ Len(q) \in Nat \ {0}
         /\ Head(q).type = "LOGIN" => Pending(q) >= 1
<1>1. Len(q) \in Nat \ {0} /\ Head(q) = q[1] /\ Head(q) \in S
  BY EmptySeq, HeadTailProperties
<1>2. Head(q) \in Elems(q)
  BY <1>1 DEF Elems
<1>3. ASSUME Head(q).type = "LOGIN"
      PROVE  Pending(q) >= 1
  <2>1. 1 \in LoginsAt(q)
    BY <1>1, <1>3 DEF LoginsAt
  <2>2. Pending(q) # 0
    BY <2>1, PendingFinite, FS_EmptySet DEF Pending
  <2> QED BY <2>2, PendingFinite
<1> QED BY <1>1, <1>2, <1>3

LEMMA QueueAppend ==
  ASSUME NEW S, NEW q \in Seq(S), NEW m \in S
  PROVE  /\ Append(q, m) \in Seq(S)
         /\ Elems(Append(q, m)) = Elems(q) \cup {m}
         /\ Pending(Append(q, m)) = Pending(q) + (IF m.type = "LOGIN" THEN 1 ELSE 0)
<1> DEFINE r == Append(q, m)
           n == Len(q)
<1>1. /\ n \in Nat /\ r \in Seq(S) /\ Len(r) = n + 1
      /\ \A i \in 1 .. n : r[i] = q[i]
      /\ r[n + 1] = m
  BY AppendProperties, LenProperties
<1> HIDE DEF r
<1>2. Elems(r) = Elems(q) \cup {m}
  <2>1. Elems(r) \subseteq Elems(q) \cup {m}
    <3> SUFFICES ASSUME NEW i \in 1 .. n + 1 PROVE r[i] \in Elems(q) \cup {m}
      BY <1>1 DEF Elems
    <3>1. CASE i = n + 1
      BY <1>1, <3>1
    <3>2. CASE i \in 1 .. n
      BY <1>1, <3>2 DEF Elems
    <3> QED BY <1>1, <3>1, <3>2
  <2>2. Elems(q) \subseteq Elems(r)
    <3> SUFFICES ASSUME NEW i \in 1 .. n PROVE q[i] \in Elems(r)
      BY DEF Elems
    <3>1. i \in 1 .. Len(r) /\ q[i] = r[i]
      BY <1>1
    <3> QED BY <3>1 DEF Elems
  <2>3. m \in Elems(r)
    <3>1. n + 1 \in 1 .. Len(r)
      BY <1>1
    <3> QED BY <1>1, <3>1 DEF Elems
  <2> QED BY <2>1, <2>2, <2>3
<1>3. n + 1 \notin LoginsAt(q)
  BY <1>1 DEF LoginsAt
<1>4. CASE m.type = "LOGIN"
  <2>1. LoginsAt(r) = LoginsAt(q) \cup {n + 1}
    BY <1>1, <1>4 DEF LoginsAt
  <2>2. IsFiniteSet(LoginsAt(q))
    BY PendingFinite
  <2>3. Cardinality(LoginsAt(r)) = Cardinality(LoginsAt(q)) + 1
    BY <1>3, <2>1, <2>2, FS_AddElement
  <2> QED BY <1>1, <1>2, <1>4, <2>3 DEF Pending, r
<1>5. CASE m.type # "LOGIN"
  <2>1. LoginsAt(r) = LoginsAt(q)
    BY <1>1, <1>5 DEF LoginsAt
  <2> QED BY <1>1, <1>2, <1>5, <2>1, PendingFinite DEF Pending, r
<1> QED BY <1>4, <1>5

\* The messages that are lost when a process ends are the last ones.
LEMMA QueueKeeps ==
  ASSUME NEW S, NEW q \in Seq(S), NEW n \in 0 .. Len(q)
  PROVE  /\ SubSeq(q, 1, n) \in Seq(S)
         /\ Elems(SubSeq(q, 1, n)) \subseteq Elems(q)
         /\ Pending(SubSeq(q, 1, n)) <= Pending(q)
<1> DEFINE r == SubSeq(q, 1, n)
<1>1. Len(q) \in Nat /\ n \in Nat /\ n <= Len(q)
  BY LenProperties
<1>2. \A i \in 1 .. n : q[i] \in S
  BY <1>1, ElementOfSeq
<1>3. /\ r \in Seq(S) /\ Len(r) = n
      /\ \A i \in 1 .. n : r[i] = q[i]
  BY <1>1, <1>2, SubSeqProperties
<1> HIDE DEF r
<1>4. Elems(r) \subseteq Elems(q)
  BY <1>1, <1>3 DEF Elems
<1>5. LoginsAt(r) \in SUBSET LoginsAt(q)
  BY <1>1, <1>3 DEF LoginsAt
<1>6. Pending(r) <= Pending(q)
  BY <1>5, PendingFinite, FS_Subset DEF Pending
<1> QED BY <1>3, <1>4, <1>6 DEF r

LEMMA RestOfQueue ==
  ASSUME NEW S, NEW q \in Seq(S), NEW n \in 1 .. Len(q)
  PROVE  LET r == SubSeq(q, n + 1, Len(q)) IN
         /\ r \in Seq(S) /\ Len(r) = Len(q) - n
         /\ \A i \in 1 .. Len(q) - n : n + i \in 1 .. Len(q) /\ r[i] = q[n + i]
<1> DEFINE r == SubSeq(q, n + 1, Len(q))
<1>1. Len(q) \in Nat /\ n \in Nat \ {0} /\ n <= Len(q)
  BY LenProperties
<1>2. \A i \in n + 1 .. Len(q) : q[i] \in S
  BY <1>1, ElementOfSeq
<1>3. /\ r \in Seq(S)
      /\ Len(r) = IF n + 1 <= Len(q) THEN Len(q) - (n + 1) + 1 ELSE 0
      /\ \A i \in 1 .. Len(q) - (n + 1) + 1 : r[i] = q[n + 1 + i - 1]
  BY <1>1, <1>2, SubSeqProperties
<1> HIDE DEF r
<1>4. Len(r) = Len(q) - n
  BY <1>1, <1>3
<1>5. \A i \in 1 .. Len(q) - n : /\ i \in 1 .. Len(q) - (n + 1) + 1 /\ n + 1 + i - 1 = n + i
                                /\ n + i \in 1 .. Len(q)
  BY <1>1
<1> QED BY <1>3, <1>4, <1>5 DEF r

\* What is read and not handled are the messages after the first.
LEMMA QueueDrops ==
  ASSUME NEW S, NEW q \in Seq(S), q # <<>>, NEW n \in 1 .. Len(q)
  PROVE  /\ SubSeq(q, n + 1, Len(q)) \in Seq(S)
         /\ Elems(SubSeq(q, n + 1, Len(q))) \subseteq Elems(q)
         /\ Pending(SubSeq(q, n + 1, Len(q))) + (IF Head(q).type = "LOGIN" THEN 1 ELSE 0)
              <= Pending(q)
<1> DEFINE r == SubSeq(q, n + 1, Len(q))
           others == LoginsAt(q) \ {1}
           f == [i \in LoginsAt(r) |-> n + i]
<1>1. Len(q) \in Nat /\ n \in Nat \ {0} /\ n <= Len(q) /\ Head(q) = q[1]
  BY LenProperties, HeadOfQueue
<1>3. /\ r \in Seq(S) /\ Len(r) = Len(q) - n
      /\ \A i \in 1 .. Len(q) - n : n + i \in 1 .. Len(q) /\ r[i] = q[n + i]
  BY RestOfQueue
<1> HIDE DEF r
<1>4. Elems(r) \subseteq Elems(q)
  BY <1>3 DEF Elems
<1>5. IsFiniteSet(others) /\ IsFiniteSet(LoginsAt(r))
  BY <1>3, PendingFinite, FS_RemoveElement
<1>6. f \in Injection(LoginsAt(r), others)
  <2>1. \A i \in LoginsAt(r) : n + i \in others
    BY <1>1, <1>3 DEF LoginsAt
  <2>2. f \in [LoginsAt(r) -> others]
    BY <2>1
  <2>3. \A i, j \in LoginsAt(r) : f[i] = f[j] => i = j
    BY <1>1, <1>3 DEF LoginsAt
  <2> QED BY <2>2, <2>3 DEF Injection, IsInjective
<1>7. Pending(r) <= Cardinality(others)
  BY <1>5, <1>6, FS_Injection DEF Pending
<1>8. 1 \in LoginsAt(q) <=> Head(q).type = "LOGIN"
  BY <1>1 DEF LoginsAt
<1>9. Cardinality(others) = IF Head(q).type = "LOGIN" THEN Pending(q) - 1 ELSE Pending(q)
  BY <1>8, PendingFinite, FS_RemoveElement DEF Pending
<1>10. Pending(r) \in Nat /\ Pending(q) \in Nat
  BY <1>3, PendingFinite
<1> HIDE DEF others
<1>11. Pending(r) + (IF Head(q).type = "LOGIN" THEN 1 ELSE 0) <= Pending(q)
  BY <1>7, <1>9, <1>10
<1> QED BY <1>3, <1>4, <1>11 DEF r

LEMMA OrderAppend ==
  ASSUME NEW S, NEW q \in Seq(S), NEW m \in S, InOrder(q),
         \A x \in Elems(q) : x.type = "TEXT" /\ m.type = "TEXT" => x.nr < m.nr
  PROVE  InOrder(Append(q, m))
<1> DEFINE r == Append(q, m)
<1>1. /\ Len(q) \in Nat /\ Len(r) = Len(q) + 1
      /\ \A i \in 1 .. Len(q) : r[i] = q[i]
      /\ r[Len(q) + 1] = m
  BY AppendProperties, LenProperties
<1> HIDE DEF r
<1> SUFFICES ASSUME NEW i \in 1 .. Len(r), NEW j \in 1 .. Len(r), i < j,
                    r[i].type = "TEXT", r[j].type = "TEXT"
             PROVE  r[i].nr < r[j].nr
  BY DEF InOrder, r
<1>2. i \in 1 .. Len(q) /\ r[i] = q[i] /\ q[i] \in Elems(q)
  <2>1. i \in 1 .. Len(q)
    BY <1>1
  <2> QED BY <1>1, <2>1 DEF Elems
<1>3. CASE j \in 1 .. Len(q)
  BY <1>1, <1>2, <1>3 DEF InOrder
<1>4. CASE j = Len(q) + 1
  BY <1>1, <1>2, <1>4
<1> QED BY <1>1, <1>3, <1>4

LEMMA OrderKeeps ==
  ASSUME NEW S, NEW q \in Seq(S), NEW n \in 0 .. Len(q), InOrder(q)
  PROVE  InOrder(SubSeq(q, 1, n))
<1> DEFINE r == SubSeq(q, 1, n)
<1>1. Len(q) \in Nat /\ n \in Nat /\ n <= Len(q)
  BY LenProperties
<1>2. \A i \in 1 .. n : q[i] \in S
  BY <1>1, ElementOfSeq
<1>3. Len(r) = n /\ \A i \in 1 .. n : r[i] = q[i]
  BY <1>1, <1>2, SubSeqProperties
<1> HIDE DEF r
<1>4. \A i \in 1 .. n : i \in 1 .. Len(q)
  BY <1>1
<1>5. InOrder(r)
  BY <1>3, <1>4 DEF InOrder
<1> QED BY <1>5 DEF r

LEMMA OrderDrops ==
  ASSUME NEW S, NEW q \in Seq(S), q # <<>>, NEW n \in 1 .. Len(q), InOrder(q)
  PROVE  /\ InOrder(SubSeq(q, n + 1, Len(q)))
         /\ Head(q).type = "TEXT" =>
              \A x \in Elems(SubSeq(q, n + 1, Len(q))) : x.type = "TEXT" => Head(q).nr < x.nr
<1> DEFINE r == SubSeq(q, n + 1, Len(q))
<1>1. Len(q) \in Nat \ {0} /\ n \in Nat \ {0} /\ n <= Len(q) /\ Head(q) = q[1]
  BY LenProperties, HeadOfQueue
<1>2. /\ Len(r) = Len(q) - n
      /\ \A i \in 1 .. Len(q) - n : n + i \in 1 .. Len(q) /\ r[i] = q[n + i]
  BY RestOfQueue
<1> HIDE DEF r
<1>3. ASSUME NEW i \in 1 .. Len(r), NEW j \in 1 .. Len(r), i < j,
             r[i].type = "TEXT", r[j].type = "TEXT"
      PROVE  r[i].nr < r[j].nr
  <2>1. n + i < n + j
    BY <1>1, <1>2, <1>3
  <2>2. /\ n + i \in 1 .. Len(q) /\ r[i] = q[n + i]
        /\ n + j \in 1 .. Len(q) /\ r[j] = q[n + j]
    BY <1>2
  <2> QED BY <1>3, <2>1, <2>2 DEF InOrder
<1>4. ASSUME NEW j \in 1 .. Len(r), Head(q).type = "TEXT", r[j].type = "TEXT"
      PROVE  Head(q).nr < r[j].nr
  <2>1. 1 \in 1 .. Len(q) /\ 1 < n + j
    BY <1>1, <1>2
  <2>2. n + j \in 1 .. Len(q) /\ r[j] = q[n + j]
    BY <1>2
  <2> QED BY <1>1, <1>4, <2>1, <2>2 DEF InOrder
<1>5. InOrder(r)
  BY <1>3 DEF InOrder
<1> QED BY <1>4, <1>5 DEF r, Elems

LEMMA QueueTail ==
  ASSUME NEW S, NEW q \in Seq(S), q # <<>>
  PROVE  /\ Tail(q) \in Seq(S)
         /\ Elems(Tail(q)) \subseteq Elems(q)
         /\ Pending(Tail(q)) + (IF Head(q).type = "LOGIN" THEN 1 ELSE 0) <= Pending(q)
<1>1. Tail(q) = SubSeq(q, 1 + 1, Len(q))
  BY TailIsSubSeq
<1>2. 1 \in 1 .. Len(q)
  BY HeadOfQueue
<1> QED BY <1>1, <1>2, QueueDrops

-----------------------------------------------------------------------------
(***************************************************************************)
(* The invariant, action by action.                                        *)
(***************************************************************************)
Inv == Types /\ LoginsCounted /\ IdsGranted /\ ChatsTyped /\ NamesMatch

LEMMA CutTypes ==
  ASSUME NEW name \in Seq(Char), NEW word \in Seq(Char)
  PROVE  CutAt(name, word) \in Seq(Char)
<1>1. Len(name) \in Nat /\ Len(word) \in Nat
  BY LenProperties
<1>2. (IF Len(word) < Len(name) THEN Len(word) ELSE Len(name)) \in 0 .. Len(name)
  BY <1>1
<1> QED BY <1>2, QueueKeeps DEF CutAt

\* Chats that are lost leave the others as they were typed.
LEMMA ChatsKept ==
  ASSUME ChatsTyped, UNCHANGED <<typed, handled>>,
         Elems(toServer') \subseteq Elems(toServer), InOrder(toServer')
  PROVE  ChatsTyped'
BY DEF ChatsTyped, AsTyped

LEMMA EmptyIsNoWord == Empty \in Seq(Char) /\ ~ IsWord(Empty)
BY EmptySeq DEF Empty, IsWord

LEMMA InitInv == Init => Inv
<1> SUFFICES ASSUME Init PROVE Inv
  OBVIOUS
<1> USE DEF Init, ClientInit
<1>1. Types
  <2>1. /\ toServer \in Seq(Requests) /\ toClient \in Seq(Replies)
        /\ username \in Seq(Char) /\ pass \in Seq(Char)
    BY EmptyIsNoWord, EmptySeq
  <2>2. inputs \in 0 .. MaxInput /\ waiting \in Nat
    BY MaxInputAssumption
  <2> QED BY <2>1, <2>2 DEF Types
<1>2. LoginsCounted
  BY EmptyQueue DEF LoginsCounted
<1>3. IdsGranted /\ ChatsTyped /\ NamesMatch
  <2>1. InOrder(<<>>) /\ <<>> \in Seq(Line) /\ <<>> \in Seq(Requests)
    BY EmptySeq DEF InOrder
  <2> QED BY <2>1, EmptyQueue
          DEF IdsGranted, LoginAcknowledged, ChatsTyped, NamesMatch, NameIsOfUser
<1> QED BY <1>1, <1>2, <1>3 DEF Inv

LEMMA PromptsInv ==
  ASSUME Inv, stdin_cbPrompts, UNCHANGED serverVars
  PROVE  Inv'
<1> USE DEF Inv, stdin_cbPrompts, client, serverVars
<1>1. Types'
  BY MaxInputAssumption DEF Types
<1>2. LoginsCounted'
  BY DEF LoginsCounted, Types
<1>3. IdsGranted'
  BY DEF IdsGranted, LoginAcknowledged
<1>4. ChatsTyped'
  BY DEF ChatsTyped, AsTyped
<1>5. NamesMatch'
  BY DEF NamesMatch, NameIsOfUser
<1> QED BY <1>1, <1>2, <1>3, <1>4, <1>5

LEMMA LoginInv ==
  ASSUME Inv, NEW name \in Typed, NEW word \in Typed,
         prompting, SendLogin(name, word), prompting' = FALSE,
         UNCHANGED <<inputs, typed>>, UNCHANGED serverVars
  PROVE  Inv'
<1> USE DEF Inv, SendLogin, serverVars
<1> DEFINE cut == CutAt(name, word)
           m == Login(cut, user_msg(cut, word))
<1>1. cut \in Seq(Char) /\ word \in Seq(Char)
  BY TypedAssumption, CutTypes
<1> HIDE DEF cut
<1>2. m \in Requests /\ m.type = "LOGIN"
  BY <1>1 DEF Requests, Login
<1>3. toServer' = Append(toServer, m) /\ username' = cut /\ pass' = word
  BY DEF cut
<1>4. m = Login(username', user_msg(username', pass'))
  BY <1>3
<1> HIDE DEF m
<1>5. toServer \in Seq(Requests) /\ toClient \in Seq(Replies) /\ waiting \in Nat /\ inputs \in Nat
  BY MaxInputAssumption DEF Types
<1>6. /\ toServer' \in Seq(Requests)
      /\ Elems(toServer') = Elems(toServer) \cup {m}
      /\ Pending(toServer') = Pending(toServer) + 1
  BY <1>2, <1>3, <1>5, QueueAppend
<1>7. Pending(toServer) \in Nat /\ Pending(toClient) \in Nat
  BY <1>5, PendingFinite
<1>8. overlapped' \in BOOLEAN /\ waiting' = waiting + 1 /\ (~ overlapped' => waiting = 0)
  <2>1. (overlapped' <=> (overlapped \/ waiting > 0)) /\ overlapped' \in BOOLEAN
    BY DEF Types
  <2>2. ~ (waiting > 0) => waiting = 0
    BY <1>5
  <2> QED BY <2>1, <2>2
<1>9. Types' /\ LoginsCounted'
  <2>1. Types'
    <3>1. waiting' \in Nat
      BY <1>5, <1>8
    <3> QED BY <1>1, <1>3, <1>6, <1>8, <3>1 DEF Types
  <2>2. LoginsCounted'
    <3>1. waiting + 1 <= inputs /\ Pending(toServer) + Pending(toClient) <= waiting
      BY DEF LoginsCounted
    <3>2. waiting' <= inputs'
      BY <1>8, <3>1
    <3>3. Pending(toServer') + Pending(toClient') <= waiting'
      BY <1>5, <1>6, <1>7, <1>8, <3>1
    <3>4. ~ overlapped' => waiting' <= 1
      BY <1>8
    <3> QED BY <3>2, <3>3, <3>4 DEF LoginsCounted
  <2> QED BY <2>1, <2>2
<1>10. IdsGranted'
  BY DEF IdsGranted, LoginAcknowledged
<1>11. ChatsTyped'
  <2>1. InOrder(toServer')
    BY <1>2, <1>3, <1>5, OrderAppend DEF ChatsTyped
  <2> QED BY <1>2, <1>6, <2>1 DEF ChatsTyped, AsTyped
<1>12. NamesMatch'
  <2>1. ASSUME ~ overlapped'
        PROVE  /\ \A x \in Elems(toServer) : x.type # "LOGIN"
               /\ \A x \in Elems(toClient) : x.type # "LOGIN"
    <3>1. waiting = 0
      BY <1>8, <2>1
    <3>2. Pending(toServer) = 0 /\ Pending(toClient) = 0
      BY <1>7, <3>1 DEF LoginsCounted
    <3> QED BY <1>5, <3>2, NonePending
  <2>2. ~ is_login'
    BY DEF NamesMatch
  <2> QED BY <1>4, <1>6, <2>1, <2>2 DEF NamesMatch, NameIsOfUser
<1> QED BY <1>9, <1>10, <1>11, <1>12

\* The client process ends.
LEMMA ExitInv ==
  ASSUME Inv, Exit, UNCHANGED serverVars
  PROVE  Inv'
<1> USE DEF Inv, Exit, client, history, serverVars
<1>1. toServer \in Seq(Requests) /\ toClient \in Seq(Replies) /\ waiting \in Nat
  BY DEF Types
<1>2. PICK n \in 0 .. Len(toServer) : toServer' = SubSeq(toServer, 1, n)
  OBVIOUS
<1>3. /\ toServer' \in Seq(Requests)
      /\ Elems(toServer') \subseteq Elems(toServer)
      /\ Pending(toServer') <= Pending(toServer)
  BY <1>1, <1>2, QueueKeeps
<1>4. toClient' \in Seq(Replies) /\ Elems(toClient') = {} /\ Pending(toClient') = 0
  BY EmptySeq, EmptyQueue
<1>5. Pending(toServer) \in Nat /\ Pending(toClient) \in Nat /\ Pending(toServer') \in Nat
  BY <1>1, <1>3, PendingFinite
<1>6. Types'
  BY <1>3, <1>4 DEF Types
<1>7. LoginsCounted'
  BY <1>1, <1>3, <1>4, <1>5 DEF LoginsCounted
<1>8. IdsGranted'
  BY <1>4 DEF IdsGranted, LoginAcknowledged
<1>9. ChatsTyped'
  <2>1. InOrder(toServer')
    BY <1>1, <1>2, OrderKeeps DEF ChatsTyped
  <2> QED BY <1>3, <2>1, ChatsKept
<1>10. NamesMatch'
  BY <1>3, <1>4 DEF NamesMatch, NameIsOfUser
<1> QED BY <1>6, <1>7, <1>8, <1>9, <1>10

LEMMA ChatInv ==
  ASSUME Inv, NEW line \in Line, NEW g \in Room, stdin_cbChat(line, g), UNCHANGED serverVars
  PROVE  Inv'
<1> USE DEF Inv, stdin_cbChat, client, serverVars
<1> DEFINE msg == IF line.room = None THEN Empty ELSE FirstWord(line.text)
           m == Chat(username, msg, g, Len(typed) + 1)
<1>1. /\ toServer \in Seq(Requests) /\ toClient \in Seq(Replies)
      /\ waiting \in Nat /\ inputs \in Nat /\ username \in Seq(Char)
  BY MaxInputAssumption DEF Types
<1>2. msg \in Words
  BY DEF Words
<1>3. m \in Requests /\ m.type = "TEXT" /\ m.msg = msg
  <2>1. Len(typed) + 1 \in Nat
    BY LenProperties DEF ChatsTyped
  <2> QED BY <1>1, <1>2, <2>1 DEF Requests, Chat
<1>4. toServer' = Append(toServer, m)
  OBVIOUS
<1>5. m.nr = Len(typed) + 1 /\ m.room = g /\ (line.room # None => g = line.room)
  BY DEF Chat
<1> HIDE DEF m
<1>6. /\ toServer' \in Seq(Requests)
      /\ Elems(toServer') = Elems(toServer) \cup {m}
      /\ Pending(toServer') = Pending(toServer)
  <2> HIDE DEF Inv, stdin_cbChat
  <2>1. Pending(toServer) \in Nat /\ m.type # "LOGIN"
    BY <1>1, <1>3, PendingFinite
  <2>2. /\ Append(toServer, m) \in Seq(Requests)
        /\ Elems(Append(toServer, m)) = Elems(toServer) \cup {m}
        /\ Pending(Append(toServer, m)) = Pending(toServer) + (IF m.type = "LOGIN" THEN 1 ELSE 0)
    BY <1>1, <1>3, QueueAppend
  <2> QED BY <1>4, <2>1, <2>2
<1>7. Types'
  BY <1>6, MaxInputAssumption DEF Types
<1>8. LoginsCounted'
  BY <1>1, <1>6 DEF LoginsCounted, Ready
<1>9. IdsGranted'
  BY DEF IdsGranted, LoginAcknowledged
<1>10. ChatsTyped'
  <2>1. /\ typed' \in Seq(Line) /\ Len(typed) \in Nat /\ Len(typed') = Len(typed) + 1
        /\ \A i \in 1 .. Len(typed) : typed'[i] = typed[i]
        /\ typed'[Len(typed) + 1] = line
    BY AppendProperties, LenProperties DEF ChatsTyped
  <2>2. ASSUME NEW x, AsTyped(x) PROVE LineOf(x, typed') /\ x.nr < m.nr
    <3>1. x.nr \in 1 .. Len(typed') /\ x.nr \in 1 .. Len(typed) /\ x.nr < m.nr
      BY <1>5, <2>1, <2>2 DEF AsTyped, LineOf
    <3>2. typed'[x.nr] = typed[x.nr]
      BY <2>1, <3>1
    <3> QED BY <2>2, <3>1, <3>2 DEF AsTyped, LineOf
  <2>3. LineOf(m, typed')
    <3>1. m.nr \in 1 .. Len(typed') /\ typed'[m.nr] = line
      BY <1>5, <2>1
    <3>2. IsWord(line.text) => FirstWord(line.text) = line.text
      BY LineAssumption, WordIsFirst
    <3>3. m.msg # Empty => m.room = line.room /\ m.msg = FirstWord(line.text)
      BY <1>3, <1>5
    <3> HIDE DEF Inv, stdin_cbChat
    <3> QED BY <3>1, <3>2, <3>3 DEF LineOf
  <2>4. InOrder(toServer')
    BY <1>1, <1>3, <1>4, <2>2, OrderAppend DEF ChatsTyped
  <2>5. handled' = handled
    OBVIOUS
  <2>6. ChatsTyped
    OBVIOUS
  <2> HIDE DEF Inv, stdin_cbChat, client, serverVars
  <2>7. \A x \in Elems(toServer') : x.type = "TEXT" => LineOf(x, typed')
    BY <1>6, <2>2, <2>3, <2>6 DEF ChatsTyped
  <2>8. \A h \in Elems(handled) : h.type = "TEXT" /\ h.msg # Empty /\ LineOf(h, typed') /\ h.nr < m.nr
    BY <2>2, <2>6 DEF ChatsTyped
  <2> QED BY <1>6, <2>1, <2>4, <2>5, <2>6, <2>7, <2>8 DEF ChatsTyped, AsTyped
<1>11. NamesMatch'
  BY <1>3, <1>6 DEF NamesMatch, NameIsOfUser, Ready
<1> QED BY <1>7, <1>8, <1>9, <1>10, <1>11

LEMMA ReadInv ==
  ASSUME Inv, read_cb, UNCHANGED serverVars
  PROVE  Inv'
<1> USE DEF Inv, client, serverVars
<1> DEFINE m == Head(toClient)
<1>1. /\ toServer \in Seq(Requests) /\ toClient \in Seq(Replies) /\ toClient # <<>>
      /\ waiting \in Nat /\ toClient' = Tail(toClient)
  BY DEF Types, read_cb
<1>2. m \in Replies /\ m \in Elems(toClient) /\ (m.type = "LOGIN" => Pending(toClient) >= 1)
  BY <1>1, HeadOfQueue
<1>3. /\ toClient' \in Seq(Replies)
      /\ Elems(toClient') \subseteq Elems(toClient)
      /\ Pending(toClient') + (IF m.type = "LOGIN" THEN 1 ELSE 0) <= Pending(toClient)
  BY <1>1, QueueTail
<1>4. Pending(toServer) \in Nat /\ Pending(toClient) \in Nat /\ Pending(toClient') \in Nat
  BY <1>1, <1>3, PendingFinite
<1> HIDE DEF m
<1>5. /\ ~ prompting
      /\ UNCHANGED <<conn, prompting, toServer, inputs, overlapped, typed>>
      /\ UNCHANGED <<server, granted, handled>>
  BY DEF read_cb, Ready
<1>6. CASE /\ m.type = "LOGIN" /\ m.rc > 0
           /\ userId' = m.rc /\ is_login' = TRUE /\ waiting' = waiting - 1
           /\ UNCHANGED <<username, pass>>
  <2>1. m.rc \in Ids
    <3>1. PICK rc \in Ids \cup {ERROR_NORMAL, ERROR_USER_NOTEXISTS} : m = LoginReply(rc)
      BY <1>2, <1>6 DEF Replies, ChatReply
    <3> QED BY <1>6, <3>1 DEF LoginReply, ERROR_NORMAL, ERROR_USER_NOTEXISTS
  <2>2. waiting' \in Nat
    BY <1>1, <1>2, <1>4, <1>6 DEF LoginsCounted
  <2>3. Types'
    BY <1>3, <1>5, <1>6, <2>1, <2>2 DEF Types
  <2>4. LoginsCounted'
    BY <1>1, <1>3, <1>4, <1>5, <1>6, <2>3 DEF LoginsCounted, Types
  <2>5. IdsGranted'
    BY <1>2, <1>3, <1>5, <1>6 DEF IdsGranted, LoginAcknowledged
  <2>6. ChatsTyped'
    BY <1>5, <1>6 DEF ChatsTyped, AsTyped
  <2>7. NamesMatch'
    BY <1>2, <1>3, <1>5, <1>6 DEF NamesMatch, NameIsOfUser
  <2> QED BY <2>3, <2>4, <2>5, <2>6, <2>7
<1>7. CASE /\ m.type = "LOGIN" /\ m.rc <= 0
           /\ username' = Empty /\ pass' = Empty /\ waiting' = waiting - 1
           /\ UNCHANGED <<userId, is_login>>
  <2>1. waiting' \in Nat
    BY <1>1, <1>2, <1>4, <1>7 DEF LoginsCounted
  <2>2. Types'
    BY <1>3, <1>5, <1>7, <2>1, EmptyIsNoWord DEF Types
  <2>3. LoginsCounted'
    BY <1>1, <1>3, <1>4, <1>5, <1>7, <2>2 DEF LoginsCounted, Types
  <2>4. IdsGranted'
    BY <1>3, <1>5, <1>7 DEF IdsGranted, LoginAcknowledged
  <2>5. ChatsTyped'
    BY <1>5, <1>7 DEF ChatsTyped, AsTyped
  <2>6. NamesMatch'
    <3>1. ASSUME ~ overlapped PROVE \A x \in Elems(toServer) : x.type # "LOGIN"
      <4>1. Pending(toServer) = 0
        BY <1>1, <1>2, <1>4, <1>7, <3>1 DEF LoginsCounted
      <4> QED BY <1>1, <4>1, NonePending
    <3> QED BY <1>5, <1>7, <3>1, EmptyIsNoWord DEF NamesMatch, NameIsOfUser
  <2> QED BY <2>2, <2>3, <2>4, <2>5, <2>6
<1>8. CASE m.type # "LOGIN" /\ UNCHANGED <<client, waiting>>
  <2>1. Types'
    BY <1>3, <1>5, <1>8 DEF Types
  <2>2. LoginsCounted'
    BY <1>1, <1>3, <1>4, <1>5, <1>8 DEF LoginsCounted
  <2>3. IdsGranted'
    BY <1>3, <1>5, <1>8 DEF IdsGranted, LoginAcknowledged
  <2>4. ChatsTyped'
    BY <1>5, <1>8 DEF ChatsTyped, AsTyped
  <2>5. NamesMatch'
    BY <1>3, <1>5, <1>8 DEF NamesMatch, NameIsOfUser
  <2> QED BY <2>1, <2>2, <2>3, <2>4, <2>5
<1> QED BY <1>6, <1>7, <1>8 DEF read_cb, m

LEMMA ConnectedInv ==
  ASSUME Inv, event_cbConnected, UNCHANGED serverVars
  PROVE  Inv'
<1> USE DEF Inv, event_cbConnected, client, history, serverVars
<1>1. Types'
  BY DEF Types
<1>2. LoginsCounted'
  BY DEF LoginsCounted
<1>3. IdsGranted'
  BY DEF IdsGranted, LoginAcknowledged
<1>4. ChatsTyped'
  BY DEF ChatsTyped, AsTyped
<1>5. NamesMatch'
  BY DEF NamesMatch, NameIsOfUser
<1> QED BY <1>1, <1>2, <1>3, <1>4, <1>5

\* A login is handled: it is acknowledged under the account's id, or refused.
LEMMA Answered ==
  ASSUME Inv, NEW m \in Requests, handleLogin(m)
  PROVE  /\ m.type = "LOGIN" /\ handled' = handled /\ granted \subseteq granted'
         /\ granted' \subseteq (DOMAIN Account) \X Ids
         /\ \E rc \in Ids \cup {ERROR_NORMAL, ERROR_USER_NOTEXISTS} :
              /\ toClient' = Append(toClient, LoginReply(rc))
              /\ rc > 0 => <<msg2user(m.msg).username, rc>> \in granted'
<1> DEFINE u == msg2user(m.msg)
<1>1. granted \subseteq (DOMAIN Account) \X Ids
  BY DEF Inv, Types
<1>2. m.type = "LOGIN" /\ handled' = handled
  BY DEF handleLogin
<1>3. CASE /\ Granted(u)
           /\ granted' = granted \cup {<<u.username, Account[u.username].id>>}
           /\ toClient' = Append(toClient, LoginReply(Account[u.username].id))
  <2>1. u.username \in DOMAIN Account /\ Account[u.username].id \in Ids
    BY <1>3 DEF Granted, Ids
  <2>2. granted' \subseteq (DOMAIN Account) \X Ids
    BY <1>1, <1>3, <2>1
  <2>3. <<u.username, Account[u.username].id>> \in granted'
    BY <1>3
  <2> QED BY <1>2, <1>3, <2>1, <2>2, <2>3
<1>4. CASE /\ UNCHANGED granted
           /\ \E rc \in {ERROR_NORMAL} \cup (IF Granted(u) THEN {} ELSE {Refusal(u)}) :
                toClient' = Append(toClient, LoginReply(rc))
  <2>1. PICK rc \in {ERROR_NORMAL, ERROR_USER_NOTEXISTS} : toClient' = Append(toClient, LoginReply(rc))
    BY <1>4 DEF Refusal
  <2>2. ~ (rc > 0)
    BY DEF ERROR_NORMAL, ERROR_USER_NOTEXISTS
  <2> QED BY <1>1, <1>2, <1>4, <2>1, <2>2
<1> QED BY <1>3, <1>4 DEF handleLogin

LEMMA ServerReadsInv ==
  ASSUME Inv, readcb
  PROVE  Inv'
<1> USE DEF Inv, client, history
<1> DEFINE m == Head(toServer)
<1>1. /\ toServer \in Seq(Requests) /\ toClient \in Seq(Replies) /\ toServer # <<>>
      /\ waiting \in Nat
  BY DEF Types, readcb
<1>2. m \in Requests /\ m \in Elems(toServer)
  BY <1>1, HeadOfQueue
<1>3. PICK n \in 1 .. Len(toServer) : toServer' = SubSeq(toServer, n + 1, Len(toServer))
  BY DEF readcb, Consume
<1>4. /\ toServer' \in Seq(Requests)
      /\ Elems(toServer') \subseteq Elems(toServer)
      /\ Pending(toServer') + (IF m.type = "LOGIN" THEN 1 ELSE 0) <= Pending(toServer)
  BY <1>1, <1>3, QueueDrops
<1>5. Pending(toServer) \in Nat /\ Pending(toClient) \in Nat /\ Pending(toServer') \in Nat
  BY <1>1, <1>4, PendingFinite
<1>6. /\ InOrder(toServer')
      /\ m.type = "TEXT" => \A x \in Elems(toServer') : x.type = "TEXT" => m.nr < x.nr
  BY <1>1, <1>3, OrderDrops DEF ChatsTyped
<1> HIDE DEF m
<1>7. UNCHANGED <<conn, prompting, username, pass, userId, is_login,
                  inputs, waiting, overlapped, typed, server>>
  BY DEF readcb
<1>8. CASE m.msg = Empty /\ UNCHANGED <<granted, handled, toClient>>
  <2>1. Types'
    BY <1>4, <1>7, <1>8 DEF Types
  <2>2. LoginsCounted'
    BY <1>1, <1>4, <1>5, <1>7, <1>8 DEF LoginsCounted
  <2>3. IdsGranted'
    BY <1>7, <1>8 DEF IdsGranted, LoginAcknowledged
  <2>4. ChatsTyped'
    BY <1>4, <1>7, <1>8, <1>6, ChatsKept
  <2>5. NamesMatch'
    BY <1>4, <1>7, <1>8 DEF NamesMatch, NameIsOfUser
  <2> QED BY <2>1, <2>2, <2>3, <2>4, <2>5
<1>9. CASE m.msg # Empty /\ handleLogin(m)
  <2>1. /\ m.type = "LOGIN" /\ handled' = handled /\ granted \subseteq granted'
        /\ granted' \subseteq (DOMAIN Account) \X Ids
    BY <1>2, <1>9, Answered
  <2>2. PICK rc \in Ids \cup {ERROR_NORMAL, ERROR_USER_NOTEXISTS} :
              /\ toClient' = Append(toClient, LoginReply(rc))
              /\ rc > 0 => <<msg2user(m.msg).username, rc>> \in granted'
    BY <1>2, <1>9, Answered
  <2> DEFINE r == LoginReply(rc)
  <2>3. r \in Replies /\ r.type = "LOGIN" /\ r.rc = rc
    BY DEF Replies, LoginReply
  <2> HIDE DEF r
  <2>4. toClient' = Append(toClient, r)
    BY <2>2 DEF r
  <2>5. /\ toClient' \in Seq(Replies)
        /\ Elems(toClient') = Elems(toClient) \cup {r}
        /\ Pending(toClient') = Pending(toClient) + 1
    BY <1>1, <2>3, <2>4, QueueAppend
  <2>6. Types'
    BY <1>4, <1>7, <2>1, <2>5 DEF Types
  <2>7. LoginsCounted'
    BY <1>1, <1>4, <1>5, <1>7, <2>1, <2>5 DEF LoginsCounted
  <2>8. IdsGranted'
    <3>1. r.rc > 0 => \E g \in granted' : g[2] = r.rc
      BY <2>2, <2>3
    <3> QED BY <1>7, <2>1, <2>5, <3>1 DEF IdsGranted, LoginAcknowledged
  <2>9. ChatsTyped'
    BY <1>4, <1>7, <1>6, <2>1, ChatsKept
  <2>10. NamesMatch'
    <3>1. ASSUME ~ overlapped, r.rc > 0, IsWord(username)
          PROVE  <<username, r.rc>> \in granted'
      <4>1. m = Login(username, user_msg(username, pass))
        BY <1>2, <2>1, <3>1 DEF NamesMatch
      <4>2. msg2user(m.msg).username = username
        BY <3>1, <4>1, NameArrives DEF Types, Login
      <4> QED BY <2>2, <2>3, <3>1, <4>2
    <3>2. ASSUME ~ overlapped
          PROVE  \A x \in Elems(toClient') :
                   x.type = "LOGIN" /\ x.rc > 0 /\ IsWord(username) => <<username, x.rc>> \in granted'
      BY <2>1, <2>5, <3>1, <3>2 DEF NamesMatch
    <3>3. NameIsOfUser'
      BY <1>7, <2>1 DEF NamesMatch, NameIsOfUser
    <3> QED BY <1>4, <1>7, <3>2, <3>3 DEF NamesMatch
  <2> QED BY <2>6, <2>7, <2>8, <2>9, <2>10
<1>10. CASE m.msg # Empty /\ handleChat(m)
  <2>1. m.type = "TEXT" /\ handled' = Append(handled, m) /\ UNCHANGED <<granted, toClient>>
    BY <1>10 DEF handleChat
  <2>2. Types'
    BY <1>4, <1>7, <2>1 DEF Types
  <2>3. LoginsCounted'
    BY <1>1, <1>4, <1>5, <1>7, <2>1 DEF LoginsCounted
  <2>4. IdsGranted'
    BY <1>7, <2>1 DEF IdsGranted, LoginAcknowledged
  <2>5. ChatsTyped'
    <3>1. /\ handled' \in Seq(Requests)
          /\ Elems(handled') = Elems(handled) \cup {m}
      BY <1>2, <2>1, QueueAppend DEF ChatsTyped
    <3>2. AsTyped(m) /\ \A h \in Elems(handled) : h.nr < m.nr
      BY <1>2, <2>1 DEF ChatsTyped
    <3>3. InOrder(handled')
      BY <1>2, <2>1, <3>2, OrderAppend DEF ChatsTyped
    <3> HIDE DEF Inv, client, history
    <3> QED BY <1>4, <1>7, <1>10, <1>6, <2>1, <3>1, <3>2, <3>3 DEF ChatsTyped, AsTyped, Inv
  <2>6. NamesMatch'
    BY <1>4, <1>7, <2>1 DEF NamesMatch, NameIsOfUser
  <2> QED BY <2>2, <2>3, <2>4, <2>5, <2>6
<1> QED BY <1>8, <1>9, <1>10 DEF readcb, handleMessage, m

LEMMA OthersChatInv ==
  ASSUME Inv, OthersChat
  PROVE  Inv'
<1> USE DEF Inv, OthersChat, client, history, serverVars
<1>1. toServer \in Seq(Requests) /\ toClient \in Seq(Replies) /\ waiting \in Nat
  BY DEF Types
<1>2. ChatReply \in Replies /\ ChatReply.type = "TEXT"
  BY DEF Replies, ChatReply
<1>3. /\ toClient' \in Seq(Replies)
      /\ Elems(toClient') = Elems(toClient) \cup {ChatReply}
      /\ Pending(toClient') = Pending(toClient)
  BY <1>1, <1>2, QueueAppend, PendingFinite
<1>4. Types'
  BY <1>3 DEF Types
<1>5. LoginsCounted'
  BY <1>1, <1>3 DEF LoginsCounted
<1>6. IdsGranted'
  BY <1>2, <1>3 DEF IdsGranted, LoginAcknowledged
<1>7. ChatsTyped'
  BY DEF ChatsTyped, AsTyped
<1>8. NamesMatch'
  BY <1>2, <1>3 DEF NamesMatch, NameIsOfUser
<1> QED BY <1>4, <1>5, <1>6, <1>7, <1>8

LEMMA ServerStopsInv ==
  ASSUME Inv, ServerStops
  PROVE  Inv'
<1> USE DEF Inv, ServerStops, client, history
<1>1. toServer \in Seq(Requests) /\ toClient \in Seq(Replies) /\ waiting \in Nat
  BY DEF Types
<1>2. PICK n \in 0 .. Len(toClient) : toClient' = SubSeq(toClient, 1, n)
  OBVIOUS
<1>3. /\ toClient' \in Seq(Replies)
      /\ Elems(toClient') \subseteq Elems(toClient)
      /\ Pending(toClient') <= Pending(toClient)
  BY <1>1, <1>2, QueueKeeps
<1>4. toServer' \in Seq(Requests) /\ Elems(toServer') = {} /\ Pending(toServer') = 0
  BY EmptySeq, EmptyQueue
<1>5. Pending(toServer) \in Nat /\ Pending(toClient) \in Nat /\ Pending(toClient') \in Nat
  BY <1>1, <1>3, PendingFinite
<1>6. Types'
  BY <1>3, <1>4 DEF Types
<1>7. LoginsCounted'
  BY <1>1, <1>3, <1>4, <1>5 DEF LoginsCounted
<1>8. IdsGranted'
  BY <1>3 DEF IdsGranted, LoginAcknowledged
<1>9. ChatsTyped'
  BY <1>4, ChatsKept DEF InOrder
<1>10. NamesMatch'
  BY <1>3, <1>4 DEF NamesMatch, NameIsOfUser
<1> QED BY <1>6, <1>7, <1>8, <1>9, <1>10

LEMMA StutterInv ==
  ASSUME Inv, UNCHANGED vars
  PROVE  Inv'
<1> USE DEF Inv, vars, clientVars, client, history, serverVars
<1>1. Types' /\ LoginsCounted'
  BY DEF Types, LoginsCounted
<1>2. IdsGranted' /\ ChatsTyped' /\ NamesMatch'
  BY DEF IdsGranted, LoginAcknowledged, ChatsTyped, AsTyped, NamesMatch, NameIsOfUser
<1> QED BY <1>1, <1>2

LEMMA StepInv == Inv /\ [Next]_vars => Inv'
<1> SUFFICES ASSUME Inv, [Next]_vars PROVE Inv'
  OBVIOUS
<1>1. CASE stdin_cbPrompts /\ UNCHANGED serverVars
  BY <1>1, PromptsInv
<1>2. ASSUME NEW name \in Typed, NEW word \in Typed, stdin_cbLogin(name, word), UNCHANGED serverVars
      PROVE  Inv'
  <2>1. CASE /\ prompting /\ SendLogin(name, word) /\ prompting' = FALSE
             /\ UNCHANGED <<inputs, typed>>
    BY <1>2, <2>1, LoginInv
  <2>2. CASE Exit
    BY <1>2, <2>2, ExitInv
  <2> QED BY <1>2, <2>1, <2>2 DEF stdin_cbLogin
<1>3. ASSUME NEW line \in Line, NEW g \in Room, stdin_cbChat(line, g), UNCHANGED serverVars
      PROVE  Inv'
  BY <1>3, ChatInv
<1>4. CASE UserActs
  BY <1>1, <1>2, <1>3, <1>4, ExitInv DEF UserActs, Input, signal_cb
<1>5. CASE ClientLoop
  BY <1>5, ReadInv, ConnectedInv, ExitInv
  DEF ClientLoop, ClientReads, ClientConnects, ClientDisconnected, event_cbEnds
<1>6. CASE readcb
  BY <1>6, ServerReadsInv
<1>7. CASE OthersChat
  BY <1>7, OthersChatInv
<1>8. CASE ServerStops
  BY <1>8, ServerStopsInv
<1>9. CASE UNCHANGED vars
  BY <1>9, StutterInv
<1> QED BY <1>4, <1>5, <1>6, <1>7, <1>8, <1>9 DEF Next

LEMMA InvHolds == Spec => []Inv
BY InitInv, StepInv, PTL DEF Spec

-----------------------------------------------------------------------------
(***************************************************************************)
(* What LoginAnswered needs besides fairness: the login that is waited for *)
(* is somewhere.                                                           *)
(***************************************************************************)
\* Chats come after the first login that is acknowledged.
LoginsFirst == ~ is_login => \A m \in Elems(toServer) : m.type = "LOGIN"

\* LoginUnderWay over what is in the queue.
UnderWay ==
  waiting > 0 /\ ~ overlapped /\ server = "up" /\ conn # "exited" =>
    /\ ~ is_login
    /\ \/ toServer = <<Login(username, user_msg(username, pass))>>
       \/ toServer = <<>> /\ \E m \in Elems(toClient) : m.type = "LOGIN"

LEMMA TextNotEmpty ==
  ASSUME NEW u \in Seq(Char), NEW w \in Seq(Char)
  PROVE  user_msg(u, w) # Empty
<1> DEFINE S == Char \cup {Blank, Now}
           ub == u \o <<Blank>>
           ubw == ub \o w
           q == ubw \o <<Blank, Now>>
<1>1. /\ u \in Seq(S) /\ w \in Seq(S) /\ <<Blank>> \in Seq(S) /\ <<Blank, Now>> \in Seq(S)
      /\ Len(<<Blank, Now>>) = 2
  BY SeqMonotonic
<1> HIDE DEF S
<1>2. ub \in Seq(S)
  BY <1>1, ConcatProperties
<1>3. user_msg(u, w) = q
  <2>1. w \o <<Blank, Now>> \in Seq(S) /\ <<Blank>> \o (w \o <<Blank, Now>>) \in Seq(S)
    BY <1>1, ConcatProperties
  <2> QED BY <1>1, <1>2, <2>1, ConcatAssociative DEF user_msg
<1> HIDE DEF ub
<1>4. ubw \in Seq(S)
  BY <1>1, <1>2, ConcatProperties
<1> HIDE DEF ubw
<1>5. Len(q) = Len(ubw) + 2 /\ Len(ubw) \in Nat
  BY <1>1, <1>4, ConcatProperties, LenProperties
<1>6. Len(Empty) = 0
  BY EmptySeq DEF Empty
<1> QED BY <1>3, <1>5, <1>6

LEMMA TailElems ==
  ASSUME NEW S, NEW q \in Seq(S), q # <<>>
  PROVE  Elems(q) \subseteq {Head(q)} \cup Elems(Tail(q))
<1>1. /\ Len(q) \in Nat \ {0} /\ Head(q) = q[1]
      /\ Len(Tail(q)) = Len(q) - 1
      /\ \A i \in 1 .. Len(Tail(q)) : Tail(q)[i] = q[i + 1]
  BY HeadOfQueue, HeadTailProperties
<1> SUFFICES ASSUME NEW i \in 1 .. Len(q), i # 1
             PROVE  q[i] \in Elems(Tail(q))
  BY <1>1 DEF Elems
<1>2. i - 1 \in 1 .. Len(Tail(q)) /\ i - 1 + 1 = i
  BY <1>1
<1>3. Tail(q)[i - 1] = q[i]
  BY <1>1, <1>2
<1> QED BY <1>2, <1>3 DEF Elems

LEMMA NoElems ==
  ASSUME NEW S, NEW q \in Seq(S), Elems(q) = {}
  PROVE  q = <<>>
<1>1. Len(q) \in Nat
  BY LenProperties
<1>2. ~ (1 \in 1 .. Len(q))
  BY DEF Elems
<1>3. Len(q) = 0
  BY <1>1, <1>2
<1> QED BY <1>3, EmptySeq

LEMMA WayStep ==
  ASSUME Inv, LoginsFirst, UnderWay, [Next]_vars
  PROVE  LoginsFirst' /\ UnderWay'
<1> USE DEF client, history, serverVars
<1>1. /\ toServer \in Seq(Requests) /\ toClient \in Seq(Replies) /\ waiting \in Nat
      /\ username \in Seq(Char) /\ pass \in Seq(Char)
      /\ Pending(toServer) \in Nat /\ Pending(toClient) \in Nat
      /\ Pending(toServer) + Pending(toClient) <= waiting
      /\ ~ overlapped => waiting <= 1
      /\ prompting => ~ is_login
  BY PendingFinite DEF Inv, Types, LoginsCounted, NamesMatch
\* The stored name is the one of the login: no other message is before it.
<1>2. ASSUME NEW name \in Typed, NEW word \in Typed, prompting,
             SendLogin(name, word), UNCHANGED serverVars
      PROVE  LoginsFirst' /\ UnderWay'
  <2> DEFINE m == Login(username', user_msg(username', pass'))
  <2>1. /\ toServer' = Append(toServer, m) /\ m.type = "LOGIN"
        /\ username' \in Seq(Char) /\ pass' \in Seq(Char)
    BY <1>2, TypedAssumption, CutTypes DEF SendLogin, Login
  <2>2. m \in Requests
    BY <2>1 DEF Requests
  <2> HIDE DEF m
  <2>3. Elems(toServer') = Elems(toServer) \cup {m}
    BY <1>1, <2>1, <2>2, QueueAppend
  <2>4. ~ is_login /\ ~ is_login'
    BY <1>1, <1>2 DEF SendLogin
  <2>5. LoginsFirst'
    BY <2>1, <2>3, <2>4 DEF LoginsFirst
  <2>6. ASSUME ~ overlapped' PROVE toServer' = <<m>>
    <3>1. waiting = 0
      <4>1. overlapped' <=> overlapped \/ waiting > 0
        BY <1>2 DEF SendLogin, Inv, Types
      <4>2. ~ (waiting > 0)
        BY <2>6, <4>1
      <4> QED BY <1>1, <4>2
    <3>2. Pending(toServer) = 0
      BY <1>1, <3>1
    <3>3. \A x \in Elems(toServer) : x.type # "LOGIN" /\ x.type = "LOGIN"
      BY <1>1, <2>4, <3>2, NonePending DEF LoginsFirst
    <3>4. toServer = <<>>
      BY <1>1, <3>3, NoElems
    <3> QED BY <2>1, <3>4
  <2> QED BY <2>4, <2>5, <2>6 DEF UnderWay, m
<1>3. ASSUME Exit, UNCHANGED serverVars
      PROVE  LoginsFirst' /\ UnderWay'
  <2>1. Elems(toServer') \subseteq Elems(toServer)
    BY <1>1, <1>3, QueueKeeps DEF Exit
  <2> QED BY <1>3, <2>1 DEF Exit, LoginsFirst, UnderWay
<1>4. ASSUME NEW line \in Line, NEW g \in Room, stdin_cbChat(line, g), UNCHANGED serverVars
      PROVE  LoginsFirst' /\ UnderWay'
  BY <1>4 DEF stdin_cbChat, Ready, LoginsFirst, UnderWay
<1>5. ASSUME read_cb, UNCHANGED serverVars
      PROVE  LoginsFirst' /\ UnderWay'
  <2>1. toClient # <<>> /\ toClient' = Tail(toClient)
    BY <1>5 DEF read_cb
  <2>2. UNCHANGED <<conn, toServer, overlapped, server>> /\ (~ is_login' => ~ is_login)
    BY <1>5 DEF read_cb
  <2>3. LoginsFirst'
    BY <2>2 DEF LoginsFirst
  <2>4. CASE Head(toClient).type = "LOGIN"
    <3>1. waiting >= 1 /\ waiting' = waiting - 1
      BY <1>1, <1>5, <2>1, <2>4, HeadOfQueue DEF read_cb
    <3>2. ~ overlapped' => ~ (waiting' > 0)
      BY <1>1, <2>2, <3>1
    <3> QED BY <2>3, <3>2 DEF UnderWay
  <2>5. CASE Head(toClient).type # "LOGIN"
    <3>1. UNCHANGED <<username, pass, is_login, waiting>>
      BY <1>5, <2>5 DEF read_cb
    <3>2. (\E x \in Elems(toClient) : x.type = "LOGIN") => \E x \in Elems(toClient') : x.type = "LOGIN"
      BY <1>1, <2>1, <2>5, TailElems
    <3> QED BY <2>2, <2>3, <3>1, <3>2 DEF UnderWay
  <2> QED BY <2>4, <2>5
\* The server finds the login alone, and answers it.
<1>6. ASSUME readcb
      PROVE  LoginsFirst' /\ UnderWay'
  <2>1. UNCHANGED <<conn, client, waiting, overlapped, server>> /\ toServer # <<>>
    BY <1>6 DEF readcb
  <2>2. PICK n \in 1 .. Len(toServer) : toServer' = SubSeq(toServer, n + 1, Len(toServer))
    BY <1>6 DEF readcb, Consume
  <2>3. Elems(toServer') \subseteq Elems(toServer)
    BY <1>1, <2>1, <2>2, QueueDrops
  <2>4. LoginsFirst'
    BY <2>1, <2>3 DEF LoginsFirst
  <2>5. SUFFICES ASSUME waiting > 0, ~ overlapped, server = "up", conn # "exited"
                 PROVE  /\ ~ is_login /\ toServer' = <<>>
                        /\ \E x \in Elems(toClient') : x.type = "LOGIN"
    BY <2>1, <2>4 DEF UnderWay
  <2> DEFINE m == Login(username, user_msg(username, pass))
  <2>6. ~ is_login /\ toServer = <<m>>
    BY <2>1, <2>5 DEF UnderWay
  <2>7. m \in Requests /\ m.msg # Empty /\ m.type = "LOGIN"
    BY <1>1, TextNotEmpty DEF Requests, Login
  <2> HIDE DEF m
  <2>8. toServer' = <<>>
    <3>1. Len(toServer) = 1 /\ n = 1
      BY <2>6
    <3> QED BY <2>2, <2>6, <3>1
  <2>9. handleLogin(m)
    <3>1. Head(toServer) = m
      BY <2>6
    <3> QED BY <1>6, <2>7, <3>1 DEF readcb, handleMessage, handleChat
  <2>10. PICK rc \in Ids \cup {ERROR_NORMAL, ERROR_USER_NOTEXISTS} :
           toClient' = Append(toClient, LoginReply(rc))
    BY <2>7, <2>9, Answered
  <2>11. LoginReply(rc) \in Replies /\ LoginReply(rc).type = "LOGIN"
    BY DEF Replies, LoginReply
  <2>12. LoginReply(rc) \in Elems(toClient')
    BY <1>1, <2>10, <2>11, QueueAppend
  <2> QED BY <2>6, <2>8, <2>11, <2>12
<1>7. ASSUME OthersChat
      PROVE  LoginsFirst' /\ UnderWay'
  <2>1. ChatReply \in Replies
    BY DEF Replies
  <2>2. Elems(toClient) \subseteq Elems(toClient')
    BY <1>1, <1>7, <2>1, QueueAppend DEF OthersChat
  <2> QED BY <1>7, <2>2 DEF OthersChat, LoginsFirst, UnderWay
<1>8. ASSUME ServerStops
      PROVE  LoginsFirst' /\ UnderWay'
  BY <1>8, EmptyQueue DEF ServerStops, LoginsFirst, UnderWay
<1>9. ASSUME UNCHANGED <<client, toServer, toClient, waiting, overlapped, server>>,
             conn' = conn \/ conn # "exited"
      PROVE  LoginsFirst' /\ UnderWay'
  BY <1>9 DEF LoginsFirst, UnderWay
<1>10. CASE UserActs
  <2>1. CASE stdin_cbPrompts /\ UNCHANGED serverVars
    BY <1>9, <2>1 DEF stdin_cbPrompts
  <2> QED BY <1>2, <1>3, <1>4, <1>10, <2>1 DEF UserActs, Input, signal_cb, stdin_cbLogin
<1>11. CASE ClientLoop
  <2>1. CASE ClientConnects
    BY <1>9, <2>1 DEF ClientConnects, event_cbConnected, Ready
  <2> QED BY <1>3, <1>5, <1>11, <2>1 DEF ClientLoop, ClientReads, ClientDisconnected, event_cbEnds
<1>12. CASE UNCHANGED vars
  BY <1>9, <1>12 DEF vars, clientVars
<1> QED BY <1>6, <1>7, <1>8, <1>10, <1>11, <1>12 DEF Next

-----------------------------------------------------------------------------
(***************************************************************************)
(* Theorems                                                                *)
(***************************************************************************)

\* Every variable has its type.  In particular a behaviour never waits for
\* more logins than inputs were made, and a chat always names a room.
THEOREM TypeCorrect == Spec => []TypeOK
<1>1. Inv => TypeOK
  <2> SUFFICES ASSUME Inv PROVE TypeOK
    OBVIOUS
  <2>1. toServer \in Seq(Requests)
    BY DEF Inv, Types
  <2>2. ASSUME NEW i \in DOMAIN toServer, toServer[i].type = "TEXT"
        PROVE  toServer[i].room \in Room
    <3>1. toServer[i] \in Requests
      BY <2>1, LenProperties, ElementOfSeq
    <3>2. PICK n \in Seq(Char), x \in Words, g \in Room, k \in Nat :
                  toServer[i] = Chat(n, x, g, k)
      BY <2>2, <3>1 DEF Requests, Login
    <3> QED BY <3>2 DEF Chat
  <2>3. waiting \in 0 .. MaxInput
    BY MaxInputAssumption DEF Inv, Types, LoginsCounted
  <2> QED BY <2>2, <2>3 DEF Inv, Types, TypeOK
<1> QED BY <1>1, InvHolds, PTL

\* The client considers itself logged in only under an id that the server has
\* acknowledged to it, whatever is lost when either process ends: read_cb takes
\* for an id what handleLogin has answered, and a refusal is not an id.
THEOREM LoginIsAcknowledged == Spec => []LoginAcknowledged
<1>1. Inv => LoginAcknowledged
  BY DEF Inv, IdsGranted
<1> QED BY <1>1, InvHolds, PTL

\* The name that read_cb leaves in client is the one the server gave the id for,
\* when no login was sent before the last one was answered and the name is a
\* word: user_msg and msg2user carry it over, cut as it is by the password.
THEOREM NameIsOfTheUser == Spec => []NameIsOfUser
<1>1. Inv => NameIsOfUser
  BY DEF Inv, NamesMatch
<1> QED BY <1>1, InvHolds, PTL

\* The chats that handleChat gets are lines that the user has typed, in their order
\* and each at most once, whatever readcb drops with the first of what has arrived
\* and whatever is lost when a process ends; each has the room of its line, because
\* handleMessage drops the empty message that stdin_cb sends for a line without a
\* number, and the whole text of its line if that is a word.
THEOREM ChatsHandledAreTyped == Spec => []HandledAsTyped
<1>1. ASSUME Inv PROVE HandledAsTyped
  <2>1. DOMAIN handled = 1 .. Len(handled) /\ DOMAIN typed = 1 .. Len(typed)
    BY <1>1, LenProperties DEF Inv, ChatsTyped
  <2>2. \A i \in DOMAIN handled : handled[i] \in Elems(handled)
    BY <2>1 DEF Elems
  <2>3. /\ \A h \in Elems(handled) : h.type = "TEXT" /\ h.msg # Empty /\ AsTyped(h)
        /\ InOrder(handled)
    BY <1>1 DEF Inv, ChatsTyped
  <2> QED BY <2>1, <2>2, <2>3 DEF HandledAsTyped, AsTyped, LineOf, InOrder
<1> QED BY <1>1, InvHolds, PTL

\* A login that no other overlaps is never lost while both processes are up: it
\* is the first message that readcb finds, whatever the user typed before and
\* after it, its text is not empty, so that handleMessage does not drop it, and
\* login_user's answer stays on its way until read_cb has read it, whatever other
\* clients send meanwhile.  LoginAnswered adds that the event loops go on.
THEOREM LoginIsUnderWay == Spec => []LoginUnderWay
<1>1. Init => LoginsFirst /\ UnderWay
  BY EmptyQueue DEF Init, ClientInit, LoginsFirst, UnderWay
<1>2. ASSUME Inv, UnderWay PROVE LoginUnderWay
  <2>1. DOMAIN toClient = 1 .. Len(toClient)
    BY <1>2, LenProperties DEF Inv, Types
  <2>2. (\E m \in Elems(toClient) : m.type = "LOGIN")
        => \E i \in DOMAIN toClient : toClient[i].type = "LOGIN"
    BY <2>1 DEF Elems
  <2> QED BY <1>2, <2>2 DEF UnderWay, LoginUnderWay
<1> QED BY <1>1, <1>2, WayStep, InvHolds, PTL DEF Spec

=============================================================================
