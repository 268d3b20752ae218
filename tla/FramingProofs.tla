--------------------------- MODULE FramingProofs ---------------------------
(***************************************************************************)
(* Theorems about Framing, for any buffer, messages and texts, and bytes   *)
(* that arrive in any pieces.  That texts are read back (ReadsBack) is a   *)
(* hypothesis where it is needed: it is about lib/parson.c.                *)
(***************************************************************************)
EXTENDS Framing, TLAPS, SequenceTheorems

-----------------------------------------------------------------------------
(***************************************************************************)
(* The inductive invariant.                                                *)
(***************************************************************************)

\* The frames follow each other in the stream, and nothing else is in it.
FramesFollow ==
  /\ \A i \in 1 .. Len(ends) : Start(i) < ends[i]
  /\ \A i, j \in 1 .. Len(ends) : i < j => ends[i] < ends[j]
  /\ Start(Len(ends) + 1) = Len(stream)

\* A frame begins with the text of its message and the NUL, as far as it is long.
FrameHolds(i) ==
  /\ \A j \in 1 .. Len(Pack(sent[i])) + 1 :
       Start(i) + j <= ends[i] => stream[Start(i) + j] = ClientFrame(sent[i])[j]
  /\ writer = "client" => ends[i] = Start(i) + Len(Pack(sent[i])) + 1

Stream == TypeOK /\ FramesFollow /\ \A i \in 1 .. Len(sent) : FrameHolds(i)

\* h are some of the messages s, in order, whose frames end at e, up to t.
Picked(h, s, e, t) ==
  /\ h \in Seq(Messages)
  /\ \E from \in [1 .. Len(h) -> 1 .. Len(s)] :
       /\ \A i, j \in 1 .. Len(h) : i < j => from[i] < from[j]
       /\ \A i \in 1 .. Len(h) : h[i] = s[from[i]] /\ e[from[i]] <= t

\* While every read ends where a frame ends, the next one begins there, and
\* what is handled are, of the frames that have been taken, all on the way to
\* the client, and some in order on the way to the server.
HandledFrames ==
  ~ cut =>
    /\ taken \in Boundaries
    /\ writer = "server" =>
         \E k \in 0 .. Len(sent) : /\ handled = SubSeq(sent, 1, k)
                                   /\ ~ crashed => taken = Start(k + 1)
    /\ writer = "client" => Picked(handled, sent, ends, taken)

Inv == Stream /\ HandledFrames /\ DiesOfPiecesOnly

-----------------------------------------------------------------------------
(***************************************************************************)
(* Buffers and texts.                                                      *)
(***************************************************************************)
LEMMA BufferIsSeq ==
  ASSUME NEW b \in [1 .. MAX_BUFF -> Nat]
  PROVE  b \in Seq(Nat) /\ Len(b) = MAX_BUFF
<1>1. b \in Seq(Nat)
  BY BuffAssumption
<1>2. DOMAIN b = 1 .. MAX_BUFF /\ DOMAIN b = 1 .. Len(b) /\ Len(b) \in Nat
  BY <1>1, LenProperties
<1> QED BY <1>1, <1>2, BuffAssumption

LEMMA FillTypes ==
  ASSUME NEW byte \in Nat
  PROVE  Fill(byte) \in [1 .. MAX_BUFF -> Nat]
BY DEF Fill

LEMMA OverTypes ==
  ASSUME NEW bytes \in Seq(Nat), NEW memory \in [1 .. MAX_BUFF -> Nat]
  PROVE  /\ Over(bytes, memory) \in [1 .. MAX_BUFF -> Nat]
         /\ \A i \in 1 .. MAX_BUFF : i <= Len(bytes) => Over(bytes, memory)[i] = bytes[i]
<1>1. \A i \in 1 .. MAX_BUFF : i <= Len(bytes) => bytes[i] \in Nat
  BY ElementOfSeq, LenProperties
<1> QED BY <1>1 DEF Over

\* The n bytes that come after the first a.
LEMMA Piece ==
  ASSUME NEW s \in Seq(Nat), NEW a \in Nat, NEW n \in Nat, a + n <= Len(s)
  PROVE  /\ SubSeq(s, a + 1, a + n) \in Seq(Nat)
         /\ Len(SubSeq(s, a + 1, a + n)) = n
         /\ \A i \in 1 .. n : SubSeq(s, a + 1, a + n)[i] = s[a + i]
<1> DEFINE first == a + 1
           last == a + n
<1>1. Len(s) \in Nat /\ first \in Int /\ last \in Int
  BY LenProperties
<1>2. \A i \in first .. last : i \in 1 .. Len(s)
  BY <1>1
<1>3. \A i \in first .. last : s[i] \in Nat
  BY <1>2, ElementOfSeq
<1>4. (IF first <= last THEN last - first + 1 ELSE 0) = n /\ last - first + 1 = n
  OBVIOUS
<1>5. \A i \in 1 .. n : first + i - 1 = a + i
  OBVIOUS
<1> HIDE DEF first, last
<1>6. /\ SubSeq(s, first, last) \in Seq(Nat)
      /\ Len(SubSeq(s, first, last)) = IF first <= last THEN last - first + 1 ELSE 0
      /\ \A i \in 1 .. last - first + 1 : SubSeq(s, first, last)[i] = s[first + i - 1]
  BY <1>1, <1>3, SubSeqProperties
<1>7. \A i \in 1 .. n : SubSeq(s, first, last)[i] = s[a + i]
  BY <1>4, <1>5, <1>6
<1> QED BY <1>4, <1>6, <1>7 DEF first, last

\* A buffer that begins with a text and its NUL, or is full of a text that is
\* longer, is read as that text, or as its beginning.
LEMMA TextRead ==
  ASSUME NEW b \in [1 .. MAX_BUFF -> Nat], NEW p \in Seq(Nat \ {0}),
         \A i \in 1 .. MAX_BUFF : i <= Len(p) => b[i] = p[i],
         Len(p) < MAX_BUFF => b[Len(p) + 1] = 0
  PROVE  TextIn(b) = SubSeq(p, 1, IF Len(p) < MAX_BUFF THEN Len(p) ELSE MAX_BUFF)
<1> DEFINE n == IF Len(p) < MAX_BUFF THEN Len(p) ELSE MAX_BUFF
<1>1. Len(p) \in Nat /\ \A i \in 1 .. Len(p) : p[i] \in Nat /\ p[i] # 0
  BY LenProperties, ElementOfSeq
<1>2. n \in 0 .. MAX_BUFF /\ n <= Len(p) /\ (n < MAX_BUFF => n = Len(p))
  BY <1>1, BuffAssumption
<1> HIDE DEF n
<1>3. \A i \in 1 .. n : b[i] = p[i] /\ b[i] # 0
  BY <1>1, <1>2, BuffAssumption
<1>4. n < MAX_BUFF => b[n + 1] = 0
  BY <1>2
<1>5. ASSUME NEW k \in 0 .. MAX_BUFF,
             k < MAX_BUFF => b[k + 1] = 0, \A i \in 1 .. k : b[i] # 0
      PROVE  k = n
  <2>1. ~ (k < n)
    <3>1. SUFFICES ASSUME k < n PROVE FALSE
      OBVIOUS
    <3>2. k < MAX_BUFF /\ k + 1 \in 1 .. n
      BY <1>2, <3>1, BuffAssumption
    <3> QED BY <1>3, <1>5, <3>2
  <2>2. ~ (n < k)
    <3>1. SUFFICES ASSUME n < k PROVE FALSE
      OBVIOUS
    <3>2. n < MAX_BUFF /\ n + 1 \in 1 .. k
      BY <1>2, <3>1, BuffAssumption
    <3> QED BY <1>4, <1>5, <3>2
  <2> QED BY <1>2, <2>1, <2>2, BuffAssumption
<1>6. TextLength(b) = n
  BY <1>2, <1>3, <1>4, <1>5 DEF TextLength
<1>7. /\ SubSeq(b, 1, n) \in Seq(Nat) /\ Len(SubSeq(b, 1, n)) = n
      /\ \A i \in 1 .. n : SubSeq(b, 1, n)[i] = b[i]
  <2>1. \A i \in 1 .. n : b[i] \in Nat
    BY <1>2, BuffAssumption
  <2> QED BY <1>2, <2>1, SubSeqProperties
<1>8. /\ SubSeq(p, 1, n) \in Seq(Nat) /\ Len(SubSeq(p, 1, n)) = n
      /\ \A i \in 1 .. n : SubSeq(p, 1, n)[i] = p[i]
  <2>1. \A i \in 1 .. n : p[i] \in Nat
    BY <1>1, <1>2
  <2> QED BY <1>2, <2>1, SubSeqProperties
<1>9. SubSeq(b, 1, n) = SubSeq(p, 1, n)
  BY <1>3, <1>7, <1>8, SeqEqual
<1> QED BY <1>6, <1>9 DEF TextIn, n

LEMMA ClientFrameTypes ==
  ASSUME NEW m \in Messages
  PROVE  /\ Pack(m) \in Seq(Nat \ {0}) /\ Len(Pack(m)) \in Nat
         /\ ClientFrame(m) \in Seq(Nat) /\ Len(ClientFrame(m)) = Len(Pack(m)) + 1
         /\ \A j \in 1 .. Len(Pack(m)) : ClientFrame(m)[j] = Pack(m)[j]
         /\ ClientFrame(m)[Len(Pack(m)) + 1] = 0
<1>1. Pack(m) \in Seq(Nat \ {0})
  BY PackAssumption
<1>2. Pack(m) \in Seq(Nat) /\ Len(Pack(m)) \in Nat
  BY <1>1, SeqMonotonic, LenProperties
<1> QED BY <1>1, <1>2, AppendProperties DEF ClientFrame

\* What a server frame may hold after the text and its NUL.
LEMMA HeapTypes ==
  ASSUME TypeOK, NEW memory \in Heap
  PROVE  memory \in [1 .. MAX_BUFF -> Nat]
<1>1. CASE memory = Fill(Letter)
  BY <1>1, LetterAssumption, FillTypes
<1>2. ASSUME NEW i \in DOMAIN ends, memory = Over(Frame(i), Fill(0))
      PROVE  memory \in [1 .. MAX_BUFF -> Nat]
  <2>1. ends \in Seq(1 .. Len(stream)) /\ stream \in Seq(Nat) /\ Len(stream) \in Nat
    BY LenProperties DEF TypeOK
  <2>2. i \in 1 .. Len(ends) /\ Len(ends) \in Nat
    BY <2>1, LenProperties
  <2>3. ends[i] \in 1 .. Len(stream) /\ Start(i) \in 0 .. Len(stream)
    <3>1. \A j \in 1 .. Len(ends) : ends[j] \in 1 .. Len(stream)
      BY <2>1, ElementOfSeq
    <3>2. i # 1 => i - 1 \in 1 .. Len(ends)
      BY <2>2
    <3> QED BY <2>1, <2>2, <3>1, <3>2 DEF Start
  <2>4. \A j \in Start(i) + 1 .. ends[i] : stream[j] \in Nat
    <3>1. \A j \in Start(i) + 1 .. ends[i] : j \in 1 .. Len(stream)
      BY <2>1, <2>3
    <3> QED BY <2>1, <3>1, ElementOfSeq
  <2>5. Frame(i) \in Seq(Nat)
    BY <2>3, <2>4, SubSeqProperties DEF Frame
  <2> QED BY <1>2, <2>5, FillTypes, OverTypes
<1> QED BY <1>1, <1>2 DEF Heap

LEMMA ServerFrameTypes ==
  ASSUME TypeOK, NEW m \in Messages, NEW memory \in Heap
  PROVE  /\ ServerFrame(m, memory) \in Seq(Nat) /\ Len(ServerFrame(m, memory)) = MAX_BUFF
         /\ \A j \in 1 .. Len(ClientFrame(m)) :
              j <= MAX_BUFF => ServerFrame(m, memory)[j] = ClientFrame(m)[j]
<1>1. ClientFrame(m) \in Seq(Nat) /\ Len(ClientFrame(m)) \in Nat
  BY ClientFrameTypes
<1>2. memory \in [1 .. MAX_BUFF -> Nat]
  BY HeapTypes
<1>3. /\ ServerFrame(m, memory) \in [1 .. MAX_BUFF -> Nat]
      /\ \A j \in 1 .. MAX_BUFF :
           j <= Len(ClientFrame(m)) => ServerFrame(m, memory)[j] = ClientFrame(m)[j]
  BY <1>1, <1>2, OverTypes DEF ServerFrame
<1>4. \A j \in 1 .. Len(ClientFrame(m)) : j <= MAX_BUFF => j \in 1 .. MAX_BUFF /\ j <= Len(ClientFrame(m))
  BY <1>1, BuffAssumption
<1> QED BY <1>3, <1>4, BufferIsSeq

-----------------------------------------------------------------------------
(***************************************************************************)
(* Writing.                                                                *)
(***************************************************************************)
LEMMA Lengths ==
  ASSUME TypeOK
  PROVE  /\ stream \in Seq(Nat) /\ Len(stream) \in Nat
         /\ sent \in Seq(Messages) /\ Len(sent) \in Nat /\ DOMAIN sent = 1 .. Len(sent)
         /\ Len(ends) = Len(sent) /\ DOMAIN ends = 1 .. Len(ends)
         /\ \A i \in 1 .. Len(sent) : sent[i] \in Messages /\ ends[i] \in 1 .. Len(stream)
         /\ \A i \in 1 .. Len(sent) + 1 : Start(i) \in 0 .. Len(stream)
         /\ taken \in Nat /\ taken <= Len(stream)
<1>1. stream \in Seq(Nat) /\ Len(stream) \in Nat
  BY LenProperties DEF TypeOK
<1>2. sent \in Seq(Messages) /\ Len(sent) \in Nat /\ DOMAIN sent = 1 .. Len(sent)
  BY LenProperties DEF TypeOK
<1>3. ends \in Seq(1 .. Len(stream)) /\ Len(ends) = Len(sent) /\ DOMAIN ends = 1 .. Len(ends)
  BY LenProperties DEF TypeOK
<1>4. \A i \in 1 .. Len(sent) : sent[i] \in Messages /\ ends[i] \in 1 .. Len(stream)
  BY <1>2, <1>3, ElementOfSeq
<1>5. ASSUME NEW i \in 1 .. Len(sent) + 1
      PROVE  Start(i) \in 0 .. Len(stream)
  <2>1. i # 1 => i - 1 \in 1 .. Len(sent)
    BY <1>2
  <2> QED BY <1>1, <1>4, <2>1 DEF Start
<1> QED BY <1>1, <1>2, <1>3, <1>4, <1>5 DEF TypeOK

\* What a write does to the stream and to the frames that are in it.
LEMMA Written ==
  ASSUME Stream, NEW m \in Messages, NEW frame \in Seq(Nat), Len(frame) > 0, Write(m, frame)
  PROVE  LET n == Len(sent) IN
         /\ stream' \in Seq(Nat) /\ Len(stream') = Len(stream) + Len(frame)
         /\ \A j \in 1 .. Len(stream) : stream'[j] = stream[j]
         /\ \A j \in 1 .. Len(frame) : stream'[Len(stream) + j] = frame[j]
         /\ sent' \in Seq(Messages) /\ Len(sent') = n + 1
         /\ ends' \in Seq(1 .. Len(stream')) /\ Len(ends') = n + 1
         /\ \A i \in 1 .. n : sent'[i] = sent[i] /\ ends'[i] = ends[i]
         /\ sent'[n + 1] = m /\ ends'[n + 1] = Len(stream')
         /\ \A i \in 1 .. n + 1 : Start(i)' = Start(i)
         /\ Start(n + 1) = Len(stream)
         /\ \A i \in {n + 2} : Start(i)' = Len(stream')
<1> DEFINE n == Len(sent)
<1>1. TypeOK /\ n \in Nat /\ Len(stream) \in Nat /\ Len(frame) \in Nat
  BY Lengths, LenProperties DEF Stream
<1>2. /\ stream' = stream \o frame
      /\ ends' = Append(ends, Len(stream) + Len(frame)) /\ sent' = Append(sent, m)
  BY DEF Write
<1>3. /\ stream' \in Seq(Nat) /\ Len(stream') = Len(stream) + Len(frame)
      /\ \A j \in 1 .. Len(stream) + Len(frame) :
           stream'[j] = IF j <= Len(stream) THEN stream[j] ELSE frame[j - Len(stream)]
  <2>1. stream \in Seq(Nat)
    BY DEF Stream, TypeOK
  <2> QED BY <1>2, <2>1, ConcatProperties, Zenon
<1>4. \A j \in 1 .. Len(stream) : stream'[j] = stream[j]
  <2>1. \A j \in 1 .. Len(stream) : j \in 1 .. Len(stream) + Len(frame) /\ j <= Len(stream)
    BY <1>1
  <2> QED BY <1>3, <2>1
<1>5. \A j \in 1 .. Len(frame) : stream'[Len(stream) + j] = frame[j]
  <2>1. ASSUME NEW j \in 1 .. Len(frame)
        PROVE  /\ Len(stream) + j \in 1 .. Len(stream) + Len(frame)
               /\ ~ (Len(stream) + j <= Len(stream)) /\ Len(stream) + j - Len(stream) = j
    BY <1>1
  <2> QED BY <1>3, <2>1
<1>6. /\ sent' \in Seq(Messages) /\ Len(sent') = n + 1
      /\ \A i \in 1 .. n : sent'[i] = sent[i]
      /\ sent'[n + 1] = m
  BY <1>2, AppendProperties DEF Stream, TypeOK
<1>7. /\ ends' \in Seq(1 .. Len(stream')) /\ Len(ends') = n + 1
      /\ \A i \in 1 .. n : ends'[i] = ends[i]
      /\ ends'[n + 1] = Len(stream')
  <2>1. 1 .. Len(stream) \subseteq 1 .. Len(stream') /\ Len(stream') \in 1 .. Len(stream')
    BY <1>1, <1>3
  <2>2. ends \in Seq(1 .. Len(stream')) /\ Len(ends) = n
    BY <2>1, SeqMonotonic DEF Stream, TypeOK
  <2>3. ends' = Append(ends, Len(stream'))
    BY <1>2, <1>3
  <2> HIDE DEF n
  <2> QED BY <2>1, <2>2, <2>3, AppendProperties
<1>8. \A i \in 1 .. n + 1 : Start(i)' = Start(i)
  <2>1. \A i \in 1 .. n + 1 : i # 1 => i - 1 \in 1 .. n
    BY <1>1
  <2> QED BY <1>7, <2>1 DEF Start
<1>9. Start(n + 1) = Len(stream)
  BY <1>1, Lengths DEF Stream, FramesFollow
<1>10. \A i \in {n + 2} : Start(i)' = Len(stream')
  <2>1. n + 2 # 1 /\ (n + 2) - 1 = n + 1
    BY <1>1
  <2> QED BY <1>7, <2>1 DEF Start
<1> QED BY <1>3, <1>4, <1>5, <1>6, <1>7, <1>8, <1>9, <1>10

LEMMA WriteStream ==
  ASSUME Stream, NEW m \in Messages, NEW frame \in Seq(Nat), Write(m, frame),
         ~ crashed, Len(sent) < MaxSent,
         UNCHANGED <<writer, taken, buf, handled, crashed, cut>>,
         Len(frame) = IF writer = "client" THEN Len(ClientFrame(m)) ELSE MAX_BUFF,
         \A j \in 1 .. Len(ClientFrame(m)) : j <= Len(frame) => frame[j] = ClientFrame(m)[j]
  PROVE  Stream'
<1> DEFINE n == Len(sent)
<1>1. /\ Stream /\ TypeOK /\ n \in Nat /\ Len(stream) \in Nat
      /\ Len(Pack(m)) \in Nat /\ Len(ClientFrame(m)) = Len(Pack(m)) + 1
      /\ Len(frame) \in Nat /\ Len(frame) > 0
      /\ taken \in Nat /\ taken <= Len(stream)
  BY Lengths, ClientFrameTypes, BuffAssumption, LenProperties DEF Stream
<1>2. /\ stream' \in Seq(Nat) /\ Len(stream') = Len(stream) + Len(frame)
      /\ \A j \in 1 .. Len(stream) : stream'[j] = stream[j]
      /\ \A j \in 1 .. Len(frame) : stream'[Len(stream) + j] = frame[j]
      /\ sent' \in Seq(Messages) /\ Len(sent') = n + 1
      /\ ends' \in Seq(1 .. Len(stream')) /\ Len(ends') = n + 1
      /\ \A i \in 1 .. n : sent'[i] = sent[i] /\ ends'[i] = ends[i]
      /\ sent'[n + 1] = m /\ ends'[n + 1] = Len(stream')
      /\ \A i \in 1 .. n + 1 : Start(i)' = Start(i)
      /\ Start(n + 1) = Len(stream)
      /\ \A i \in {n + 2} : Start(i)' = Len(stream')
  BY <1>1, Written
<1>3. /\ Len(ends) = n /\ DOMAIN ends = 1 .. n /\ DOMAIN ends' = 1 .. n + 1
      /\ DOMAIN sent = 1 .. n /\ DOMAIN sent' = 1 .. n + 1
      /\ \A i \in 1 .. n : sent[i] \in Messages /\ ends[i] \in 1 .. Len(stream)
      /\ \A i \in 1 .. n + 1 : Start(i) \in 0 .. Len(stream)
  BY <1>1, <1>2, Lengths, LenProperties
<1> HIDE DEF n
<1>4. TypeOK'
  <2>1. taken' \in 0 .. Len(stream')
    BY <1>1, <1>2
  <2>2. ASSUME writer = "server", NEW i \in 1 .. n + 1
        PROVE  ends'[i] = Start(i)' + MAX_BUFF
    <3>1. CASE i = n + 1
      BY <1>1, <1>2, <2>2, <3>1
    <3>2. CASE i \in 1 .. n
      <4>1. ends'[i] = ends[i] /\ Start(i)' = Start(i)
        BY <1>2, <2>2, <3>2
      <4>2. TypeOK /\ DOMAIN ends = 1 .. n
        BY <1>1, <1>3
      <4>3. ends[i] = Start(i) + MAX_BUFF
        BY <2>2, <3>2, <4>2 DEF TypeOK
      <4> QED BY <4>1, <4>3
    <3> QED BY <1>1, <3>1, <3>2
  <2>3. Len(sent') <= MaxSent
    BY <1>1, <1>2, MaxSentAssumption DEF n
  <2> QED BY <1>1, <1>2, <1>3, <2>1, <2>2, <2>3 DEF TypeOK
<1>5. FramesFollow'
  <2>1. ASSUME NEW i \in 1 .. n + 1
        PROVE  Start(i)' < ends'[i]
    <3>1. CASE i = n + 1
      BY <1>1, <1>2, <3>1
    <3>2. CASE i \in 1 .. n
      BY <1>1, <1>2, <1>3, <3>2 DEF Stream, FramesFollow
    <3> QED BY <1>1, <3>1, <3>2
  <2>2. ASSUME NEW i \in 1 .. n + 1, NEW j \in 1 .. n + 1, i < j
        PROVE  ends'[i] < ends'[j]
    <3>1. CASE j = n + 1
      <4>1. i \in 1 .. n
        BY <1>1, <2>2, <3>1
      <4>2. ends'[i] = ends[i] /\ ends[i] \in Nat /\ ends[i] <= Len(stream)
        <5>1. ends'[i] = ends[i] /\ ends[i] \in 1 .. Len(stream)
          BY <1>2, <1>3, <4>1
        <5>2. Len(stream) \in Nat
          BY <1>1
        <5> QED BY <5>1, <5>2
      <4>3. ends'[j] = Len(stream) + Len(frame)
        BY <1>2, <3>1
      <4>4. Len(stream) \in Nat /\ Len(frame) \in Nat /\ Len(frame) > 0
        BY <1>1
      <4> QED BY <4>2, <4>3, <4>4
    <3>2. CASE j \in 1 .. n
      <4>1. i \in 1 .. n
        BY <1>1, <2>2, <3>2
      <4> QED BY <1>2, <1>3, <1>1, <2>2, <3>2, <4>1 DEF Stream, FramesFollow
    <3> QED BY <1>1, <3>1, <3>2
  <2>3. Start(Len(ends) + 1)' = Len(stream')
    <3>1. Len(ends') + 1 \in {n + 2}
      BY <1>1, <1>2
    <3> QED BY <1>2, <3>1
  <2> QED BY <1>2, <2>1, <2>2, <2>3 DEF FramesFollow
<1>6. ASSUME NEW i \in 1 .. n + 1
      PROVE  FrameHolds(i)'
  <2>1. CASE i = n + 1
    <3>1. sent'[i] = m /\ Start(i)' = Len(stream) /\ ends'[i] = Len(stream) + Len(frame)
      BY <1>2, <2>1, <1>1
    <3>2. ASSUME NEW j \in 1 .. Len(Pack(m)) + 1, Len(stream) + j <= Len(stream) + Len(frame)
          PROVE  stream'[Len(stream) + j] = ClientFrame(m)[j]
      <4>1. j \in 1 .. Len(frame) /\ j <= Len(frame) /\ j \in 1 .. Len(ClientFrame(m))
        BY <1>1, <3>2
      <4> QED BY <1>2, <4>1
    <3>3. writer = "client" => Len(stream) + Len(frame) = Len(stream) + Len(Pack(m)) + 1
      BY <1>1
    <3> QED BY <3>1, <3>2, <3>3 DEF FrameHolds
  <2>2. CASE i \in 1 .. n
    <3>1. sent'[i] = sent[i] /\ Start(i)' = Start(i) /\ ends'[i] = ends[i] /\ FrameHolds(i)
      BY <1>1, <1>2, <2>2 DEF Stream, n
    <3>2. ASSUME NEW j \in 1 .. Len(Pack(sent[i])) + 1, Start(i) + j <= ends[i]
          PROVE  stream'[Start(i) + j] = stream[Start(i) + j]
      <4>1. Len(Pack(sent[i])) \in Nat
        BY <1>3, <2>2, ClientFrameTypes
      <4>2. ends[i] \in 1 .. Len(stream) /\ Start(i) \in 0 .. Len(stream) /\ Len(stream) \in Nat
        BY <1>1, <1>3, <2>2
      <4>3. Start(i) + j \in 1 .. Len(stream)
        <5>1. j \in Nat /\ 1 <= j
          BY <4>1
        <5>2. Start(i) \in Nat /\ ends[i] \in Nat /\ ends[i] <= Len(stream)
          BY <4>2
        <5>3. Start(i) + j <= ends[i]
          BY <3>2
        <5> QED BY <4>2, <5>1, <5>2, <5>3
      <4> QED BY <1>2, <4>3
    <3> QED BY <3>1, <3>2 DEF FrameHolds
  <2> QED BY <1>1, <2>1, <2>2
<1> QED BY <1>2, <1>4, <1>5, <1>6 DEF Stream

LEMMA WriteInv ==
  ASSUME Inv, NEW m \in Messages, NEW frame \in Seq(Nat), Write(m, frame),
         ~ crashed, Len(sent) < MaxSent,
         UNCHANGED <<writer, taken, buf, handled, crashed, cut>>,
         Len(frame) = IF writer = "client" THEN Len(ClientFrame(m)) ELSE MAX_BUFF,
         \A j \in 1 .. Len(ClientFrame(m)) : j <= Len(frame) => frame[j] = ClientFrame(m)[j]
  PROVE  Inv'
<1> DEFINE n == Len(sent)
<1>1. /\ Stream /\ TypeOK /\ n \in Nat /\ Len(stream) \in Nat
      /\ Len(Pack(m)) \in Nat /\ Len(ClientFrame(m)) = Len(Pack(m)) + 1
      /\ Len(frame) \in Nat /\ Len(frame) > 0
      /\ taken \in Nat /\ taken <= Len(stream)
  BY Lengths, ClientFrameTypes, BuffAssumption, LenProperties DEF Inv, Stream
<1>2. /\ stream' \in Seq(Nat) /\ Len(stream') = Len(stream) + Len(frame)
      /\ \A j \in 1 .. Len(stream) : stream'[j] = stream[j]
      /\ \A j \in 1 .. Len(frame) : stream'[Len(stream) + j] = frame[j]
      /\ sent' \in Seq(Messages) /\ Len(sent') = n + 1
      /\ ends' \in Seq(1 .. Len(stream')) /\ Len(ends') = n + 1
      /\ \A i \in 1 .. n : sent'[i] = sent[i] /\ ends'[i] = ends[i]
      /\ sent'[n + 1] = m /\ ends'[n + 1] = Len(stream')
      /\ \A i \in 1 .. n + 1 : Start(i)' = Start(i)
      /\ Start(n + 1) = Len(stream)
      /\ \A i \in {n + 2} : Start(i)' = Len(stream')
  BY <1>1, Written
<1>3. /\ Len(ends) = n /\ DOMAIN ends = 1 .. n /\ DOMAIN ends' = 1 .. n + 1
      /\ DOMAIN sent = 1 .. n /\ DOMAIN sent' = 1 .. n + 1
      /\ \A i \in 1 .. n : sent[i] \in Messages /\ ends[i] \in 1 .. Len(stream)
      /\ \A i \in 1 .. n + 1 : Start(i) \in 0 .. Len(stream)
  BY <1>1, <1>2, Lengths, LenProperties
<1> HIDE DEF n
<1>4. Stream'
  BY <1>1, WriteStream
<1>5. HandledFrames'
  <2> SUFFICES ASSUME ~ cut'
               PROVE  /\ taken' \in Boundaries'
                      /\ writer' = "server" =>
                           \E k \in 0 .. Len(sent') : /\ handled' = SubSeq(sent', 1, k)
                                                      /\ ~ crashed' => taken' = Start(k + 1)'
                      /\ writer' = "client" => Picked(handled', sent', ends', taken')
    BY DEF HandledFrames
  <2>0. /\ Len(sent') = n + 1 /\ writer' = writer /\ taken' = taken /\ handled' = handled
    BY <1>2
  <2>1. taken \in Boundaries'
    <3>1. PICK i \in 1 .. n + 1 : taken = Start(i)
      BY <1>3 DEF Inv, HandledFrames, Boundaries
    <3>2. i \in 1 .. Len(ends') + 1 /\ taken = Start(i)'
      BY <1>1, <1>2, <3>1
    <3> QED BY <3>2 DEF Boundaries
  <2>2. ASSUME writer = "server"
        PROVE  \E k \in 0 .. n + 1 : handled = SubSeq(sent', 1, k) /\ taken = Start(k + 1)'
    <3>1. PICK k \in 0 .. n : handled = SubSeq(sent, 1, k) /\ taken = Start(k + 1)
      BY <2>2 DEF Inv, HandledFrames, n
    <3>2. k \in 0 .. n + 1 /\ k + 1 \in 1 .. n + 1 /\ k \in Int /\ 1 \in Int /\ k <= n
      BY <1>1
    <3>3. \A i \in 1 .. k : i \in 1 .. n /\ sent[i] \in Messages /\ sent'[i] = sent[i]
      <4>1. \A i \in 1 .. k : i \in 1 .. n
        BY <1>1, <3>2
      <4> QED BY <1>2, <1>3, <4>1
    <3>4. /\ SubSeq(sent, 1, k) \in Seq(Messages)
          /\ Len(SubSeq(sent, 1, k)) = IF 1 <= k THEN k - 1 + 1 ELSE 0
          /\ \A i \in 1 .. k - 1 + 1 : SubSeq(sent, 1, k)[i] = sent[1 + i - 1]
      <4>1. \A i \in 1 .. k : sent[i] \in Messages
        BY <3>3
      <4> QED BY <3>2, <4>1, SubSeqProperties
    <3>5. /\ SubSeq(sent', 1, k) \in Seq(Messages)
          /\ Len(SubSeq(sent', 1, k)) = IF 1 <= k THEN k - 1 + 1 ELSE 0
          /\ \A i \in 1 .. k - 1 + 1 : SubSeq(sent', 1, k)[i] = sent'[1 + i - 1]
      <4> DEFINE s == sent'
      <4>1. \A i \in 1 .. k : s[i] \in Messages
        BY <3>3
      <4> HIDE DEF s
      <4>2. /\ SubSeq(s, 1, k) \in Seq(Messages)
            /\ Len(SubSeq(s, 1, k)) = IF 1 <= k THEN k - 1 + 1 ELSE 0
            /\ \A i \in 1 .. k - 1 + 1 : SubSeq(s, 1, k)[i] = s[1 + i - 1]
        BY <3>2, <4>1, SubSeqProperties
      <4> QED BY <4>2 DEF s
    <3>6. /\ Len(SubSeq(sent, 1, k)) = k /\ Len(SubSeq(sent', 1, k)) = k
          /\ \A i \in 1 .. k : SubSeq(sent', 1, k)[i] = SubSeq(sent, 1, k)[i]
      BY <3>2, <3>3, <3>4, <3>5
    <3>7. SubSeq(sent', 1, k) = SubSeq(sent, 1, k)
      BY <3>4, <3>5, <3>6, SeqEqual
    <3> QED BY <1>2, <3>1, <3>2, <3>7
  <2>3. ASSUME writer = "client"
        PROVE  Picked(handled, sent', ends', taken)
    <3>1. handled \in Seq(Messages)
      BY <2>3 DEF Inv, HandledFrames, Picked
    <3>2. PICK from \in [1 .. Len(handled) -> 1 .. n] :
            /\ \A i, j \in 1 .. Len(handled) : i < j => from[i] < from[j]
            /\ \A i \in 1 .. Len(handled) : handled[i] = sent[from[i]] /\ ends[from[i]] <= taken
      BY <2>3 DEF Inv, HandledFrames, Picked, n
    <3>3. \A i \in 1 .. Len(handled) : handled[i] = sent'[from[i]] /\ ends'[from[i]] <= taken
      BY <1>2, <3>2
    <3>4. from \in [1 .. Len(handled) -> 1 .. n + 1] /\ Len(sent') = n + 1
      BY <1>1, <1>2, <3>2
    <3> QED BY <3>1, <3>2, <3>3, <3>4 DEF Picked
  <2>4. taken' \in Boundaries'
    BY <2>0, <2>1
  <2>5. ASSUME writer' = "server"
        PROVE  \E k \in 0 .. Len(sent') : /\ handled' = SubSeq(sent', 1, k)
                                          /\ ~ crashed' => taken' = Start(k + 1)'
    BY <2>0, <2>2, <2>5
  <2>6. writer' = "client" => Picked(handled', sent', ends', taken')
    BY <2>0, <2>3
  <2> QED BY <2>4, <2>5, <2>6
<1>6. DiesOfPiecesOnly'
  BY DEF DiesOfPiecesOnly
<1> QED BY <1>4, <1>5, <1>6 DEF Inv

LEMMA SendInv ==
  ASSUME NEW m \in Messages, Send(m)
  PROVE  (Stream => Stream') /\ (Inv => Inv')
<1> SUFFICES ASSUME Stream PROVE Stream' /\ (Inv => Inv')
  BY DEF Inv
<1>1. TypeOK /\ ~ crashed /\ Len(sent) < MaxSent
      /\ UNCHANGED <<writer, taken, buf, handled, crashed, cut>>
  BY DEF Stream, Send
<1>2. CASE writer = "client" /\ Write(m, ClientFrame(m))
  BY <1>1, <1>2, ClientFrameTypes, WriteStream, WriteInv
<1>3. ASSUME writer = "server", NEW memory \in Heap, Write(m, ServerFrame(m, memory))
      PROVE  Stream' /\ (Inv => Inv')
  BY <1>1, <1>3, ServerFrameTypes, WriteStream, WriteInv
<1> QED BY <1>2, <1>3 DEF Send

-----------------------------------------------------------------------------
(***************************************************************************)
(* Reading.                                                                *)
(***************************************************************************)

\* A read that begins and ends at boundaries begins with a frame and holds it
\* whole: its text is what the buffer is unpacked from.  The frame of a server
\* is all that it holds.
LEMMA FrameRead ==
  ASSUME Stream, taken \in Boundaries, NEW n \in 1 .. MAX_BUFF, n <= Len(stream) - taken,
         taken + n \in Boundaries,
         NEW memory \in [1 .. MAX_BUFF -> Nat]
  PROVE  \E k \in 1 .. Len(sent) :
           /\ taken = Start(k) /\ ends[k] <= taken + n
           /\ writer = "server" => ends[k] = taken + n
           /\ TextIn(Over(SubSeq(stream, taken + 1, taken + n), memory)) = Truncated(sent[k])
<1> DEFINE bytes == Over(SubSeq(stream, taken + 1, taken + n), memory)
<1>1. /\ TypeOK /\ Len(stream) \in Nat /\ Len(sent) \in Nat /\ Len(ends) = Len(sent)
      /\ \A i \in 1 .. Len(sent) : sent[i] \in Messages /\ ends[i] \in 1 .. Len(stream)
      /\ \A i \in 1 .. Len(sent) + 1 : Start(i) \in 0 .. Len(stream)
      /\ taken \in Nat /\ taken <= Len(stream) /\ n \in Nat \ {0} /\ n <= MAX_BUFF
      /\ stream \in Seq(Nat) /\ DOMAIN ends = 1 .. Len(ends)
  <2>1. TypeOK
    BY DEF Stream
  <2>2. n \in Nat \ {0} /\ n <= MAX_BUFF
    BY BuffAssumption
  <2>3. /\ Len(stream) \in Nat /\ Len(sent) \in Nat /\ Len(ends) = Len(sent)
        /\ \A i \in 1 .. Len(sent) : sent[i] \in Messages /\ ends[i] \in 1 .. Len(stream)
        /\ \A i \in 1 .. Len(sent) + 1 : Start(i) \in 0 .. Len(stream)
        /\ taken \in Nat /\ taken <= Len(stream)
        /\ stream \in Seq(Nat) /\ DOMAIN ends = 1 .. Len(ends)
    BY <2>1, Lengths, Zenon
  <2> QED BY <2>1, <2>2, <2>3, Zenon
<1>2. PICK k \in 1 .. Len(sent) + 1 : taken = Start(k)
  BY <1>1 DEF Boundaries
<1>3. PICK l \in 1 .. Len(sent) + 1 : taken + n = Start(l)
  BY <1>1 DEF Boundaries
<1>4. ASSUME NEW i \in 1 .. Len(sent), NEW j \in 1 .. Len(sent), i <= j
      PROVE  ends[i] <= ends[j]
  <2>1. ends[i] \in Nat /\ ends[j] \in Nat
    <3>1. ends[i] \in 1 .. Len(stream) /\ ends[j] \in 1 .. Len(stream)
      BY <1>1
    <3>2. Len(stream) \in Nat
      BY <1>1
    <3> QED BY <3>1, <3>2
  <2>2. CASE i = j
    BY <2>1, <2>2
  <2>3. CASE i < j
    <3>1. ends[i] < ends[j]
      BY <1>1, <2>3 DEF Stream, FramesFollow
    <3> QED BY <2>1, <3>1
  <2> QED BY <1>1, <1>4, <2>2, <2>3
<1>5. k < l
  <2>1. SUFFICES ASSUME l <= k PROVE FALSE
    BY <1>1
  <2>2. CASE l = 1
    BY <1>1, <1>2, <1>3, <2>2 DEF Start
  <2>3. CASE l # 1
    <3>1. k # 1 /\ k - 1 \in 1 .. Len(sent) /\ l - 1 \in 1 .. Len(sent) /\ l - 1 <= k - 1
      BY <1>1, <2>1, <2>3
    <3>2. taken = ends[k - 1] /\ taken + n = ends[l - 1]
      BY <1>2, <1>3, <2>3, <3>1 DEF Start
    <3>3. ends[l - 1] <= ends[k - 1]
      BY <1>4, <3>1
    <3> QED BY <1>1, <3>2, <3>3
  <2> QED BY <2>2, <2>3
<1>6. /\ k \in 1 .. Len(sent) /\ l # 1 /\ l - 1 \in 1 .. Len(sent) /\ k <= l - 1
      /\ taken + n = ends[l - 1]
  <2>1. k \in 1 .. Len(sent) /\ l # 1 /\ l - 1 \in 1 .. Len(sent) /\ k <= l - 1
    BY <1>1, <1>5
  <2> QED BY <1>3, <2>1 DEF Start
<1>7. ends[k] <= taken + n /\ ends[k] \in Nat /\ taken < ends[k]
  <2>1. ends[k] <= ends[l - 1]
    BY <1>4, <1>6
  <2>2. ends[k] \in 1 .. Len(stream)
    BY <1>1, <1>6
  <2>3. Start(k) < ends[k]
    BY <1>1, <1>6 DEF Stream, FramesFollow
  <2> QED BY <1>1, <1>2, <1>6, <2>1, <2>2, <2>3
<1>8. writer = "server" => ends[k] = taken + MAX_BUFF
  BY <1>1, <1>2, <1>6 DEF TypeOK
<1> DEFINE m == sent[k]
           p == Pack(m)
<1>9. /\ m \in Messages /\ p \in Seq(Nat \ {0}) /\ Len(p) \in Nat
      /\ \A j \in 1 .. Len(p) : ClientFrame(m)[j] = p[j]
      /\ ClientFrame(m)[Len(p) + 1] = 0
  <2>1. m \in Messages
    BY <1>1, <1>6
  <2> QED BY <2>1, ClientFrameTypes
<1>10. /\ \A j \in 1 .. Len(p) + 1 : taken + j <= ends[k] => stream[taken + j] = ClientFrame(m)[j]
       /\ writer = "client" => ends[k] = taken + Len(p) + 1
  BY <1>2, <1>6 DEF Stream, FrameHolds
<1> HIDE DEF m, p
<1>11. /\ bytes \in [1 .. MAX_BUFF -> Nat]
       /\ \A j \in 1 .. n : bytes[j] = stream[taken + j]
  <2> DEFINE piece == SubSeq(stream, taken + 1, taken + n)
  <2>1. stream \in Seq(Nat) /\ taken \in Nat /\ n \in Nat /\ taken + n <= Len(stream)
    BY <1>1
  <2>2. piece \in Seq(Nat) /\ Len(piece) = n /\ \A i \in 1 .. n : piece[i] = stream[taken + i]
    BY <2>1, Piece
  <2> HIDE DEF piece
  <2>3. /\ Over(piece, memory) \in [1 .. MAX_BUFF -> Nat]
        /\ \A i \in 1 .. MAX_BUFF : i <= Len(piece) => Over(piece, memory)[i] = piece[i]
    BY <2>2, OverTypes
  <2>4. \A i \in 1 .. n : i \in 1 .. MAX_BUFF /\ i <= Len(piece)
    BY <2>1, <2>2, BuffAssumption
  <2> QED BY <2>2, <2>3, <2>4 DEF piece
<1> HIDE DEF bytes
<1>12. ASSUME NEW j \in 1 .. Len(p) + 1, j <= MAX_BUFF
       PROVE  j \in 1 .. n /\ taken + j <= ends[k]
  <2>1. taken \in Nat /\ n \in Nat /\ n <= MAX_BUFF /\ MAX_BUFF \in Nat /\ Len(p) \in Nat
        /\ ends[k] \in Nat /\ ends[k] <= taken + n
    BY <1>1, <1>7, <1>9, BuffAssumption
  <2>2. CASE writer = "client"
    <3>1. ends[k] = taken + Len(p) + 1
      BY <1>10, <2>2
    <3> QED BY <2>1, <3>1
  <2>3. CASE writer = "server"
    <3>1. ends[k] = taken + MAX_BUFF
      BY <1>8, <2>3
    <3> QED BY <1>12, <2>1, <3>1
  <2> QED BY <1>1, <2>2, <2>3 DEF TypeOK
<1>13. \A j \in 1 .. MAX_BUFF : j <= Len(p) => bytes[j] = p[j]
  <2> SUFFICES ASSUME NEW j \in 1 .. MAX_BUFF, j <= Len(p) PROVE bytes[j] = p[j]
    OBVIOUS
  <2>1. j \in 1 .. Len(p) /\ j \in 1 .. Len(p) + 1 /\ j <= MAX_BUFF
    BY <1>9, BuffAssumption
  <2> QED BY <1>9, <1>10, <1>11, <1>12, <2>1
<1>14. Len(p) < MAX_BUFF => bytes[Len(p) + 1] = 0
  <2> SUFFICES ASSUME Len(p) < MAX_BUFF PROVE bytes[Len(p) + 1] = 0
    OBVIOUS
  <2>1. Len(p) + 1 \in 1 .. Len(p) + 1 /\ Len(p) + 1 <= MAX_BUFF
    BY <1>9, BuffAssumption
  <2> QED BY <1>9, <1>10, <1>11, <1>12, <2>1
<1>15. TextIn(bytes) = SubSeq(p, 1, IF Len(p) < MAX_BUFF THEN Len(p) ELSE MAX_BUFF)
  BY <1>9, <1>11, <1>13, <1>14, TextRead
<1>16. ASSUME writer = "server" PROVE ends[k] = taken + n
  <2>1. ends[k] = taken + MAX_BUFF
    BY <1>8, <1>16
  <2>2. taken \in Nat /\ n \in Nat /\ n <= MAX_BUFF /\ MAX_BUFF \in Nat /\ ends[k] <= taken + n
    BY <1>1, <1>7, BuffAssumption
  <2> QED BY <2>1, <2>2
<1> QED BY <1>2, <1>6, <1>7, <1>15, <1>16 DEF Truncated, bytes, m, p

\* Frames are told apart by where they start, and those that end before
\* another starts come before it.
LEMMA FramesInOrder ==
  ASSUME Stream
  PROVE  /\ \A i, j \in 1 .. Len(sent) + 1 : Start(i) = Start(j) => i = j
         /\ \A i, j \in 1 .. Len(sent) : ends[i] <= Start(j) => i < j
<1>1. TypeOK
  BY DEF Stream
<1>2. /\ Len(stream) \in Nat /\ Len(sent) \in Nat /\ Len(ends) = Len(sent)
      /\ \A i \in 1 .. Len(sent) : ends[i] \in 1 .. Len(stream)
      /\ \A i \in 1 .. Len(sent) + 1 : Start(i) \in 0 .. Len(stream)
  BY <1>1, Lengths, Zenon
<1>3. \A i \in 1 .. Len(sent) : ends[i] \in Nat /\ ends[i] > 0
  BY <1>2
<1>4. \A i, j \in 1 .. Len(sent) : i < j => ends[i] < ends[j]
  BY <1>2 DEF Stream, FramesFollow
<1>5. ASSUME NEW i \in 1 .. Len(sent) + 1, NEW j \in 1 .. Len(sent) + 1, i < j
      PROVE  Start(i) < Start(j)
  <2>1. j # 1 /\ j - 1 \in 1 .. Len(sent) /\ (i # 1 => i - 1 \in 1 .. Len(sent) /\ i - 1 < j - 1)
    BY <1>2, <1>5
  <2>2. Start(j) = ends[j - 1]
    BY <2>1 DEF Start
  <2>3. CASE i = 1
    BY <1>3, <2>1, <2>2, <2>3 DEF Start
  <2>4. CASE i # 1
    BY <1>4, <2>1, <2>2, <2>4 DEF Start
  <2> QED BY <2>3, <2>4
<1>6. ASSUME NEW i \in 1 .. Len(sent) + 1, NEW j \in 1 .. Len(sent) + 1, Start(i) = Start(j)
      PROVE  i = j
  <2>1. Start(i) \in Nat /\ Start(j) \in Nat
    <3>1. Start(i) \in 0 .. Len(stream) /\ Start(j) \in 0 .. Len(stream)
      BY <1>2
    <3> QED BY <1>2, <3>1
  <2>2. ~ (i < j) /\ ~ (j < i)
    BY <1>5, <1>6, <2>1
  <2> QED BY <1>2, <2>2
<1>7. ASSUME NEW i \in 1 .. Len(sent), NEW j \in 1 .. Len(sent), ends[i] <= Start(j)
      PROVE  i < j
  <2>1. ends[i] \in Nat /\ ends[j] \in Nat /\ Start(j) \in Nat
    <3>1. j \in 1 .. Len(sent) + 1
      BY <1>2
    <3>2. Start(j) \in 0 .. Len(stream)
      BY <1>2, <3>1
    <3> QED BY <1>2, <1>3, <3>2
  <2>2. Start(j) < ends[j]
    BY <1>2 DEF Stream, FramesFollow
  <2>3. i # j
    BY <1>7, <2>1, <2>2
  <2>4. ~ (j < i)
    <3>1. SUFFICES ASSUME j < i PROVE FALSE
      OBVIOUS
    <3>2. ends[j] < ends[i]
      BY <1>4, <3>1
    <3> QED BY <1>7, <2>1, <2>2, <3>2
  <2> QED BY <1>2, <2>3, <2>4
<1> QED BY <1>6, <1>7

\* A prefix of a sequence grows by the element that follows it.
LEMMA PrefixGrows ==
  ASSUME NEW S, NEW s \in Seq(S), NEW k \in 1 .. Len(s)
  PROVE  Append(SubSeq(s, 1, k - 1), s[k]) = SubSeq(s, 1, k)
<1>1. Len(s) \in Nat
  BY LenProperties
<1>2. \A i \in 1 .. k - 1 : s[i] \in S
  <2>1. \A i \in 1 .. k - 1 : i \in 1 .. Len(s)
    BY <1>1
  <2> QED BY <2>1, ElementOfSeq
<1>3. SubSeq(s, 1, k - 1) \in Seq(S)
  BY <1>1, <1>2, SubSeqProperties
<1>4. s[k] \in S
  BY ElementOfSeq
<1>5. Append(SubSeq(s, 1, k - 1), s[k]) = SubSeq(s, 1, k - 1) \o <<s[k]>>
  BY <1>3, <1>4, AppendIsConcat
<1>6. 1 \in 1 .. Len(s) /\ k \in 1 .. Len(s)
  BY <1>1
<1>7. SubSeq(s, 1, k) = SubSeq(s, 1, k - 1) \o <<s[k]>>
  BY <1>6, SubSeqRecursiveSecond
<1> QED BY <1>5, <1>7

\* Reading changes nothing of what is in the stream.
LEMMA ReadStream ==
  ASSUME Stream, NEW n \in 1 .. MAX_BUFF, Read(n)
  PROVE  /\ Stream'
         /\ taken' = taken + n /\ n <= Len(stream) - taken
         /\ UNCHANGED <<writer, stream, sent, ends>>
         /\ cut' = (cut \/ taken' \notin Boundaries)
         /\ \E memory \in [1 .. MAX_BUFF -> Nat] :
              Handle(Unpack(TextIn(Over(SubSeq(stream, taken + 1, taken + n), memory))))
<1>1. TypeOK
  BY DEF Stream
<1>2. /\ taken' = taken + n /\ n <= Len(stream) - taken
      /\ UNCHANGED <<writer, stream, sent, ends>>
      /\ cut' = (cut \/ taken' \notin Boundaries)
      /\ ~ crashed
  BY DEF Read
<1>3. /\ Len(stream) \in Nat /\ taken \in Nat /\ taken <= Len(stream) /\ stream \in Seq(Nat)
  BY <1>1, Lengths, Zenon
<1>4. n \in Nat
  BY BuffAssumption
<1> DEFINE piece == SubSeq(stream, taken + 1, taken + n)
<1>5. piece \in Seq(Nat)
  <2>1. taken + n <= Len(stream)
    BY <1>2, <1>3, <1>4
  <2> QED BY <1>3, <1>4, <2>1, Piece
<1>6. PICK memory \in Memory : buf' = Over(piece, memory) /\ Handle(Unpack(TextIn(buf')))
  BY DEF Read
<1>7. memory \in [1 .. MAX_BUFF -> Nat]
  <2>1. Fill(Letter) \in [1 .. MAX_BUFF -> Nat] /\ Fill(0) \in [1 .. MAX_BUFF -> Nat]
    BY LetterAssumption, FillTypes
  <2>2. buf \in [1 .. MAX_BUFF -> Nat]
    BY <1>1 DEF TypeOK
  <2> QED BY <1>6, <2>1, <2>2 DEF Memory
<1> HIDE DEF piece
<1>8. buf' \in [1 .. MAX_BUFF -> Nat]
  BY <1>5, <1>6, <1>7, OverTypes
<1>9. crashed' \in BOOLEAN
  <2>1. crashed \in BOOLEAN
    BY <1>1 DEF TypeOK
  <2> QED BY <1>6, <2>1 DEF Handle
<1>10. cut' \in BOOLEAN
  BY <1>2
<1>11. taken' \in 0 .. Len(stream)
  BY <1>2, <1>3, <1>4
<1>12. TypeOK'
  BY <1>1, <1>2, <1>8, <1>9, <1>10, <1>11 DEF TypeOK, Start
<1>13. FramesFollow'
  BY <1>2 DEF Stream, FramesFollow, Start
<1>14. \A i \in 1 .. Len(sent') : FrameHolds(i)'
  BY <1>2 DEF Stream, FrameHolds, Start
<1>15. Stream'
  BY <1>12, <1>13, <1>14 DEF Stream
<1>16. Handle(Unpack(TextIn(Over(piece, memory))))
  BY <1>6
<1> QED BY <1>2, <1>7, <1>15, <1>16 DEF piece

\* What a read at boundaries may do: a message that fits is handled, or
\* dropped on its way to the server, and of one that does not the reader dies.
LEMMA ReadOutcome ==
  ASSUME ReadsBack, Stream, HandledFrames, ~ cut,
         NEW n \in 1 .. MAX_BUFF, Read(n), ~ cut'
  PROVE  /\ taken' \in Boundaries
         /\ \E k \in 1 .. Len(sent) :
              /\ taken = Start(k) /\ ends[k] <= taken + n
              /\ writer = "server" => ends[k] = taken + n
              /\ sent[k] \in Messages
              /\ \/ ~ Fits(sent[k]) /\ crashed' /\ UNCHANGED handled
                 \/ writer = "client" /\ UNCHANGED <<handled, crashed>>
                 \/ handled' = Append(handled, sent[k]) /\ UNCHANGED crashed
<1>1. /\ taken' = taken + n /\ n <= Len(stream) - taken
      /\ cut' = (cut \/ taken' \notin Boundaries)
  BY ReadStream
<1>2. PICK memory \in [1 .. MAX_BUFF -> Nat] :
        Handle(Unpack(TextIn(Over(SubSeq(stream, taken + 1, taken + n), memory))))
  BY ReadStream
<1>3. taken \in Boundaries /\ taken + n \in Boundaries
  BY <1>1 DEF HandledFrames
<1>4. PICK k \in 1 .. Len(sent) :
        /\ taken = Start(k) /\ ends[k] <= taken + n
        /\ writer = "server" => ends[k] = taken + n
        /\ TextIn(Over(SubSeq(stream, taken + 1, taken + n), memory)) = Truncated(sent[k])
  BY <1>1, <1>3, FrameRead
<1>5. sent[k] \in Messages
  BY Lengths DEF Stream
<1>6. Handle(IF Fits(sent[k]) THEN sent[k] ELSE NoMessage)
  BY <1>2, <1>4, <1>5 DEF ReadsBack
<1>7. \/ ~ Fits(sent[k]) /\ crashed' /\ UNCHANGED handled
      \/ writer = "client" /\ UNCHANGED <<handled, crashed>>
      \/ handled' = Append(handled, sent[k]) /\ UNCHANGED crashed
  <2>1. CASE Fits(sent[k])
    <3>1. Handle(sent[k])
      BY <1>6, <2>1
    <3> QED BY <1>5, <3>1, NoMessageAssumption DEF Handle, Dropped
  <2>2. CASE ~ Fits(sent[k])
    <3>1. Handle(NoMessage)
      BY <1>6, <2>2
    <3> QED BY <2>2, <3>1 DEF Handle
  <2> QED BY <2>1, <2>2
<1> QED BY <1>1, <1>3, <1>4, <1>5, <1>7

LEMMA ReadInv ==
  ASSUME ReadsBack, Inv, NEW n \in 1 .. MAX_BUFF, Read(n)
  PROVE  Inv'
<1>1. /\ Stream /\ Stream' /\ taken' = taken + n /\ UNCHANGED <<writer, stream, sent, ends>>
      /\ cut' = (cut \/ taken' \notin Boundaries) /\ ~ crashed
  BY ReadStream DEF Inv, Read
<1>2. CASE cut'
  BY <1>1, <1>2 DEF Inv, HandledFrames, DiesOfPiecesOnly
<1>3. CASE ~ cut'
  <2>1. ~ cut /\ HandledFrames
    BY <1>1, <1>3 DEF Inv
  <2>2. taken' \in Boundaries
    BY <1>1, <1>3, <2>1, ReadOutcome
  <2>3. PICK k \in 1 .. Len(sent) :
          /\ taken = Start(k) /\ ends[k] <= taken + n
          /\ writer = "server" => ends[k] = taken + n
          /\ sent[k] \in Messages
          /\ \/ ~ Fits(sent[k]) /\ crashed' /\ UNCHANGED handled
             \/ writer = "client" /\ UNCHANGED <<handled, crashed>>
             \/ handled' = Append(handled, sent[k]) /\ UNCHANGED crashed
    BY <1>1, <1>3, <2>1, ReadOutcome
  <2>4. /\ sent \in Seq(Messages) /\ Len(sent) \in Nat /\ DOMAIN sent = 1 .. Len(sent)
        /\ \A i \in 1 .. Len(sent) : ends[i] \in 1 .. Len(stream)
        /\ Len(stream) \in Nat /\ taken \in Nat /\ k \in Nat /\ n \in Nat
    <3>1. TypeOK
      BY <1>1 DEF Stream
    <3>2. /\ sent \in Seq(Messages) /\ Len(sent) \in Nat /\ DOMAIN sent = 1 .. Len(sent)
          /\ \A i \in 1 .. Len(sent) : ends[i] \in 1 .. Len(stream)
          /\ Len(stream) \in Nat /\ taken \in Nat
      BY <3>1, Lengths, Zenon
    <3> QED BY <3>2, BuffAssumption
  <2>5. DiesOfPiecesOnly'
    BY <1>1, <2>3, <2>4 DEF DiesOfPiecesOnly
  <2>6. ASSUME writer = "server"
        PROVE  \E j \in 0 .. Len(sent) : /\ handled' = SubSeq(sent, 1, j)
                                         /\ ~ crashed' => taken' = Start(j + 1)
    <3>1. PICK j \in 0 .. Len(sent) : handled = SubSeq(sent, 1, j) /\ taken = Start(j + 1)
      BY <1>1, <2>1, <2>6 DEF HandledFrames
    <3>2. j + 1 = k
      <4>1. j + 1 \in 1 .. Len(sent) + 1 /\ k \in 1 .. Len(sent) + 1
        BY <2>4
      <4>2. Start(j + 1) = Start(k)
        BY <2>3, <3>1
      <4> QED BY <1>1, <4>1, <4>2, FramesInOrder
    <3>3. CASE crashed' /\ UNCHANGED handled
      BY <3>1, <3>3
    <3>4. CASE handled' = Append(handled, sent[k]) /\ UNCHANGED crashed
      <4>1. handled' = SubSeq(sent, 1, k)
        <5>1. k - 1 = j
          BY <2>4, <3>2
        <5>2. Append(SubSeq(sent, 1, k - 1), sent[k]) = SubSeq(sent, 1, k)
          BY <2>4, PrefixGrows
        <5> QED BY <3>1, <3>4, <5>1, <5>2
      <4>2. Start(k + 1) = ends[k]
        BY <2>4 DEF Start
      <4>3. k \in 0 .. Len(sent)
        BY <2>4
      <4> QED BY <1>1, <2>3, <2>6, <4>1, <4>2, <4>3
    <3> QED BY <2>3, <2>6, <3>3, <3>4
  <2>7. ASSUME writer = "client"
        PROVE  Picked(handled', sent, ends, taken')
    <3>1. handled \in Seq(Messages) /\ Len(handled) \in Nat
      BY <2>1, <2>7, LenProperties DEF HandledFrames, Picked
    <3>2. PICK from \in [1 .. Len(handled) -> 1 .. Len(sent)] :
            /\ \A i, j \in 1 .. Len(handled) : i < j => from[i] < from[j]
            /\ \A i \in 1 .. Len(handled) : handled[i] = sent[from[i]] /\ ends[from[i]] <= taken
      BY <2>1, <2>7 DEF HandledFrames, Picked
    <3>3. ASSUME NEW i \in 1 .. Len(handled)
          PROVE  from[i] < k /\ ends[from[i]] <= taken'
      <4>1. from[i] \in 1 .. Len(sent) /\ ends[from[i]] <= Start(k)
        BY <2>3, <3>2
      <4>2. ends[from[i]] \in 1 .. Len(stream)
        BY <2>4, <4>1
      <4>3. from[i] < k
        BY <1>1, <4>1, FramesInOrder
      <4> QED BY <1>1, <2>4, <3>2, <4>2, <4>3
    <3>4. CASE UNCHANGED handled
      BY <3>1, <3>2, <3>3, <3>4 DEF Picked
    <3>5. CASE handled' = Append(handled, sent[k])
      <4> DEFINE h == Len(handled)
                 f == [i \in 1 .. h + 1 |-> IF i <= h THEN from[i] ELSE k]
      <4>1. /\ handled' \in Seq(Messages) /\ Len(handled') = h + 1
            /\ \A i \in 1 .. h : handled'[i] = handled[i]
            /\ handled'[h + 1] = sent[k]
        BY <2>3, <3>1, <3>5, AppendProperties
      <4>2. h \in Nat
        BY <3>1
      <4>3. \A i \in 1 .. h : /\ from[i] \in 1 .. Len(sent) /\ from[i] < k
                              /\ handled[i] = sent[from[i]] /\ ends[from[i]] <= taken'
        BY <3>2, <3>3
      <4>4. \A i, j \in 1 .. h : i < j => from[i] < from[j]
        BY <3>2
      <4> HIDE DEF h
      <4>5. f \in [1 .. h + 1 -> 1 .. Len(sent)]
        BY <4>2, <4>3
      <4>6. f[h + 1] = k /\ \A i \in 1 .. h : f[i] = from[i]
        BY <4>2
      <4> HIDE DEF f
      <4>7. ASSUME NEW i \in 1 .. h + 1
            PROVE  handled'[i] = sent[f[i]] /\ ends[f[i]] <= taken'
        <5>1. CASE i \in 1 .. h
          BY <4>1, <4>3, <4>6, <5>1
        <5>2. CASE i = h + 1
          BY <1>1, <2>3, <4>1, <4>6, <5>2
        <5> QED BY <4>2, <5>1, <5>2
      <4>8. ASSUME NEW i \in 1 .. h + 1, NEW j \in 1 .. h + 1, i < j
            PROVE  f[i] < f[j]
        <5>1. i \in 1 .. h
          BY <4>2, <4>8
        <5>2. CASE j \in 1 .. h
          BY <4>4, <4>6, <4>8, <5>1, <5>2
        <5>3. CASE j = h + 1
          BY <4>3, <4>6, <5>1, <5>3
        <5> QED BY <4>2, <5>2, <5>3
      <4> QED BY <4>1, <4>5, <4>7, <4>8 DEF Picked
    <3> QED BY <2>3, <3>4, <3>5
  <2>8. HandledFrames'
    BY <1>1, <2>2, <2>6, <2>7 DEF HandledFrames, Boundaries, Start
  <2> QED BY <1>1, <2>5, <2>8 DEF Inv
<1> QED BY <1>2, <1>3

-----------------------------------------------------------------------------
(***************************************************************************)
(* The theorems.                                                           *)
(***************************************************************************)
LEMMA InitInv == Init => Inv
<1> SUFFICES ASSUME Init PROVE Inv
  OBVIOUS
<1>1. /\ stream = <<>> /\ taken = 0 /\ sent = <<>> /\ ends = <<>> /\ handled = <<>>
      /\ crashed = FALSE /\ cut = FALSE /\ writer \in {"client", "server"} /\ buf = Fill(0)
  BY DEF Init
<1>2. /\ Len(stream) = 0 /\ Len(sent) = 0 /\ Len(ends) = 0 /\ Len(handled) = 0
      /\ stream \in Seq(Nat) /\ sent \in Seq(Messages) /\ handled \in Seq(Messages)
      /\ DOMAIN ends = {}
  BY <1>1, EmptySeq
<1>3. ends \in Seq(1 .. Len(stream))
  BY <1>1, EmptySeq
<1>4. Start(1) = 0
  BY DEF Start
<1>5. TypeOK
  <2>1. taken \in 0 .. Len(stream) /\ Len(sent) <= MaxSent
    BY <1>1, <1>2, MaxSentAssumption
  <2>2. buf \in [1 .. MAX_BUFF -> Nat]
    BY <1>1, FillTypes
  <2>3. \A i \in DOMAIN ends : ends[i] = Start(i) + MAX_BUFF
    BY <1>2
  <2>4. crashed \in BOOLEAN /\ cut \in BOOLEAN
    BY <1>1
  <2> QED BY <1>1, <1>2, <1>3, <2>1, <2>2, <2>3, <2>4 DEF TypeOK
<1>6. FramesFollow
  BY <1>2, <1>4 DEF FramesFollow
<1>7. Stream
  BY <1>2, <1>5, <1>6 DEF Stream
<1>8. HandledFrames
  <2>1. taken \in Boundaries
    BY <1>1, <1>2, <1>4 DEF Boundaries
  <2>2. handled = SubSeq(sent, 1, 0)
    BY <1>1, SubSeqEmpty
  <2>3. 0 \in 0 .. Len(sent) /\ taken = Start(0 + 1)
    BY <1>1, <1>2, <1>4
  <2>4. Picked(handled, sent, ends, taken)
    <3> DEFINE f == [i \in 1 .. Len(handled) |-> 1]
    <3>1. 1 .. Len(handled) = {}
      BY <1>2
    <3>2. f \in [1 .. Len(handled) -> 1 .. Len(sent)]
      BY <3>1
    <3> QED BY <1>2, <3>1, <3>2 DEF Picked
  <2> QED BY <2>1, <2>2, <2>3, <2>4 DEF HandledFrames
<1>9. DiesOfPiecesOnly
  BY <1>1 DEF DiesOfPiecesOnly
<1> QED BY <1>7, <1>8, <1>9 DEF Inv

LEMMA Stutter ==
  ASSUME UNCHANGED vars
  PROVE  (Stream => Stream') /\ (Inv => Inv')
<1>1. Stream => Stream'
  BY DEF vars, Stream, TypeOK, FramesFollow, FrameHolds, Start
<1>2. HandledFrames => HandledFrames'
  BY DEF vars, HandledFrames, Boundaries, Start
<1>3. DiesOfPiecesOnly => DiesOfPiecesOnly'
  BY DEF vars, DiesOfPiecesOnly
<1> QED BY <1>1, <1>2, <1>3 DEF Inv

LEMMA StreamStep == Stream /\ [Next]_vars => Stream'
BY SendInv, ReadStream, Stutter DEF Next

LEMMA InvStep == ReadsBack => (Inv /\ [Next]_vars => Inv')
BY SendInv, ReadInv, Stutter DEF Next

\* The types, and that the frames of the server are all MAX_BUFF bytes long,
\* whatever the texts are read back to.
THEOREM TypeCorrect == Spec => []TypeOK
<1>1. Init => Stream
  BY InitInv DEF Inv
<1>2. Stream => TypeOK
  BY DEF Stream
<1> QED BY <1>1, <1>2, StreamStep, PTL DEF Spec

LEMMA InvCorrect == ReadsBack => (Spec => []Inv)
<1> SUFFICES ASSUME ReadsBack PROVE Spec => []Inv
  OBVIOUS
<1>1. Inv /\ [Next]_vars => Inv'
  BY InvStep
<1> QED BY <1>1, InitInv, PTL DEF Spec

\* When texts are read back, what readcb and read_cb handle was sent, in the
\* same order and unchanged, for as long as each read ends where a frame ends:
\* all that read_cb has taken of what the server sent, and some of what a client
\* sent.
THEOREM HandledMessagesWereSent == ReadsBack => (Spec => []HandledWasSent)
<1> SUFFICES ASSUME ReadsBack PROVE Spec => []HandledWasSent
  OBVIOUS
<1>1. ASSUME Inv PROVE HandledWasSent
  <2> SUFFICES ASSUME ~ cut
               PROVE  IF writer = "server"
                      THEN /\ Len(handled) <= Len(sent) /\ handled = SubSeq(sent, 1, Len(handled))
                           /\ ~ crashed => taken = Start(Len(handled) + 1)
                      ELSE \E from \in [DOMAIN handled -> DOMAIN sent] :
                             /\ \A i, j \in DOMAIN handled : i < j => from[i] < from[j]
                             /\ \A i \in DOMAIN handled : handled[i] = sent[from[i]]
    BY DEF HandledWasSent
  <2>1. /\ HandledFrames /\ sent \in Seq(Messages) /\ Len(sent) \in Nat /\ DOMAIN sent = 1 .. Len(sent)
        /\ writer \in {"client", "server"}
    BY <1>1, Lengths DEF Inv, Stream, TypeOK
  <2>2. CASE writer = "server"
    <3>1. PICK k \in 0 .. Len(sent) : /\ handled = SubSeq(sent, 1, k)
                                      /\ ~ crashed => taken = Start(k + 1)
      BY <2>1, <2>2 DEF HandledFrames
    <3>2. \A i \in 1 .. k : sent[i] \in Messages
      <4>1. \A i \in 1 .. k : i \in 1 .. Len(sent)
        BY <2>1
      <4> QED BY <2>1, <4>1, ElementOfSeq
    <3>3. Len(SubSeq(sent, 1, k)) = IF 1 <= k THEN k - 1 + 1 ELSE 0
      BY <2>1, <3>2, SubSeqProperties
    <3>4. Len(handled) = k
      BY <2>1, <3>1, <3>3
    <3> QED BY <2>1, <2>2, <3>1, <3>4
  <2>3. CASE writer = "client"
    <3>1. handled \in Seq(Messages) /\ DOMAIN handled = 1 .. Len(handled)
      BY <2>1, <2>3, LenProperties DEF HandledFrames, Picked
    <3> QED BY <2>1, <2>3, <3>1 DEF HandledFrames, Picked
  <2> QED BY <2>1, <2>2, <2>3
<1> QED BY <1>1, InvCorrect, PTL

\* When texts are read back, the reader dies only once a read has ended inside
\* a frame, or a message has been sent that cannot be packed.
THEOREM OnlyPiecesKill == ReadsBack => (Spec => []DiesOfPiecesOnly)
<1> SUFFICES ASSUME ReadsBack PROVE Spec => []DiesOfPiecesOnly
  OBVIOUS
<1>1. Inv => DiesOfPiecesOnly
  BY DEF Inv
<1> QED BY <1>1, InvCorrect, PTL
=============================================================================
