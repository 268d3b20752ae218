------------------------------ MODULE Framing ------------------------------
(***************************************************************************)
(* Messages as bytes on one direction of one connection.  The writer packs *)
(* each message into a frame: the client writes the text and its NUL, the  *)
(* server always MAX_BUFF bytes, whatever the length of the text.  The     *)
(* bytes arrive in order and in pieces of any size, at most MAX_BUFF at a  *)
(* time, and the reader takes what has arrived for one message.  What the  *)
(* texts are is lib/message.c's affair (see Wire).                         *)
(***************************************************************************)
EXTENDS Integers, Sequences

CONSTANTS
  MAX_BUFF,   \* the size of the buffers of readcb and read_cb
  Messages,   \* the messages that may be sent
  Letter,     \* a byte that memory may hold
  MaxSent,    \* bound: messages in a behaviour
  Pack(_),    \* the text of a message, without its NUL
  Unpack(_),  \* the message of a text
  Fits(_),    \* a message can be packed into MAX_BUFF bytes, and is valid
  NoText(_),  \* a message has nothing to say
  NoMessage   \* what a text that has no message is unpacked to

ASSUME BuffAssumption == MAX_BUFF \in Nat \ {0}
ASSUME MaxSentAssumption == MaxSent \in Nat
ASSUME LetterAssumption == Letter \in Nat
ASSUME PackAssumption == \A m \in Messages : Pack(m) \in Seq(Nat \ {0})
ASSUME NoMessageAssumption == NoMessage \notin Messages

VARIABLES
  writer,   \* which of "client" and "server" writes
  stream,   \* the bytes that have been written
  taken,    \* the number of them that the reader has taken
  buf,      \* what the reader's last buffer held
  handled,  \* the messages that the reader has gone on to handle
  crashed,  \* the reader has died of a string that is not there
  \* history
  sent,     \* the messages written
  ends,     \* where in the stream the frame of each ends
  cut       \* a read ended inside a frame

vars == <<writer, stream, taken, buf, handled, crashed, sent, ends, cut>>

Start(i) == IF i = 1 THEN 0 ELSE ends[i - 1]
Boundaries == {Start(i) : i \in 1 .. Len(ends) + 1}

TypeOK ==
  /\ writer \in {"client", "server"}
  /\ stream \in Seq(Nat) /\ taken \in 0 .. Len(stream)
  /\ buf \in [1 .. MAX_BUFF -> Nat]
  /\ crashed \in BOOLEAN /\ cut \in BOOLEAN
  /\ sent \in Seq(Messages) /\ Len(sent) <= MaxSent
  /\ ends \in Seq(1 .. Len(stream)) /\ Len(ends) = Len(sent)
  /\ writer = "server" => \A i \in DOMAIN ends : ends[i] = Start(i) + MAX_BUFF

Fill(byte) == [i \in 1 .. MAX_BUFF |-> byte]
Over(bytes, memory) == [i \in 1 .. MAX_BUFF |-> IF i <= Len(bytes) THEN bytes[i] ELSE memory[i]]

Init ==
  /\ writer \in {"client", "server"}
  /\ stream = <<>> /\ taken = 0
  /\ buf = Fill(0)
  /\ handled = <<>> /\ crashed = FALSE
  /\ sent = <<>> /\ ends = <<>> /\ cut = FALSE

-----------------------------------------------------------------------------
\* Mutant of ClientFrame: the NUL takes the place of the last character.
ClientFrameShort(m) == [Pack(m) EXCEPT ![Len(Pack(m))] = 0]

\* bufferevent_write of json_size bytes.
ClientFrame(m) == Append(Pack(m), 0)

\* Mutant of ServerFrame: as long as the text.
ServerFrameShort(m, memory) == ClientFrame(m)

\* bufferevent_write of MAX_BUFF bytes, from a block of json_size bytes:
\* after the text and its NUL comes whatever memory holds.
ServerFrame(m, memory) == Over(ClientFrame(m), memory)

Frame(i) == SubSeq(stream, Start(i) + 1, ends[i])
Heap == {Fill(Letter)} \cup {Over(Frame(i), Fill(0)) : i \in DOMAIN ends}

Write(m, frame) ==
  /\ stream' = stream \o frame
  /\ ends' = Append(ends, Len(stream) + Len(frame))
  /\ sent' = Append(sent, m)

Send(m) ==
  /\ ~ crashed
  /\ Len(sent) < MaxSent
  /\ \/ writer = "client" /\ Write(m, ClientFrame(m))
     \/ writer = "server" /\ \E memory \in Heap : Write(m, ServerFrame(m, memory))
  /\ UNCHANGED <<writer, taken, buf, handled, crashed, cut>>

-----------------------------------------------------------------------------
\* What the buffer of a callback holds before it reads: the client clears
\* it, the server does not, and may have used the memory since the last time.
Memory == IF writer = "client" THEN {buf, Fill(Letter)} ELSE {Fill(0)}

\* A text ends before its first NUL.
TextLength(bytes) == CHOOSE n \in 0 .. MAX_BUFF :
                       /\ n < MAX_BUFF => bytes[n + 1] = 0
                       /\ \A i \in 1 .. n : bytes[i] # 0
TextIn(bytes) == SubSeq(bytes, 1, TextLength(bytes))

\* Mutant of Dropped: by either reader.
DroppedByAny(m) == NoText(m)

\* Server: an empty message is dropped.
Dropped(m) == writer = "client" /\ NoText(m)

Handle(m) ==
  \/ /\ m = NoMessage
     /\ crashed' = TRUE
     /\ UNCHANGED handled
  \/ /\ m # NoMessage /\ Dropped(m)
     /\ UNCHANGED <<handled, crashed>>
  \/ /\ m # NoMessage /\ ~ Dropped(m)
     /\ handled' = Append(handled, m)
     /\ UNCHANGED crashed

\* readcb of the server, read_cb of the client: n bytes have arrived.
Read(n) ==
  /\ ~ crashed
  /\ n <= Len(stream) - taken
  /\ taken' = taken + n
  /\ \E bytes \in {Over(SubSeq(stream, taken + 1, taken + n), memory) : memory \in Memory} :
       /\ buf' = bytes
       /\ \E m \in {Unpack(TextIn(bytes))} : Handle(m)
  /\ cut' = (cut \/ taken' \notin Boundaries)
  /\ UNCHANGED <<writer, stream, sent, ends>>

Next == (\E m \in Messages : Send(m)) \/ \E n \in 1 .. MAX_BUFF : Read(n)

\* The event loop reads what has arrived: only Read changes taken, and it
\* may as long as bytes are left and the reader lives.
Fairness == WF_taken(~ crashed /\ taken' \in taken + 1 .. Len(stream))

Spec == Init /\ [][Next]_vars /\ Fairness

-----------------------------------------------------------------------------
\* What of the text of a message is in a buffer that begins with it.
Truncated(m) == SubSeq(Pack(m), 1, IF Len(Pack(m)) < MAX_BUFF THEN Len(Pack(m)) ELSE MAX_BUFF)

\* What the frames need of their texts: a message that fits is read back as it
\* was, and of one that does not, the beginning is no message.
ReadsBack == \A m \in Messages : Unpack(Truncated(m)) = IF Fits(m) THEN m ELSE NoMessage

\* While every read ends where a message ends, what is handled was sent, in
\* the same order, and no character changed.  What arrives together with an
\* earlier message may be lost on the way to the server; on the way to a client
\* nothing is: all that has been taken is handled, except what it died of.
HandledWasSent ==
  ~ cut => IF writer = "server"
           THEN /\ Len(handled) <= Len(sent) /\ handled = SubSeq(sent, 1, Len(handled))
                /\ ~ crashed => taken = Start(Len(handled) + 1)
           ELSE \E from \in [DOMAIN handled -> DOMAIN sent] :
                  /\ \A i, j \in DOMAIN handled : i < j => from[i] < from[j]
                  /\ \A i \in DOMAIN handled : handled[i] = sent[from[i]]

\* The reader dies only of a message that arrived in pieces, or of one that
\* cannot be packed: not UTF-8, or longer than the buffer when escaped.
DiesOfPiecesOnly == crashed => cut \/ \E i \in DOMAIN sent : ~ Fits(sent[i])

\* Every message that the server sends to a client is handled in the end,
\* unless one arrives in pieces or cannot be packed.
AllHandled ==
  \A k \in 1 .. MaxSent :
    (writer = "server" /\ Len(sent) >= k)
      ~> (Len(handled) >= k \/ cut \/ \E i \in DOMAIN sent : ~ Fits(sent[i]))
=============================================================================
