------------------------------ MODULE ChatLog ------------------------------
(***************************************************************************)
(* The chatroom and message functions of server/dao.c.  Each Redis command *)
(* is a step; one call is in progress at most; the server may die between  *)
(* two commands, and a command of Faulty may answer REDIS_REPLY_ERROR.     *)
(*                                                                         *)
(* A room r is up to three kinds of Redis keys: the set chatroom:<r>, the  *)
(* counter chatroom:<r>:next_msg_id and a hash chatroom:<r>:<n> for each   *)
(* message.  create_chatroom puts ids of users in the set; leave_chatrooom *)
(* takes a name out of it.                                                 *)
(***************************************************************************)
EXTENDS Integers

CONSTANTS
  User,     \* ids of users, as text
  Name,     \* names of users; a name may be the text of an id
  Text,     \* messages
  Radix,    \* the radix room ids are written in: 10
  MaxRoom,  \* bound: room ids Redis hands out in a behaviour
  MaxMsg,   \* bound: message ids Redis hands out for a room
  Faulty,   \* the Redis commands that may answer an error
  None      \* a key that does not exist, a local that is not set

Commands == {"INCR", "SADD", "KEYS", "DEL", "SREM", "SISMEMBER", "HMSET"}
Room == 1 .. MaxRoom
MsgId == 1 .. MaxMsg

ERROR_NORMAL == -1

ASSUME RadixAssumption == Radix \in Nat \ {0, 1}
ASSUME BoundsAssumption == MaxRoom \in Nat /\ MaxMsg \in Nat
ASSUME FaultyAssumption == Faulty \subseteq Commands
ASSUME NoneAssumption == None \notin User \cup Name \cup Text

VARIABLES
  \* Redis
  next_chatroom_id,
  chatroom,     \* the set chatroom:<r> of each room
  next_msg_id,  \* chatroom:<r>:next_msg_id; a missing key counts from 0
  message,      \* chatroom:<r>:<n>
  \* the server process
  pc,           \* the Redis command it is about to issue
  call,         \* arguments and locals of the call in progress
  \* history
  skipped       \* keys that a deletion did not delete

redis == <<next_chatroom_id, chatroom, next_msg_id, message>>
vars == <<next_chatroom_id, chatroom, next_msg_id, message, pc, call, skipped>>

SetKey(r) == [room |-> r, part |-> "set", n |-> 0]
CounterKey(r) == [room |-> r, part |-> "next_msg_id", n |-> 0]
MsgKey(r, n) == [room |-> r, part |-> "msg", n |-> n]
Key == {SetKey(r) : r \in Room} \cup {CounterKey(r) : r \in Room}
         \cup {MsgKey(r, n) : r \in Room, n \in MsgId}

Exists(k) ==
  \/ k.part = "set" /\ chatroom[k.room] # {}
  \/ k.part = "next_msg_id" /\ next_msg_id[k.room] # 0
  \/ k.part = "msg" /\ message[k.room][k.n] # None

Ops == {"create", "delete", "leave", "isMember", "save"}
Pc == {"idle", "create_incr", "create_sadd", "del_keys", "del_del", "leave_srem",
       "member_sismember", "save_incr", "save_hmset", "return", "down"}

\* room is 0 until create has an id; keys are those deletion still has to DEL.
Calls == [op : Ops, room : Room \cup {0}, who : SUBSET (User \cup Name),
          text : Text \cup {None}, id : MsgId \cup {0}, keys : SUBSET Key, rc : Int]

TypeOK ==
  /\ next_chatroom_id \in 0 .. MaxRoom
  /\ chatroom \in [Room -> SUBSET User]
  /\ next_msg_id \in [Room -> 0 .. MaxMsg]
  /\ message \in [Room -> [MsgId -> Text \cup {None}]]
  /\ pc \in Pc
  /\ call \in Calls \cup {None}
  /\ skipped \subseteq Key
  /\ pc = "save_hmset" => call.id \in MsgId

Init ==
  /\ next_chatroom_id = 0
  /\ chatroom = [r \in Room |-> {}]
  /\ next_msg_id = [r \in Room |-> 0]
  /\ message = [r \in Room |-> [n \in MsgId |-> None]]
  /\ pc = "idle"
  /\ call = None
  /\ skipped = {}

-----------------------------------------------------------------------------
Begin(op, r, who, t) ==
  /\ pc = "idle"
  /\ call' = [op |-> op, room |-> r, who |-> who, text |-> t, id |-> 0, keys |-> {},
              rc |-> 0]
  /\ UNCHANGED <<redis, skipped>>

Goto(l) == pc' = l /\ UNCHANGED call
Return(rc) == pc' = "return" /\ call' = [call EXCEPT !.rc = rc]
Error(cmd) == cmd \in Faulty /\ Return(ERROR_NORMAL) /\ UNCHANGED <<redis, skipped>>

-----------------------------------------------------------------------------
\* create_chatroom: INCR next_chatroom_id, SADD chatroom:<id> of both users.
BeginCreate(a, b) ==
  next_chatroom_id < MaxRoom /\ Begin("create", 0, {a, b}, None) /\ pc' = "create_incr"

\* Mutant of CreateIncr: the id is read, and the counter not incremented.
CreateReadsCounter ==
  /\ pc = "create_incr"
  /\ \/ Error("INCR")
     \/ /\ call' = [call EXCEPT !.room = next_chatroom_id + 1]
        /\ pc' = "create_sadd"
        /\ UNCHANGED <<redis, skipped>>

CreateIncr ==
  /\ pc = "create_incr"
  /\ \/ Error("INCR")
     \/ /\ next_chatroom_id' = next_chatroom_id + 1
        /\ call' = [call EXCEPT !.room = next_chatroom_id + 1]
        /\ pc' = "create_sadd"
        /\ UNCHANGED <<chatroom, next_msg_id, message, skipped>>

CreateSadd ==
  /\ pc = "create_sadd"
  /\ \/ Error("SADD")
     \/ /\ chatroom' = [chatroom EXCEPT ![call.room] = @ \cup call.who]
        /\ Return(call.room)
        /\ UNCHANGED <<next_chatroom_id, next_msg_id, message, skipped>>

-----------------------------------------------------------------------------
(***************************************************************************)
(* del_chatrooom: KEYS chatroom:<id>*, then DEL of each key, in the order  *)
(* of the reply, which is any.  The pattern matches the keys of every room *)
(* whose id begins with the digits of <id>.  A DEL that fails is skipped   *)
(* and the deletion goes on to succeed.                                    *)
(***************************************************************************)
\* What is left of r without some of its last digits: the least set that has r
\* in it and, with an x, x without the last digit.
Prefixes(r) ==
  {g \in 0 .. MaxRoom : \A S \in SUBSET (0 .. MaxRoom) :
                          r \in S /\ (\A x \in S : x \div Radix \in S) => g \in S}

\* Mutant of BeginsWith: digits are compared as far as the shorter id goes.
SharesDigits(r, g) == g \in Prefixes(r) \/ r \in Prefixes(g)
BeginsWith(r, g) == g \in Prefixes(r)

BeginDelete(r) == Begin("delete", r, {}, None) /\ pc' = "del_keys"

\* Mutant of Matches: the pattern is chatroom:<id>:*.
MatchesContents(g) == {k \in Key : Exists(k) /\ k.room = g /\ k.part # "set"}
Matches(g) == {k \in Key : Exists(k) /\ BeginsWith(k.room, g)}

DelKeys ==
  /\ pc = "del_keys"
  /\ \/ Error("KEYS")
     \/ /\ call' = [call EXCEPT !.keys = Matches(call.room)]
        /\ pc' = "del_del"
        /\ UNCHANGED <<redis, skipped>>

Forget(k) == call' = [call EXCEPT !.keys = @ \ {k}] /\ UNCHANGED pc

Del(k) ==
  /\ chatroom' = IF k.part = "set" THEN [chatroom EXCEPT ![k.room] = {}] ELSE chatroom
  /\ next_msg_id' = IF k.part = "next_msg_id" THEN [next_msg_id EXCEPT ![k.room] = 0]
                    ELSE next_msg_id
  /\ message' = IF k.part = "msg" THEN [message EXCEPT ![k.room][k.n] = None]
                ELSE message
  /\ skipped' = skipped \ {k}
  /\ UNCHANGED next_chatroom_id

DelDel ==
  /\ pc = "del_del"
  /\ \/ \E k \in call.keys : Forget(k) /\ Del(k)
     \/ /\ "DEL" \in Faulty
        /\ \E k \in call.keys : Forget(k) /\ skipped' = skipped \cup {k}
        /\ UNCHANGED redis
     \/ call.keys = {} /\ Return(call.room) /\ UNCHANGED <<redis, skipped>>

-----------------------------------------------------------------------------
\* leave_chatrooom: SREM of a user's name.
BeginLeave(r, n) == Begin("leave", r, {n}, None) /\ pc' = "leave_srem"

LeaveSrem ==
  /\ pc = "leave_srem"
  /\ \/ Error("SREM")
     \/ /\ chatroom' = [chatroom EXCEPT ![call.room] = @ \ call.who]
        /\ Return(call.room)
        /\ UNCHANGED <<next_chatroom_id, next_msg_id, message, skipped>>

\* is_user_exists_inchatroom: SISMEMBER of a user's name.
BeginIsMember(r, n) == Begin("isMember", r, {n}, None) /\ pc' = "member_sismember"

MemberSismember ==
  /\ pc = "member_sismember"
  /\ \/ Error("SISMEMBER")
     \/ Return(IF call.who \subseteq chatroom[call.room] THEN 1 ELSE 0)
        /\ UNCHANGED <<redis, skipped>>

-----------------------------------------------------------------------------
(***************************************************************************)
(* save_message: INCR chatroom:<r>:next_msg_id, HMSET chatroom:<r>:<id>.   *)
(* handleChat saves only for a room in which it finds members.             *)
(***************************************************************************)
BeginSave(r, t) ==
  /\ chatroom[r] # {}
  /\ next_msg_id[r] < MaxMsg
  /\ Begin("save", r, {}, t)
  /\ pc' = "save_incr"

\* Mutant of SaveIncr: the id is the counter before the increment.
SavePostIncrement ==
  /\ pc = "save_incr"
  /\ \/ Error("INCR")
     \/ /\ next_msg_id' = [next_msg_id EXCEPT ![call.room] = @ + 1]
        /\ call' = [call EXCEPT !.id = next_msg_id[call.room]]
        /\ pc' = "save_hmset"
        /\ UNCHANGED <<next_chatroom_id, chatroom, message, skipped>>

\* Mutant of SaveIncr: the ids of messages are read, and the counter not incremented.
SaveReadsCounter ==
  /\ pc = "save_incr"
  /\ \/ Error("INCR")
     \/ /\ call' = [call EXCEPT !.id = next_msg_id[call.room] + 1]
        /\ pc' = "save_hmset"
        /\ UNCHANGED <<redis, skipped>>

SaveIncr ==
  /\ pc = "save_incr"
  /\ \/ Error("INCR")
     \/ /\ next_msg_id' = [next_msg_id EXCEPT ![call.room] = @ + 1]
        /\ call' = [call EXCEPT !.id = next_msg_id[call.room] + 1]
        /\ pc' = "save_hmset"
        /\ UNCHANGED <<next_chatroom_id, chatroom, message, skipped>>

SaveHmset ==
  /\ pc = "save_hmset"
  /\ \/ Error("HMSET")
     \/ /\ message' = [message EXCEPT ![call.room][call.id] = call.text]
        /\ Return(call.id)
        /\ UNCHANGED <<next_chatroom_id, chatroom, next_msg_id, skipped>>

-----------------------------------------------------------------------------
Answer == pc = "return" /\ pc' = "idle" /\ call' = None /\ UNCHANGED <<redis, skipped>>

\* What a deletion had left to do stays.
Crash ==
  /\ pc # "down"
  /\ pc' = "down"
  /\ call' = None
  /\ skipped' = IF pc = "del_del" THEN skipped \cup call.keys ELSE skipped
  /\ UNCHANGED redis

Restart == pc = "down" /\ pc' = "idle" /\ UNCHANGED <<redis, call, skipped>>

Caller ==
  \/ \E a, b \in User : BeginCreate(a, b)
  \/ \E r \in Room : BeginDelete(r)
  \/ \E r \in Room, n \in Name : BeginLeave(r, n) \/ BeginIsMember(r, n)
  \/ \E r \in Room, t \in Text : BeginSave(r, t)

Next ==
  \/ Caller
  \/ CreateIncr \/ CreateSadd \/ DelKeys \/ DelDel \/ LeaveSrem \/ MemberSismember
  \/ SaveIncr \/ SaveHmset
  \/ Answer \/ Crash \/ Restart

Spec == Init /\ [][Next]_vars

-----------------------------------------------------------------------------
(***************************************************************************)
(* Properties                                                              *)
(***************************************************************************)

\* A room that has been created has its two users in it and no messages, also
\* when calls before it failed half way, or deleted rooms.
RoomsFresh ==
  pc = "return" /\ call.op = "create" /\ call.rc > 0 =>
    /\ chatroom[call.rc] = call.who
    /\ next_msg_id[call.rc] = 0
    /\ \A n \in MsgId : message[call.rc][n] = None

\* A message is never stored over another one, unless a deletion should have
\* deleted that one: ids are generated anew when the counter of a room has
\* been deleted and the room has not.
SaveKeepsHistory ==
  pc = "save_hmset" /\ message[call.room][call.id] # None
    => MsgKey(call.room, call.id) \in skipped

\* What is left of a room when its deletion has succeeded is what a DEL of this
\* or an earlier deletion failed on.
DeletedIsGone ==
  pc = "return" /\ call.op = "delete" /\ call.rc > 0 =>
    \A k \in Key : Exists(k) /\ k.room = call.room => k \in skipped

\* KEYS chatroom:<id>* finds more than the room.  What is lost with it are rooms
\* whose ids have more digits: every other room below Radix times the id keeps
\* its members and its messages.
DeletionSpares ==
  [][pc = "del_del" =>
       \A r \in Room : r # call.room /\ r < Radix * call.room =>
         /\ chatroom'[r] = chatroom[r]
         /\ next_msg_id'[r] = next_msg_id[r]
         /\ message'[r] = message[r]]_vars
=============================================================================
