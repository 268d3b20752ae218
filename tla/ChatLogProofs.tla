--------------------------- MODULE ChatLogProofs ---------------------------
(***************************************************************************)
(* Theorems about ChatLog, for any users, names and messages, any radix,   *)
(* any number of rooms and of messages, whatever commands may fail, and    *)
(* crashes anywhere.                                                       *)
(***************************************************************************)
EXTENDS ChatLog, TLAPS

-----------------------------------------------------------------------------
(***************************************************************************)
(* The inductive invariant.                                                *)
(***************************************************************************)
CreatePc == {"create_incr", "create_sadd"}
DeletePc == {"del_keys", "del_del"}
LeavePc == {"leave_srem"}
MemberPc == {"member_sismember"}
SavePc == {"save_incr", "save_hmset"}

\* A call in progress has its arguments, and is the call its command is of.
CallHasArguments ==
  /\ pc \notin {"idle", "down"} => call \in Calls
  /\ pc \in CreatePc => call.op = "create" /\ call.who \subseteq User
  /\ pc \in DeletePc => call.op = "delete"
  /\ pc \in LeavePc => call.op = "leave"
  /\ pc \in MemberPc => call.op = "isMember"
  /\ pc \in SavePc => call.op = "save" /\ call.text \in Text
  /\ pc \in DeletePc \cup LeavePc \cup MemberPc \cup SavePc => call.room \in Room

\* The counters have an id left for the call that is going to ask for one.
IdLeft ==
  /\ pc = "create_incr" => next_chatroom_id < MaxRoom
  /\ pc = "save_incr" => next_msg_id[call.room] < MaxMsg

Types == TypeOK /\ CallHasArguments /\ IdLeft

Unused(r) ==
  /\ chatroom[r] = {}
  /\ next_msg_id[r] = 0
  /\ \A n \in MsgId : message[r][n] = None

\* Nothing is kept under an id that has not been handed out, or has been handed
\* out to a create_chatroom that has not used it yet; messages go to rooms that
\* have been created.
IdsAreNew ==
  /\ \A r \in Room : r > next_chatroom_id => Unused(r)
  /\ pc = "create_sadd" => /\ call.room \in Room
                           /\ call.room = next_chatroom_id
                           /\ Unused(call.room)
  /\ pc \in SavePc => call.room <= next_chatroom_id

Doomed(k) == k \in skipped \/ (pc = "del_del" /\ k \in call.keys)

\* A message beyond the counter of its room is one that a deletion should have
\* deleted, or is about to.
CounterIsAhead ==
  /\ \A r \in Room, n \in MsgId :
       message[r][n] # None /\ n > next_msg_id[r] => Doomed(MsgKey(r, n))
  /\ pc = "save_hmset" => call.id = next_msg_id[call.room]

\* A deletion has what is left of the rooms that it matched before it, except for
\* what it, or one before it, has failed to delete; and nothing else.
DeletionCovers ==
  /\ pc = "del_del" =>
       /\ \A k \in Key : Exists(k) /\ BeginsWith(k.room, call.room) => Doomed(k)
       /\ \A k \in call.keys : BeginsWith(k.room, call.room)
  /\ DeletedIsGone

-----------------------------------------------------------------------------
(***************************************************************************)
(* Updates of the call's locals.                                           *)
(***************************************************************************)
SameArguments(c, d) == d.op = c.op /\ d.who = c.who /\ d.text = c.text

LEMMA SetRc ==
  ASSUME NEW c \in Calls, NEW rc \in Int
  PROVE  LET d == [c EXCEPT !.rc = rc] IN
         d \in Calls /\ SameArguments(c, d) /\ d.room = c.room /\ d.rc = rc
  BY DEF Calls, SameArguments

LEMMA SetRoom ==
  ASSUME NEW c \in Calls, NEW r \in Room
  PROVE  LET d == [c EXCEPT !.room = r] IN
         d \in Calls /\ SameArguments(c, d) /\ d.room = r
  BY DEF Calls, SameArguments

LEMMA SetId ==
  ASSUME NEW c \in Calls, NEW n \in MsgId
  PROVE  LET d == [c EXCEPT !.id = n] IN
         d \in Calls /\ SameArguments(c, d) /\ d.room = c.room /\ d.id = n
  BY DEF Calls, SameArguments

LEMMA SetKeys ==
  ASSUME NEW c \in Calls, NEW K \in SUBSET Key
  PROVE  LET d == [c EXCEPT !.keys = K] IN
         d \in Calls /\ SameArguments(c, d) /\ d.room = c.room /\ d.keys = K
  BY DEF Calls, SameArguments

LEMMA Returns ==
  ASSUME call \in Calls, NEW rc \in Int, Return(rc)
  PROVE  /\ pc' = "return" /\ call' \in Calls
         /\ SameArguments(call, call') /\ call'.room = call.room /\ call'.rc = rc
  BY SetRc DEF Return

LEMMA Errors ==
  ASSUME call \in Calls, NEW cmd, Error(cmd)
  PROVE  /\ pc' = "return" /\ call' \in Calls
         /\ SameArguments(call, call') /\ call'.room = call.room /\ call'.rc = -1
         /\ UNCHANGED <<redis, skipped>>
  BY Returns DEF Error, ERROR_NORMAL

\* A key is of a room, and a message's key has the message's number.
LEMMA KeysAreOfRooms ==
  /\ \A r \in Room : SetKey(r) \in Key /\ CounterKey(r) \in Key
  /\ \A r \in Room, n \in MsgId : MsgKey(r, n) \in Key
  /\ \A k \in Key : /\ k.room \in Room
                    /\ k.part = "set" => k = SetKey(k.room)
                    /\ k.part = "next_msg_id" => k = CounterKey(k.room)
                    /\ k.part = "msg" => k.n \in MsgId /\ k = MsgKey(k.room, k.n)
<1>1. \A r \in Room : /\ SetKey(r).room = r /\ SetKey(r).part = "set"
                      /\ CounterKey(r).room = r /\ CounterKey(r).part = "next_msg_id"
  BY DEF SetKey, CounterKey
<1>2. \A r \in Room, n \in MsgId : /\ MsgKey(r, n).room = r /\ MsgKey(r, n).n = n
                                   /\ MsgKey(r, n).part = "msg"
  BY DEF MsgKey
<1>3. ASSUME NEW k \in Key
      PROVE  \/ \E r \in Room : k = SetKey(r) \/ k = CounterKey(r)
             \/ \E r \in Room, n \in MsgId : k = MsgKey(r, n)
  BY DEF Key
<1>4. /\ \A r \in Room : SetKey(r) \in Key /\ CounterKey(r) \in Key
      /\ \A r \in Room, n \in MsgId : MsgKey(r, n) \in Key
  BY DEF Key
<1> QED BY <1>1, <1>2, <1>3, <1>4

LEMMA RoomsArePositive ==
  (\A r \in Room : r \in Int /\ r > 0) /\ (\A n \in MsgId : n \in Int /\ n > 0)
  BY BoundsAssumption DEF Room, MsgId

-----------------------------------------------------------------------------
(***************************************************************************)
(* Types.                                                                  *)
(***************************************************************************)
RedisTypes ==
  /\ next_chatroom_id \in 0 .. MaxRoom
  /\ chatroom \in [Room -> SUBSET User]
  /\ next_msg_id \in [Room -> 0 .. MaxMsg]
  /\ message \in [Room -> [MsgId -> Text \cup {None}]]

LEMMA TypesOfRedis == TypeOK => RedisTypes
  BY DEF TypeOK, RedisTypes

LEMMA AtReturn ==
  ASSUME pc' = "return", call' \in Calls, RedisTypes', skipped' \subseteq Key
  PROVE  Types'
  BY DEF Types, TypeOK, RedisTypes, CallHasArguments, IdLeft, Pc, CreatePc, DeletePc, LeavePc,
     MemberPc, SavePc

LEMMA AtRest ==
  ASSUME pc' \in {"idle", "down"}, call' \in Calls \cup {None}, RedisTypes', skipped' \subseteq Key
  PROVE  Types'
  BY DEF Types, TypeOK, RedisTypes, CallHasArguments, IdLeft, Pc, CreatePc, DeletePc, LeavePc,
     MemberPc, SavePc

LEMMA ErrorTypes ==
  ASSUME TypeOK, call \in Calls, NEW cmd, Error(cmd)
  PROVE  Types'
  BY Errors, AtReturn, TypesOfRedis DEF redis, RedisTypes, TypeOK

LEMMA BeginTypes ==
  ASSUME Types, NEW op \in Ops, NEW r \in Room \cup {0}, NEW who \in SUBSET (User \cup Name),
         NEW t \in Text \cup {None}, Begin(op, r, who, t)
  PROVE  /\ call' \in Calls /\ call'.op = op /\ call'.room = r /\ call'.who = who
         /\ call'.text = t /\ call'.keys = {} /\ call'.rc = 0
         /\ UNCHANGED <<redis, skipped>> /\ RedisTypes' /\ skipped' \subseteq Key
<1>1. 0 \in MsgId \cup {0} /\ {} \in SUBSET Key /\ 0 \in Int
  OBVIOUS
<1>2. call' \in Calls
  BY <1>1 DEF Begin, Calls
<1> QED
  BY <1>2, TypesOfRedis DEF Begin, redis, Types, RedisTypes, TypeOK

LEMMA CallerTypes ==
  ASSUME Types, Caller
  PROVE  Types'
<1> USE DEF Types, TypeOK, RedisTypes, CallHasArguments, IdLeft, Pc, CreatePc, DeletePc, LeavePc,
        MemberPc, SavePc
<1> HIDE DEF Types
<1>0. /\ {"create", "delete", "leave", "isMember", "save"} \subseteq Ops
      /\ 0 \in Room \cup {0} /\ {} \in SUBSET (User \cup Name)
  BY DEF Ops
<1>1. ASSUME NEW a \in User, NEW b \in User, BeginCreate(a, b) PROVE Types'
  <2>1. /\ call' \in Calls /\ call'.op = "create" /\ call'.who = {a, b}
        /\ UNCHANGED <<redis, skipped>> /\ RedisTypes' /\ skipped' \subseteq Key
    BY <1>0, <1>1, BeginTypes DEF BeginCreate
  <2> QED BY <1>1, <2>1 DEF BeginCreate, redis, Types
<1>2. ASSUME NEW r \in Room, BeginDelete(r) PROVE Types'
  <2>1. /\ call' \in Calls /\ call'.op = "delete" /\ call'.room = r
        /\ RedisTypes' /\ skipped' \subseteq Key
    BY <1>0, <1>2, BeginTypes DEF BeginDelete
  <2> QED BY <1>2, <2>1 DEF BeginDelete, Types
<1>3. ASSUME NEW r \in Room, NEW n \in Name, BeginLeave(r, n) PROVE Types'
  <2>1. /\ call' \in Calls /\ call'.op = "leave" /\ call'.room = r
        /\ RedisTypes' /\ skipped' \subseteq Key
    BY <1>0, <1>3, BeginTypes DEF BeginLeave
  <2> QED BY <1>3, <2>1 DEF BeginLeave, Types
<1>4. ASSUME NEW r \in Room, NEW n \in Name, BeginIsMember(r, n) PROVE Types'
  <2>1. /\ call' \in Calls /\ call'.op = "isMember" /\ call'.room = r
        /\ RedisTypes' /\ skipped' \subseteq Key
    BY <1>0, <1>4, BeginTypes DEF BeginIsMember
  <2> QED BY <1>4, <2>1 DEF BeginIsMember, Types
<1>5. ASSUME NEW r \in Room, NEW t \in Text, BeginSave(r, t) PROVE Types'
  <2>1. /\ call' \in Calls /\ call'.op = "save" /\ call'.room = r /\ call'.text = t
        /\ UNCHANGED <<redis, skipped>> /\ RedisTypes' /\ skipped' \subseteq Key
    BY <1>0, <1>5, BeginTypes DEF BeginSave
  <2> QED BY <1>5, <2>1 DEF BeginSave, redis, Types
<1> QED BY <1>1, <1>2, <1>3, <1>4, <1>5 DEF Caller

\* A DEL removes a key, and changes no other.
LEMMA DelRemoves ==
  ASSUME TypeOK, NEW k \in Key, Del(k)
  PROVE  /\ RedisTypes' /\ skipped' = skipped \ {k} /\ next_chatroom_id' = next_chatroom_id
         /\ chatroom' \in [Room -> SUBSET User]
         /\ \A r \in Room : chatroom'[r] = IF k = SetKey(r) THEN {} ELSE chatroom[r]
         /\ \A r \in Room : next_msg_id'[r] = IF k = CounterKey(r) THEN 0 ELSE next_msg_id[r]
         /\ \A r \in Room, n \in MsgId :
              message'[r][n] = IF k = MsgKey(r, n) THEN None ELSE message[r][n]
<1>0. next_chatroom_id' = next_chatroom_id /\ skipped' = skipped \ {k}
  BY DEF Del
<1>1. CASE k.part = "set"
  <2>1. k.room \in Room /\ k = SetKey(k.room)
    BY <1>1, KeysAreOfRooms
  <2>2. chatroom' = [chatroom EXCEPT ![k.room] = {}] /\ UNCHANGED <<next_msg_id, message>>
    BY <1>1 DEF Del
  <2>3. \A r \in Room : k = SetKey(r) <=> r = k.room
    BY <2>1 DEF SetKey
  <2>4. \A r \in Room : k # CounterKey(r) /\ \A n \in MsgId : k # MsgKey(r, n)
    BY <1>1 DEF CounterKey, MsgKey
  <2>5. RedisTypes'
    BY <1>0, <2>1, <2>2 DEF TypeOK, RedisTypes
  <2>6. \A r \in Room : chatroom'[r] = IF r = k.room THEN {} ELSE chatroom[r]
    BY <2>1, <2>2 DEF TypeOK
  <2> QED BY <1>0, <2>2, <2>3, <2>4, <2>5, <2>6 DEF RedisTypes
<1>2. CASE k.part = "next_msg_id"
  <2>1. k.room \in Room /\ k = CounterKey(k.room)
    BY <1>2, KeysAreOfRooms
  <2>2. next_msg_id' = [next_msg_id EXCEPT ![k.room] = 0] /\ UNCHANGED <<chatroom, message>>
    BY <1>2 DEF Del
  <2>3. \A r \in Room : k = CounterKey(r) <=> r = k.room
    BY <2>1 DEF CounterKey
  <2>4. \A r \in Room : k # SetKey(r) /\ \A n \in MsgId : k # MsgKey(r, n)
    BY <1>2 DEF SetKey, MsgKey
  <2>5. RedisTypes'
    BY <1>0, <2>1, <2>2, BoundsAssumption DEF TypeOK, RedisTypes
  <2>6. \A r \in Room : next_msg_id'[r] = IF r = k.room THEN 0 ELSE next_msg_id[r]
    BY <2>1, <2>2 DEF TypeOK
  <2> QED BY <1>0, <2>2, <2>3, <2>4, <2>5, <2>6 DEF RedisTypes
<1>3. CASE k.part = "msg"
  <2>1. k.room \in Room /\ k.n \in MsgId /\ k = MsgKey(k.room, k.n)
    BY <1>3, KeysAreOfRooms
  <2>2. message' = [message EXCEPT ![k.room][k.n] = None] /\ UNCHANGED <<chatroom, next_msg_id>>
    BY <1>3 DEF Del
  <2>3. \A r \in Room, n \in MsgId : k = MsgKey(r, n) <=> r = k.room /\ n = k.n
    BY <2>1 DEF MsgKey
  <2>4. \A r \in Room, n \in MsgId : k # SetKey(r) /\ k # CounterKey(r)
    BY <1>3 DEF SetKey, CounterKey
  <2>5. message' \in [Room -> [MsgId -> Text \cup {None}]]
    BY <2>1, <2>2 DEF TypeOK
  <2>6. \A r \in Room, n \in MsgId :
          message'[r][n] = IF r = k.room /\ n = k.n THEN None ELSE message[r][n]
    BY <2>1, <2>2 DEF TypeOK
  <2>7. RedisTypes'
    BY <1>0, <2>2, <2>5 DEF TypeOK, RedisTypes
  <2> QED BY <1>0, <2>2, <2>3, <2>4, <2>6, <2>7 DEF RedisTypes
<1> QED BY <1>1, <1>2, <1>3 DEF Key, SetKey, CounterKey, MsgKey

LEMMA TypesInit == Init => Types
  BY BoundsAssumption, SMT
  DEF Init, Types, TypeOK, CallHasArguments, IdLeft, Pc, CreatePc, DeletePc, LeavePc, MemberPc,
      SavePc

LEMMA TypesStep == Types /\ [Next]_vars => Types'
<1> SUFFICES ASSUME Types, [Next]_vars PROVE Types'
  OBVIOUS
<1>0. /\ TypeOK /\ RedisTypes
      /\ pc \notin {"idle", "down"} => call \in Calls
  BY TypesOfRedis DEF Types, CallHasArguments
<1>1. CASE Caller
  BY <1>1, CallerTypes
<1>2. CASE CreateIncr
  <2>1. CASE Error("INCR")
    BY <1>0, <1>2, <2>1, ErrorTypes DEF CreateIncr
  <2>2. CASE ~Error("INCR")
    <3>1. /\ next_chatroom_id + 1 \in Room /\ next_chatroom_id + 1 \in 0 .. MaxRoom
          /\ next_chatroom_id' = next_chatroom_id + 1
      BY <1>0, <1>2, <2>2, BoundsAssumption DEF CreateIncr, RedisTypes, Types, IdLeft, Room
    <3>2. /\ call' \in Calls /\ SameArguments(call, call') /\ call'.room \in Room
      BY <1>0, <1>2, <2>2, <3>1, SetRoom DEF CreateIncr
    <3>3. call.op = "create" /\ call.who \subseteq User
      BY <1>2 DEF CreateIncr, Types, CallHasArguments, CreatePc
    <3> QED
      BY <1>0, <1>2, <2>2, <3>1, <3>2, <3>3
      DEF CreateIncr, Types, TypeOK, CallHasArguments, IdLeft, Pc, CreatePc, DeletePc, LeavePc,
          MemberPc, SavePc, SameArguments
  <2> QED BY <2>1, <2>2
<1>3. CASE CreateSadd
  <2>1. CASE Error("SADD")
    BY <1>0, <1>3, <2>1, ErrorTypes DEF CreateSadd
  <2>2. CASE ~Error("SADD")
    <3>1. call \in Calls /\ call.who \subseteq User /\ call.room \in Int
      BY <1>0, <1>3, RoomsArePositive DEF CreateSadd, Types, CallHasArguments, CreatePc, Calls
    <3>2. RedisTypes' /\ skipped' \subseteq Key
      BY <1>0, <1>3, <2>2, <3>1 DEF CreateSadd, RedisTypes, TypeOK
    <3> QED BY <1>3, <2>2, <3>1, <3>2, Returns, AtReturn DEF CreateSadd
  <2> QED BY <2>1, <2>2
<1>4. CASE DelKeys
  <2>1. CASE Error("KEYS")
    BY <1>0, <1>4, <2>1, ErrorTypes DEF DelKeys
  <2>2. CASE ~Error("KEYS")
    <3>1. call \in Calls /\ call.op = "delete" /\ call.room \in Room
      BY <1>0, <1>4 DEF DelKeys, Types, CallHasArguments, DeletePc
    <3>2. call' \in Calls /\ SameArguments(call, call') /\ call'.room = call.room
      <4>1. PICK K \in SUBSET Key : call' = [call EXCEPT !.keys = K]
        BY <1>4, <2>2 DEF DelKeys, Matches
      <4> QED BY <3>1, <4>1, SetKeys
    <3> QED
      BY <1>0, <1>4, <2>2, <3>1, <3>2
      DEF DelKeys, redis, Types, TypeOK, CallHasArguments, IdLeft, Pc, CreatePc, DeletePc,
          LeavePc, MemberPc, SavePc, SameArguments
  <2> QED BY <2>1, <2>2
<1>5. CASE DelDel
  <2>1. call \in Calls /\ call.op = "delete" /\ call.room \in Room /\ call.keys \subseteq Key
    BY <1>0, <1>5 DEF DelDel, Types, CallHasArguments, DeletePc, Calls
  <2>2. ASSUME NEW k \in call.keys, Forget(k), RedisTypes', skipped' \subseteq Key PROVE Types'
    <3>1. call' \in Calls /\ SameArguments(call, call') /\ call'.room = call.room
      BY <2>1, <2>2, SetKeys DEF Forget
    <3> QED
      BY <1>0, <1>5, <2>1, <2>2, <3>1
      DEF DelDel, Forget, Types, TypeOK, RedisTypes, CallHasArguments, IdLeft, Pc, CreatePc,
          DeletePc, LeavePc, MemberPc, SavePc, SameArguments
  <2>3. ASSUME NEW k \in call.keys, Forget(k), Del(k) PROVE Types'
    BY <1>0, <2>1, <2>2, <2>3, DelRemoves DEF TypeOK
  <2>4. ASSUME NEW k \in call.keys, Forget(k), skipped' = skipped \cup {k}, UNCHANGED redis
        PROVE  Types'
    BY <1>0, <2>1, <2>2, <2>4 DEF TypeOK, RedisTypes, redis
  <2>5. CASE Return(call.room) /\ UNCHANGED <<redis, skipped>>
    <3>1. call.room \in Int
      BY <2>1, RoomsArePositive
    <3>2. RedisTypes' /\ skipped' \subseteq Key
      BY <1>0, <2>5 DEF RedisTypes, TypeOK, redis
    <3> QED BY <2>1, <2>5, <3>1, <3>2, Returns, AtReturn
  <2> QED BY <1>5, <2>3, <2>4, <2>5 DEF DelDel
<1>6. CASE LeaveSrem
  <2>1. CASE Error("SREM")
    BY <1>0, <1>6, <2>1, ErrorTypes DEF LeaveSrem
  <2>2. CASE ~Error("SREM")
    <3>1. call \in Calls /\ call.room \in Room
      BY <1>0, <1>6 DEF LeaveSrem, Types, CallHasArguments, LeavePc
    <3>2. RedisTypes' /\ skipped' \subseteq Key
      BY <1>0, <1>6, <2>2, <3>1 DEF LeaveSrem, RedisTypes, TypeOK
    <3>3. call.room \in Int
      BY <3>1, RoomsArePositive
    <3> QED BY <1>6, <2>2, <3>1, <3>2, <3>3, Returns, AtReturn DEF LeaveSrem
  <2> QED BY <2>1, <2>2
<1>7. CASE MemberSismember
  <2>1. CASE Error("SISMEMBER")
    BY <1>0, <1>7, <2>1, ErrorTypes DEF MemberSismember
  <2>2. CASE ~Error("SISMEMBER")
    <3>1. PICK rc \in {0, 1} : Return(rc)
      BY <1>7, <2>2 DEF MemberSismember
    <3>2. call \in Calls /\ rc \in Int /\ RedisTypes' /\ skipped' \subseteq Key
      BY <1>0, <1>7, <2>2 DEF MemberSismember, RedisTypes, TypeOK, redis
    <3> QED BY <3>1, <3>2, Returns, AtReturn
  <2> QED BY <2>1, <2>2
<1>8. CASE SaveIncr
  <2>1. CASE Error("INCR")
    BY <1>0, <1>8, <2>1, ErrorTypes DEF SaveIncr
  <2>2. CASE ~Error("INCR")
    <3>1. call \in Calls /\ call.op = "save" /\ call.text \in Text /\ call.room \in Room
      BY <1>0, <1>8 DEF SaveIncr, Types, CallHasArguments, SavePc
    <3>2. next_msg_id[call.room] + 1 \in MsgId /\ next_msg_id[call.room] + 1 \in 0 .. MaxMsg
      BY <1>0, <1>8, <3>1, BoundsAssumption
      DEF SaveIncr, RedisTypes, Types, IdLeft, MsgId
    <3>3. RedisTypes' /\ skipped' \subseteq Key
      BY <1>0, <1>8, <2>2, <3>1, <3>2 DEF SaveIncr, RedisTypes, TypeOK
    <3>4. /\ call' \in Calls /\ SameArguments(call, call') /\ call'.room = call.room
          /\ call'.id \in MsgId
      <4>1. PICK n \in MsgId : call' = [call EXCEPT !.id = n]
        BY <1>8, <2>2, <3>2 DEF SaveIncr
      <4> QED BY <3>1, <4>1, SetId
    <3> QED
      BY <1>8, <2>2, <3>1, <3>3, <3>4
      DEF SaveIncr, RedisTypes, Types, TypeOK, CallHasArguments, IdLeft, Pc, CreatePc, DeletePc,
          LeavePc, MemberPc, SavePc, SameArguments
  <2> QED BY <2>1, <2>2
<1>9. CASE SaveHmset
  <2>1. CASE Error("HMSET")
    BY <1>0, <1>9, <2>1, ErrorTypes DEF SaveHmset
  <2>2. CASE ~Error("HMSET")
    <3>1. call \in Calls /\ call.text \in Text /\ call.room \in Room /\ call.id \in MsgId
      BY <1>0, <1>9 DEF SaveHmset, Types, TypeOK, CallHasArguments, SavePc
    <3>2. RedisTypes' /\ skipped' \subseteq Key
      <4>1. message' = [message EXCEPT ![call.room][call.id] = call.text]
        BY <1>9, <2>2 DEF SaveHmset
      <4>2. message' \in [Room -> [MsgId -> Text \cup {None}]]
        BY <1>0, <3>1, <4>1 DEF RedisTypes
      <4> QED BY <1>0, <1>9, <2>2, <4>2 DEF SaveHmset, RedisTypes, TypeOK
    <3> QED BY <1>9, <2>2, <3>1, <3>2, Returns, AtReturn, RoomsArePositive DEF SaveHmset
  <2> QED BY <2>1, <2>2
<1>10. CASE Answer
  BY <1>0, <1>10, AtRest DEF Answer, RedisTypes, TypeOK, redis
<1>11. CASE Crash
  <2>1. skipped' \subseteq Key
    BY <1>0, <1>11 DEF Crash, TypeOK, Calls
  <2> QED BY <1>0, <1>11, <2>1, AtRest DEF Crash, RedisTypes, redis
<1>12. CASE Restart
  BY <1>0, <1>12, AtRest DEF Restart, RedisTypes, TypeOK, redis
<1>13. CASE UNCHANGED vars
  BY <1>13
  DEF vars, Types, TypeOK, CallHasArguments, IdLeft, Pc, CreatePc, DeletePc, LeavePc, MemberPc,
      SavePc
<1> QED
  BY <1>1, <1>2, <1>3, <1>4, <1>5, <1>6, <1>7, <1>8, <1>9, <1>10, <1>11, <1>12, <1>13 DEF Next

\* Every call of the dao functions has the arguments it needs at each command it
\* issues, and Redis holds sets of users, counters and messages only.
THEOREM TypeCorrect == Spec => []TypeOK
<1>1. Types => TypeOK
  BY DEF Types
<1> QED BY <1>1, TypesInit, TypesStep, PTL DEF Spec

-----------------------------------------------------------------------------
(***************************************************************************)
(* What each Redis command does when it answers.                           *)
(***************************************************************************)
LEMMA SaddEffect ==
  ASSUME Types, CreateSadd, ~Error("SADD")
  PROVE  /\ call \in Calls /\ call.room \in Int /\ call.op = "create"
         /\ UNCHANGED <<next_chatroom_id, next_msg_id, message, skipped>>
         /\ \A r \in Room :
              chatroom'[r] = IF r = call.room THEN chatroom[r] \cup call.who ELSE chatroom[r]
         /\ pc' = "return" /\ call'.op = "create" /\ call'.who = call.who /\ call'.rc = call.room
<1>1. call \in Calls /\ call.op = "create" /\ call.room \in Int
  BY RoomsArePositive DEF CreateSadd, Types, CallHasArguments, CreatePc, Calls
<1>2. Return(call.room)
  BY DEF CreateSadd
<1>3. pc' = "return" /\ SameArguments(call, call') /\ call'.rc = call.room
  BY <1>1, <1>2, Returns
<1> QED BY <1>1, <1>3 DEF CreateSadd, Types, TypeOK, SameArguments

LEMMA SremEffect ==
  ASSUME Types, LeaveSrem, ~Error("SREM")
  PROVE  /\ call \in Calls /\ call.op = "leave"
         /\ UNCHANGED <<next_chatroom_id, next_msg_id, message, skipped>>
         /\ \A r \in Room : chatroom'[r] \subseteq chatroom[r]
         /\ pc' = "return" /\ call'.op = "leave"
<1>1. call \in Calls /\ call.op = "leave" /\ call.room \in Int
  BY RoomsArePositive DEF LeaveSrem, Types, CallHasArguments, LeavePc
<1>2. Return(call.room)
  BY DEF LeaveSrem
<1>3. pc' = "return" /\ SameArguments(call, call')
  BY <1>1, <1>2, Returns
<1> QED BY <1>1, <1>3 DEF LeaveSrem, Types, TypeOK, SameArguments

LEMMA SaveIncrEffect ==
  ASSUME Types, SaveIncr, ~Error("INCR")
  PROVE  /\ call \in Calls /\ call.op = "save" /\ call.room \in Room
         /\ UNCHANGED <<next_chatroom_id, chatroom, message, skipped>>
         /\ \A r \in Room :
              next_msg_id'[r] = IF r = call.room THEN next_msg_id[r] + 1 ELSE next_msg_id[r]
         /\ pc' = "save_hmset" /\ call'.room = call.room
         /\ call'.id = next_msg_id[call.room] + 1 /\ call'.id \in MsgId
<1>1. call \in Calls /\ call.op = "save" /\ call.room \in Room
  BY DEF SaveIncr, Types, CallHasArguments, SavePc
<1>2. PICK n \in MsgId : n = next_msg_id[call.room] + 1 /\ call' = [call EXCEPT !.id = n]
  BY <1>1, BoundsAssumption DEF SaveIncr, Types, TypeOK, IdLeft, MsgId
<1>3. call'.room = call.room /\ call'.id = n
  BY <1>1, <1>2, SetId
<1> QED BY <1>1, <1>2, <1>3 DEF SaveIncr, Types, TypeOK

LEMMA HmsetEffect ==
  ASSUME Types, SaveHmset, ~Error("HMSET")
  PROVE  /\ call \in Calls /\ call.op = "save" /\ call.room \in Room /\ call.id \in MsgId
         /\ UNCHANGED <<next_chatroom_id, chatroom, next_msg_id, skipped>>
         /\ \A r \in Room, n \in MsgId :
              message'[r][n] = IF r = call.room /\ n = call.id THEN call.text ELSE message[r][n]
         /\ pc' = "return" /\ call'.op = "save"
<1>1. call \in Calls /\ call.op = "save" /\ call.room \in Room /\ call.id \in MsgId
  BY DEF SaveHmset, Types, TypeOK, CallHasArguments, SavePc
<1>2. Return(call.id) /\ call.id \in Int
  BY <1>1, RoomsArePositive DEF SaveHmset
<1>3. pc' = "return" /\ SameArguments(call, call')
  BY <1>1, <1>2, Returns
<1>4. message' = [message EXCEPT ![call.room][call.id] = call.text]
  BY DEF SaveHmset
<1>5. \A r \in Room, n \in MsgId :
        message'[r][n] = IF r = call.room /\ n = call.id THEN call.text ELSE message[r][n]
  BY <1>1, <1>4 DEF Types, TypeOK
<1> QED BY <1>1, <1>3, <1>5 DEF SaveHmset, SameArguments

\* The steps of a deletion: a key is deleted, a key is skipped, or none is left.
LEMMA DelDelEffect ==
  ASSUME Types, DelDel
  PROVE  /\ call \in Calls /\ call.op = "delete" /\ call.room \in Room
         /\ call.keys \subseteq Key /\ next_chatroom_id' = next_chatroom_id
         /\ \/ \E k \in call.keys :
                 /\ pc' = "del_del" /\ call'.room = call.room /\ call'.keys = call.keys \ {k}
                 /\ \/ Del(k)
                    \/ skipped' = skipped \cup {k} /\ UNCHANGED redis
            \/ /\ call.keys = {} /\ UNCHANGED <<redis, skipped>>
               /\ pc' = "return" /\ call'.op = "delete" /\ call'.room = call.room
<1>1. call \in Calls /\ call.op = "delete" /\ call.room \in Room /\ call.keys \subseteq Key
  BY DEF DelDel, Types, CallHasArguments, DeletePc, Calls
<1>2. next_chatroom_id' = next_chatroom_id
  BY DEF DelDel, Del, redis
<1>3. ASSUME NEW k \in call.keys, Forget(k)
      PROVE  pc' = "del_del" /\ call'.room = call.room /\ call'.keys = call.keys \ {k}
  BY <1>1, <1>3, SetKeys DEF Forget, DelDel
<1>4. ASSUME Return(call.room)
      PROVE  pc' = "return" /\ call'.op = "delete" /\ call'.room = call.room
  <2>1. call.room \in Int
    BY <1>1, RoomsArePositive
  <2> QED BY <1>1, <1>4, <2>1, Returns DEF SameArguments
<1> QED BY <1>1, <1>2, <1>3, <1>4 DEF DelDel

\* KEYS changes nothing.
LEMMA KeysEffect ==
  ASSUME Types, DelKeys, ~Error("KEYS")
  PROVE  /\ call \in Calls /\ call.room \in Room /\ UNCHANGED <<redis, skipped>>
         /\ pc' = "del_del" /\ call'.room = call.room /\ call'.keys = Matches(call.room)
<1>1. call \in Calls /\ call.room \in Room
  BY DEF DelKeys, Types, CallHasArguments, DeletePc
<1>2. PICK K \in SUBSET Key : K = Matches(call.room) /\ call' = [call EXCEPT !.keys = K]
  BY DEF DelKeys, Matches
<1>3. call'.room = call.room /\ call'.keys = K
  BY <1>1, <1>2, SetKeys
<1> QED BY <1>1, <1>2, <1>3 DEF DelKeys

\* A command that answers an error, SISMEMBER, and the server's own steps: Redis
\* is as it was, and nothing has been created, nor deleted to the end.
Quiet ==
  /\ UNCHANGED redis
  /\ pc' \in {"idle", "down", "return"}
  /\ pc' = "return" => call'.op = "isMember" \/ call'.rc = -1
  /\ skipped' = IF pc = "del_del" THEN skipped \cup call.keys ELSE skipped

LEMMA QuietSteps ==
  ASSUME Types,
         \/ \E cmd : pc \notin {"idle", "down", "del_del"} /\ Error(cmd)
         \/ MemberSismember \/ Answer \/ Crash \/ Restart
  PROVE  Quiet
<1>1. ASSUME NEW cmd, pc \notin {"idle", "down", "del_del"}, Error(cmd) PROVE Quiet
  BY <1>1, Errors DEF Quiet, Types, CallHasArguments
<1>2. CASE MemberSismember
  <2>1. CASE Error("SISMEMBER")
    BY <1>1, <1>2, <2>1 DEF MemberSismember
  <2>2. CASE ~Error("SISMEMBER")
    <3>1. PICK rc \in {0, 1} : Return(rc)
      BY <1>2, <2>2 DEF MemberSismember
    <3>2. call \in Calls /\ rc \in Int /\ call.op = "isMember"
      BY <1>2 DEF MemberSismember, Types, CallHasArguments, MemberPc
    <3>3. pc' = "return" /\ call'.op = "isMember"
      BY <3>1, <3>2, Returns DEF SameArguments
    <3> QED BY <1>2, <2>2, <3>3 DEF MemberSismember, Quiet
  <2> QED BY <2>1, <2>2
<1>3. CASE Answer \/ Crash \/ Restart
  BY <1>3 DEF Answer, Crash, Restart, Quiet
<1> QED BY <1>1, <1>2, <1>3

\* The handlers' steps: the call has its arguments, and Redis is as it was.
LEMMA CallerEffect ==
  ASSUME Types, Caller
  PROVE  /\ UNCHANGED <<redis, skipped>> /\ pc = "idle"
         /\ \/ pc' \in {"create_incr", "del_keys", "leave_srem", "member_sismember"}
            \/ pc' = "save_incr" /\ call'.room \in Room /\ chatroom[call'.room] # {}
<1>1. ASSUME NEW r \in Room, NEW t \in Text, BeginSave(r, t)
      PROVE  call'.room \in Room /\ chatroom[call'.room] # {}
  BY <1>1 DEF BeginSave, Begin
<1> QED
  BY <1>1 DEF Caller, BeginCreate, BeginDelete, BeginLeave, BeginIsMember, BeginSave, Begin

LEMMA Steps ==
  ASSUME Types, [Next]_vars
  PROVE  \/ Caller \/ DelDel \/ Quiet \/ UNCHANGED vars
         \/ (CreateIncr /\ ~Error("INCR")) \/ (CreateSadd /\ ~Error("SADD"))
         \/ (DelKeys /\ ~Error("KEYS")) \/ (LeaveSrem /\ ~Error("SREM"))
         \/ (SaveIncr /\ ~Error("INCR")) \/ (SaveHmset /\ ~Error("HMSET"))
<1>1. ASSUME NEW cmd, pc \notin {"idle", "down", "del_del"}, Error(cmd) PROVE Quiet
  BY <1>1, QuietSteps
<1>2. ASSUME CreateIncr \/ CreateSadd \/ DelKeys \/ LeaveSrem \/ SaveIncr \/ SaveHmset
      PROVE  pc \notin {"idle", "down", "del_del"}
  BY <1>2 DEF CreateIncr, CreateSadd, DelKeys, LeaveSrem, SaveIncr, SaveHmset
<1>3. ASSUME MemberSismember \/ Answer \/ Crash \/ Restart PROVE Quiet
  BY <1>3, QuietSteps
<1> QED BY <1>1, <1>2, <1>3, Zenon DEF Next

-----------------------------------------------------------------------------
(***************************************************************************)
(* Rooms are new.                                                          *)
(***************************************************************************)
LEMMA UnusedKept ==
  ASSUME NEW r \in Room, Unused(r),
         chatroom'[r] \subseteq chatroom[r], next_msg_id'[r] \in {0, next_msg_id[r]},
         \A n \in MsgId : message'[r][n] \in {None, message[r][n]}
  PROVE  Unused(r)'
  BY DEF Unused

LEMMA IdsStep ==
  ASSUME Types, IdsAreNew, RoomsFresh, [Next]_vars
  PROVE  IdsAreNew' /\ RoomsFresh'
<1>0. TypeOK /\ \A r \in Room : r \in Int
  BY RoomsArePositive DEF Types
<1>1. CASE Caller
  <2>1. pc' = "save_incr" => call'.room <= next_chatroom_id
    BY <1>0, <1>1, CallerEffect DEF IdsAreNew, Unused, TypeOK
  <2> QED
    BY <1>1, <2>1, CallerEffect DEF IdsAreNew, RoomsFresh, Unused, SavePc, redis
<1>2. CASE DelDel
  <2>1. ASSUME NEW r \in Room, Unused(r) PROVE Unused(r)'
    <3>1. CASE UNCHANGED redis
      BY <2>1, <3>1 DEF redis, Unused
    <3>2. ASSUME NEW k \in Key, Del(k) PROVE Unused(r)'
      <4>1. /\ chatroom'[r] \subseteq chatroom[r] /\ next_msg_id'[r] \in {0, next_msg_id[r]}
            /\ \A n \in MsgId : message'[r][n] \in {None, message[r][n]}
        BY <1>0, <3>2, DelRemoves
      <4> QED BY <2>1, <4>1, UnusedKept
    <3> QED BY <1>2, <3>1, <3>2, DelDelEffect
  <2>2. next_chatroom_id' = next_chatroom_id /\ pc' \in {"del_del", "return"}
        /\ (pc' = "return" => call'.op = "delete")
    BY <1>2, DelDelEffect
  <2> QED BY <2>1, <2>2 DEF IdsAreNew, RoomsFresh, SavePc
<1>3. CASE Quiet
  BY <1>3 DEF Quiet, IdsAreNew, RoomsFresh, Unused, SavePc, redis
<1>4. CASE UNCHANGED vars
  BY <1>4 DEF vars, IdsAreNew, RoomsFresh, Unused
<1>5. CASE CreateIncr /\ ~Error("INCR")
  <2>1. /\ call \in Calls /\ next_chatroom_id + 1 \in Room /\ next_chatroom_id \in Int
    BY <1>0, <1>5, BoundsAssumption
    DEF CreateIncr, TypeOK, Types, IdLeft, CallHasArguments, Room
  <2>2. call'.room = next_chatroom_id + 1 /\ next_chatroom_id' = next_chatroom_id + 1
    BY <1>5, <2>1, SetRoom DEF CreateIncr
  <2>3. pc' = "create_sadd" /\ UNCHANGED <<chatroom, next_msg_id, message>>
    BY <1>5 DEF CreateIncr
  <2> QED BY <1>0, <2>1, <2>2, <2>3 DEF IdsAreNew, RoomsFresh, Unused, SavePc
<1>6. CASE CreateSadd /\ ~Error("SADD")
  <2>1. call.room = next_chatroom_id /\ Unused(call.room) /\ call.room \in Room
    BY <1>6 DEF CreateSadd, IdsAreNew
  <2>2. ASSUME NEW r \in Room, r > next_chatroom_id, Unused(r) PROVE Unused(r)'
    <3>1. r # call.room
      BY <1>0, <2>1, <2>2 DEF TypeOK
    <3> QED BY <1>6, <2>2, <3>1, SaddEffect DEF Unused
  <2>3. RoomsFresh'
    BY <1>0, <1>6, <2>1, SaddEffect DEF RoomsFresh, Unused
  <2> QED BY <1>6, <2>2, <2>3, SaddEffect DEF IdsAreNew, SavePc
<1>7. CASE DelKeys /\ ~Error("KEYS")
  BY <1>7, KeysEffect DEF IdsAreNew, RoomsFresh, Unused, SavePc, redis
<1>8. CASE LeaveSrem /\ ~Error("SREM")
  <2>1. ASSUME NEW r \in Room, Unused(r) PROVE Unused(r)'
    BY <1>8, <2>1, SremEffect, UnusedKept
  <2> QED BY <1>8, <2>1, SremEffect DEF IdsAreNew, RoomsFresh, SavePc
<1>9. CASE SaveIncr /\ ~Error("INCR")
  <2>1. call.room <= next_chatroom_id
    BY <1>9 DEF SaveIncr, IdsAreNew, SavePc
  <2>2. ASSUME NEW r \in Room, r > next_chatroom_id, Unused(r) PROVE Unused(r)'
    <3>1. r # call.room
      BY <1>0, <1>9, <2>1, <2>2, SaveIncrEffect DEF TypeOK
    <3> QED BY <1>9, <2>2, <3>1, SaveIncrEffect DEF Unused
  <2> QED BY <1>9, <2>1, <2>2, SaveIncrEffect DEF IdsAreNew, RoomsFresh, SavePc
<1>10. CASE SaveHmset /\ ~Error("HMSET")
  <2>1. call.room <= next_chatroom_id
    BY <1>10 DEF SaveHmset, IdsAreNew, SavePc
  <2>2. ASSUME NEW r \in Room, r > next_chatroom_id, Unused(r) PROVE Unused(r)'
    <3>1. r # call.room
      BY <1>0, <1>10, <2>1, <2>2, HmsetEffect DEF TypeOK
    <3> QED BY <1>10, <2>2, <3>1, HmsetEffect DEF Unused
  <2> QED BY <1>10, <2>2, HmsetEffect DEF IdsAreNew, RoomsFresh, SavePc
<1> QED
  BY <1>1, <1>2, <1>3, <1>4, <1>5, <1>6, <1>7, <1>8, <1>9, <1>10, Steps

\* A room just created has its two users in it and nothing else, whatever calls
\* have failed, or crashed, or deleted before.
THEOREM CreatedRoomsAreNew == Spec => []RoomsFresh
<1>1. Init => IdsAreNew /\ RoomsFresh
  BY DEF Init, IdsAreNew, RoomsFresh, Unused, SavePc
<1>2. Types /\ IdsAreNew /\ RoomsFresh /\ [Next]_vars => IdsAreNew' /\ RoomsFresh'
  BY IdsStep
<1> QED BY <1>1, <1>2, TypesInit, TypesStep, PTL DEF Spec

-----------------------------------------------------------------------------
(***************************************************************************)
(* Deletions.                                                              *)
(***************************************************************************)

\* What exists of a room after a DEL existed before it, and is not what it deleted.
LEMMA DelLeaves ==
  ASSUME TypeOK, NEW k \in Key, Del(k), NEW l \in Key, Exists(l)'
  PROVE  Exists(l) /\ l # k
<1>1. l.room \in Room
  BY KeysAreOfRooms
<1>2. CASE l.part = "set"
  <2>1. l = SetKey(l.room) /\ chatroom'[l.room] # {}
    BY <1>2, KeysAreOfRooms DEF Exists
  <2> QED BY <1>1, <1>2, <2>1, DelRemoves DEF Exists
<1>3. CASE l.part = "next_msg_id"
  <2>1. l = CounterKey(l.room) /\ next_msg_id'[l.room] # 0
    BY <1>3, KeysAreOfRooms DEF Exists
  <2> QED BY <1>1, <1>3, <2>1, DelRemoves DEF Exists
<1>4. CASE l.part = "msg"
  <2>1. l.n \in MsgId /\ l = MsgKey(l.room, l.n) /\ message'[l.room][l.n] # None
    BY <1>4, KeysAreOfRooms DEF Exists
  <2> QED BY <1>1, <1>4, <2>1, DelRemoves DEF Exists
<1> QED BY <1>2, <1>3, <1>4 DEF Exists

LEMMA Itself == \A r \in Room : BeginsWith(r, r)
  BY BoundsAssumption DEF Room, BeginsWith, Prefixes

LEMMA DeletionStep ==
  ASSUME Types, DeletionCovers, [Next]_vars
  PROVE  DeletionCovers'
<1>0. TypeOK
  BY DEF Types
<1>1. CASE pc' \notin {"del_del", "return"}
  BY <1>1 DEF DeletionCovers, DeletedIsGone
<1>2. CASE Quiet
  BY <1>2 DEF Quiet, DeletionCovers, DeletedIsGone
<1>3. CASE UNCHANGED vars
  BY <1>3 DEF vars, DeletionCovers, DeletedIsGone, Doomed, Exists
<1>4. CASE DelKeys /\ ~Error("KEYS")
  <2>1. UNCHANGED <<redis, skipped>> /\ pc' = "del_del" /\ call'.keys = Matches(call'.room)
    BY <1>4, KeysEffect
  <2> QED BY <2>1 DEF DeletionCovers, DeletedIsGone, Doomed, Matches, Exists, redis
<1>5. CASE DelDel
  <2>1. /\ pc = "del_del" /\ call.keys \subseteq Key /\ call.room \in Room
        /\ \A k \in Key : Exists(k) /\ BeginsWith(k.room, call.room) =>
             k \in skipped \cup call.keys
        /\ \A k \in call.keys : BeginsWith(k.room, call.room)
    BY <1>5, DelDelEffect DEF DelDel, DeletionCovers, Doomed
  <2>2. ASSUME NEW k \in call.keys, pc' = "del_del", call'.room = call.room,
               call'.keys = call.keys \ {k}, Del(k)
        PROVE  DeletionCovers'
    <3>1. skipped' = skipped \ {k} /\ k \in Key
      BY <1>0, <2>1, <2>2, DelRemoves
    <3>2. ASSUME NEW l \in Key, Exists(l)', BeginsWith(l.room, call.room) PROVE Doomed(l)'
      <4>1. Exists(l) /\ l # k
        BY <1>0, <2>2, <3>1, <3>2, DelLeaves
      <4> QED BY <2>1, <2>2, <3>1, <3>2, <4>1 DEF Doomed
    <3> QED BY <2>1, <2>2, <3>2 DEF DeletionCovers, DeletedIsGone
  <2>3. ASSUME NEW k \in call.keys, pc' = "del_del", call'.room = call.room,
               call'.keys = call.keys \ {k}, skipped' = skipped \cup {k}, UNCHANGED redis
        PROVE  DeletionCovers'
    <3>1. \A l \in Key : Exists(l)' = Exists(l)
      BY <2>3 DEF Exists, redis
    <3> QED BY <2>1, <2>3, <3>1 DEF DeletionCovers, DeletedIsGone, Doomed
  <2>4. ASSUME call.keys = {}, UNCHANGED <<redis, skipped>>, pc' = "return",
               call'.room = call.room
        PROVE  DeletionCovers'
    <3>1. \A l \in Key : Exists(l)' = Exists(l)
      BY <2>4 DEF Exists, redis
    <3> QED BY <2>1, <2>4, <3>1, Itself DEF DeletionCovers, DeletedIsGone
  <2> QED BY <1>5, <2>2, <2>3, <2>4, DelDelEffect
<1>6. ASSUME \/ Caller
             \/ CreateIncr /\ ~Error("INCR")
             \/ CreateSadd /\ ~Error("SADD")
             \/ LeaveSrem /\ ~Error("SREM")
             \/ SaveIncr /\ ~Error("INCR")
             \/ SaveHmset /\ ~Error("HMSET")
      PROVE  pc' # "del_del" /\ (pc' = "return" => call'.op # "delete")
  BY <1>6, CallerEffect, SaddEffect, SremEffect, SaveIncrEffect, HmsetEffect DEF CreateIncr
<1>7. ASSUME pc' # "del_del", pc' = "return" => call'.op # "delete" PROVE DeletionCovers'
  BY <1>7 DEF DeletionCovers, DeletedIsGone
<1> QED BY <1>2, <1>3, <1>4, <1>5, <1>6, <1>7, Steps

\* When a deletion has succeeded, what is left of the room is what a DEL, of this
\* or an earlier deletion, has failed on.
THEOREM DeletionIsComplete == Spec => []DeletedIsGone
<1>1. Init => DeletionCovers
  BY DEF Init, DeletionCovers, DeletedIsGone
<1>2. Types /\ DeletionCovers /\ [Next]_vars => DeletionCovers'
  BY DeletionStep
<1>3. DeletionCovers => DeletedIsGone
  BY DEF DeletionCovers
<1> QED BY <1>1, <1>2, <1>3, TypesInit, TypesStep, PTL DEF Spec

\* KEYS chatroom:<g>* matches the room g itself, and then no room below Radix
\* times g: any other begins with g and one more digit at least.
LEMMA OthersAreLonger ==
  ASSUME NEW r \in Room, NEW g \in Room, r # g, r < Radix * g
  PROVE  ~BeginsWith(r, g)
<1>1. /\ Radix \in Nat /\ Radix > 1 /\ MaxRoom \in Nat /\ r \in Nat /\ r > 0 /\ r <= MaxRoom
      /\ g \in Nat /\ g > 0
  BY RadixAssumption, BoundsAssumption DEF Room
<1>2. \A x \in Nat : x \div Radix \in Nat /\ Radix * (x \div Radix) <= x
                     /\ x \div Radix <= x
  BY <1>1
<1>3. \A x \in Nat, y \in Nat : x <= y => x \div Radix <= y \div Radix
  BY <1>1
<1> DEFINE S == {r} \cup {x \in 0 .. MaxRoom : x <= r \div Radix}
<1>4. S \in SUBSET (0 .. MaxRoom) /\ r \in S
  BY <1>1
<1>5. ASSUME NEW x \in S PROVE x \div Radix \in S
  <2>1. x \in Nat /\ x <= MaxRoom /\ x <= r
    BY <1>1, <1>2
  <2> QED BY <1>1, <1>2, <1>3, <2>1
<1>6. g \notin S
  <2>1. ~(g <= r \div Radix)
    <3>1. ASSUME NEW q \in Nat, g <= q, Radix * q <= r PROVE FALSE
      BY <1>1, <3>1
    <3> QED BY <1>1, <1>2, <3>1
  <2> QED BY <2>1
<1> HIDE DEF S
<1> QED BY <1>4, <1>5, <1>6 DEF BeginsWith, Prefixes

LEMMA SparesStep ==
  ASSUME Types, DeletionCovers, [Next]_vars, pc = "del_del",
         NEW r \in Room, r # call.room, r < Radix * call.room
  PROVE  /\ chatroom'[r] = chatroom[r]
         /\ next_msg_id'[r] = next_msg_id[r]
         /\ message'[r] = message[r]
<1>0. TypeOK /\ call.room \in Room
  BY DEF Types, CallHasArguments, DeletePc
<1>1. CASE UNCHANGED redis
  BY <1>1 DEF redis
<1>2. ASSUME NEW k \in call.keys, k \in Key, Del(k)
      PROVE  /\ chatroom'[r] = chatroom[r]
             /\ next_msg_id'[r] = next_msg_id[r]
             /\ message'[r] = message[r]
  <2>1. BeginsWith(k.room, call.room)
    BY <1>2 DEF DeletionCovers
  <2>2. k.room # r
    BY <1>0, <2>1, OthersAreLonger
  <2>3. k # SetKey(r) /\ k # CounterKey(r) /\ \A n \in MsgId : k # MsgKey(r, n)
    BY <2>2 DEF SetKey, CounterKey, MsgKey
  <2>4. /\ chatroom'[r] = chatroom[r]
        /\ next_msg_id'[r] = next_msg_id[r]
        /\ \A n \in MsgId : message'[r][n] = message[r][n]
    BY <1>0, <1>2, <2>3, DelRemoves
  <2>5. message[r] \in [MsgId -> Text \cup {None}] /\ message'[r] \in [MsgId -> Text \cup {None}]
    BY <1>0, <1>2, DelRemoves DEF TypeOK, RedisTypes
  <2>6. message'[r] = message[r]
    BY <2>4, <2>5
  <2> QED BY <2>4, <2>6
<1>3. CASE DelDel
  BY <1>1, <1>2, <1>3, DelDelEffect DEF redis
<1>4. CASE Quiet
  BY <1>1, <1>4 DEF Quiet
<1>5. CASE UNCHANGED vars
  BY <1>1, <1>5 DEF vars, redis
<1>6. pc \notin {"idle", "create_incr", "create_sadd", "del_keys", "leave_srem", "save_incr",
                 "save_hmset"}
  OBVIOUS
<1> QED
  BY <1>3, <1>4, <1>5, <1>6, Steps, CallerEffect
  DEF CreateIncr, CreateSadd, DelKeys, LeaveSrem, SaveIncr, SaveHmset

\* A deletion takes nothing from another room whose id is less than Radix times
\* the deleted room's: no such id begins with its digits.
THEOREM OthersAreSpared == Spec => DeletionSpares
<1>1. Init => DeletionCovers
  BY DEF Init, DeletionCovers, DeletedIsGone
<1>2. Types /\ DeletionCovers /\ [Next]_vars => DeletionCovers'
  BY DeletionStep
<1>3. Types /\ DeletionCovers /\ [Next]_vars =>
        [pc = "del_del" =>
           \A r \in Room : r # call.room /\ r < Radix * call.room =>
             /\ chatroom'[r] = chatroom[r]
             /\ next_msg_id'[r] = next_msg_id[r]
             /\ message'[r] = message[r]]_vars
  BY SparesStep
<1> QED BY <1>1, <1>2, <1>3, TypesInit, TypesStep, PTL DEF Spec, DeletionSpares

-----------------------------------------------------------------------------
(***************************************************************************)
(* Messages.                                                               *)
(***************************************************************************)
LEMMA CounterStep ==
  ASSUME Types, CounterIsAhead, SaveKeepsHistory, DeletionCovers, [Next]_vars
  PROVE  CounterIsAhead' /\ SaveKeepsHistory'
<1>0. /\ TypeOK
      /\ \A r \in Room : next_msg_id[r] \in Int
      /\ \A r \in Room, n \in MsgId : MsgKey(r, n) \in Key /\ n \in Int
      /\ \A r \in Room : CounterKey(r) # SetKey(r)
  BY RoomsArePositive, KeysAreOfRooms DEF Types, TypeOK, CounterKey, SetKey
<1>1. ASSUME UNCHANGED <<next_msg_id, message>>, pc' # "save_hmset",
             \A k \in Key : Doomed(k) => Doomed(k)'
      PROVE  CounterIsAhead' /\ SaveKeepsHistory'
  BY <1>0, <1>1 DEF CounterIsAhead, SaveKeepsHistory
<1>2. CASE Caller
  BY <1>1, <1>2, CallerEffect DEF Doomed, redis
<1>3. CASE Quiet
  BY <1>1, <1>3 DEF Quiet, Doomed, redis
<1>4. CASE UNCHANGED vars
  BY <1>4 DEF vars, CounterIsAhead, SaveKeepsHistory, Doomed
<1>5. CASE CreateIncr /\ ~Error("INCR")
  BY <1>1, <1>5 DEF CreateIncr, Doomed
<1>6. CASE CreateSadd /\ ~Error("SADD")
  BY <1>1, <1>6, SaddEffect DEF CreateSadd, Doomed
<1>7. CASE DelKeys /\ ~Error("KEYS")
  BY <1>1, <1>7, KeysEffect DEF DelKeys, Doomed, redis
<1>8. CASE LeaveSrem /\ ~Error("SREM")
  BY <1>1, <1>8, SremEffect DEF LeaveSrem, Doomed
<1>9. CASE DelDel
  <2>1. /\ pc = "del_del" /\ call.keys \subseteq Key
        /\ \A k \in Key : Exists(k) /\ BeginsWith(k.room, call.room) => Doomed(k)
        /\ \A k \in call.keys : BeginsWith(k.room, call.room)
    BY <1>9, DelDelEffect DEF DelDel, DeletionCovers
  <2>2. ASSUME NEW k \in call.keys, pc' = "del_del", call'.keys = call.keys \ {k}, Del(k)
        PROVE  CounterIsAhead' /\ SaveKeepsHistory'
    <3>1. k \in Key /\ skipped' = skipped \ {k}
      BY <1>0, <2>1, <2>2, DelRemoves
    <3>2. ASSUME NEW r \in Room, NEW n \in MsgId, message'[r][n] # None, n > next_msg_id'[r]
          PROVE  Doomed(MsgKey(r, n))'
      <4>1. k # MsgKey(r, n) /\ message[r][n] # None
        BY <1>0, <2>2, <3>1, <3>2, DelRemoves
      <4>2. Doomed(MsgKey(r, n))
        <5>1. CASE k = CounterKey(r)
          <6>1. k.room = r /\ MsgKey(r, n).room = r /\ Exists(MsgKey(r, n))
            BY <4>1, <5>1 DEF CounterKey, MsgKey, Exists
          <6> QED BY <1>0, <2>1, <6>1
        <5>2. CASE k # CounterKey(r)
          <6>1. next_msg_id'[r] = next_msg_id[r]
            BY <1>0, <2>2, <3>1, <5>2, DelRemoves
          <6> QED BY <3>2, <4>1, <6>1 DEF CounterIsAhead
        <5> QED BY <5>1, <5>2
      <4> QED BY <1>0, <2>1, <2>2, <3>1, <4>1, <4>2 DEF Doomed
    <3> QED BY <2>2, <3>2 DEF CounterIsAhead, SaveKeepsHistory
  <2>3. ASSUME NEW k \in call.keys, pc' = "del_del", call'.keys = call.keys \ {k},
               skipped' = skipped \cup {k}, UNCHANGED redis
        PROVE  CounterIsAhead' /\ SaveKeepsHistory'
    BY <1>1, <2>1, <2>3 DEF Doomed, redis
  <2>4. ASSUME call.keys = {}, UNCHANGED <<redis, skipped>>, pc' = "return"
        PROVE  CounterIsAhead' /\ SaveKeepsHistory'
    BY <1>1, <2>4 DEF Doomed, redis
  <2> QED BY <1>9, <2>2, <2>3, <2>4, DelDelEffect
<1>10. CASE SaveIncr /\ ~Error("INCR")
  <2>1. ASSUME NEW r \in Room, NEW n \in MsgId, message'[r][n] # None, n >= next_msg_id'[r],
               r = call.room \/ n > next_msg_id'[r]
        PROVE  MsgKey(r, n) \in skipped'
    <3>1. message[r][n] # None /\ n > next_msg_id[r] /\ skipped' = skipped
      BY <1>0, <1>10, <2>1, SaveIncrEffect
    <3> QED BY <1>10, <3>1 DEF CounterIsAhead, Doomed, SaveIncr
  <2>2. next_msg_id' \in [Room -> 0 .. MaxMsg]
    BY <1>10, TypesStep DEF Types, TypeOK
  <2>3. CounterIsAhead'
    BY <1>0, <1>10, <2>1, <2>2, SaveIncrEffect DEF CounterIsAhead, Doomed
  <2>4. SaveKeepsHistory'
    BY <1>0, <1>10, <2>1, <2>2, SaveIncrEffect DEF SaveKeepsHistory
  <2> QED BY <2>3, <2>4
<1>11. CASE SaveHmset /\ ~Error("HMSET")
  <2>1. ASSUME NEW r \in Room, NEW n \in MsgId, message'[r][n] # None, n > next_msg_id'[r]
        PROVE  Doomed(MsgKey(r, n))'
    <3>1. call.id = next_msg_id[call.room]
      BY <1>11 DEF SaveHmset, CounterIsAhead
    <3>2. message[r][n] # None /\ n > next_msg_id[r]
      BY <1>0, <1>11, <2>1, <3>1, HmsetEffect
    <3> QED BY <1>11, <3>2, HmsetEffect DEF CounterIsAhead, Doomed, SaveHmset
  <2> QED BY <1>11, <2>1, HmsetEffect DEF CounterIsAhead, SaveKeepsHistory
<1> QED
  BY <1>2, <1>3, <1>4, <1>5, <1>6, <1>7, <1>8, <1>9, <1>10, <1>11, Steps

\* No message is stored over another, except over what a deletion should have
\* deleted and has not.
THEOREM HistoryIsKept == Spec => []SaveKeepsHistory
<1>1. Init => DeletionCovers /\ CounterIsAhead /\ SaveKeepsHistory
  BY DEF Init, DeletionCovers, DeletedIsGone, CounterIsAhead, SaveKeepsHistory
<1>2. Types /\ DeletionCovers /\ [Next]_vars => DeletionCovers'
  BY DeletionStep
<1>3. Types /\ DeletionCovers /\ CounterIsAhead /\ SaveKeepsHistory /\ [Next]_vars
        => CounterIsAhead' /\ SaveKeepsHistory'
  BY CounterStep
<1> QED BY <1>1, <1>2, <1>3, TypesInit, TypesStep, PTL DEF Spec

=============================================================================
