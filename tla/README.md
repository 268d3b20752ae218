# A TLA+ model of ChatHub

ChatHub is a chat server in C (`server/`), its terminal client (`client/`) and
a small library both use (`lib/`). The server is a libevent loop; accounts,
chatrooms and messages live in a Redis database. These modules model what
decides whether a message reaches the people it is for: the table of
connections, the accounts, the rooms and their history, the routing of
messages, the client, and the bytes between the two.

## The system

| Part | State | Operations | Interacts with | Correct when |
|---|---|---|---|---|
| Hash table, `lib/hashtable.c` | an array of `cap` slots, `size` | `hash_get`, `hash_set`, `hash_delete` | the server, with descriptors as keys and bufferevents as values | it is a map; its calls return |
| User dao, `server/dao.c:35-190`, and `handleRegister`, `handleLogin`, `handleLogout` | Redis: `next_user_id`, hash `users` (name to id), hashes `user:<id>` | register, login, set online, logout | Redis, one command at a time, each of which can fail; the server can die between two | one account per name, one name per id, true answers |
| Server, `server/server.c` | the table `clients`; the descriptors and buffers of its connections | accept, read, close, accept error, SIGINT; the handlers | clients over TCP; `get_fd_byid` and `save_message` of the dao | the table holds the open connections; a message reaches the members who are online, in one order for all, and is in the history |
| Chatroom dao, `dao.c:239-345` | Redis: `next_chatroom_id`, sets `chatroom:<id>` of user ids | create, delete, leave, test | no handler calls it in this version | a new room is empty; a deletion removes its room and no other |
| Message dao, `dao.c:347-391` | Redis: `chatroom:<id>:next_msg_id`, hashes `chatroom:<id>:<n>` | save | `handleChat` | a message is saved under an id of its own, over no other |
| Framing, `readcb`, the client's `read_cb`, `bufferevent_write` | libevent's buffers, a stack buffer for each read | write a message, read what has arrived | TCP, which cuts and joins what is written | a message is handled as it was sent |
| Conversions, `message.c`, `config.c`, `user_msg` | none | pack, unpack; print and scan name and password | the JSON library, `sscanf` | what is unpacked is what was packed |
| Client, `client/client.c` | `user`, `is_login`; a prompt that blocks its loop | a line of input, a reply, the end of the connection, SIGINT | server, terminal | it is logged in as the user the server says |
| JSON library, `lib/parson.c` | none | build an object, print, parse | `message.c` | what it prints it reads back |

What is hard here:

- *Concurrency.* The server is one thread and a callback is never interrupted,
  so callbacks are the unit of interleaving: accepts, reads and closes of any
  connections, in any order, against a database that outlives the connections.
- *Bytes.* A message is not delimited on the wire. A client's is as long as its
  JSON, a server's always 4096 bytes, a reader takes one message from whatever
  has arrived, and a parse that fails is dereferenced.
- *Failure.* Any Redis command may answer an error, which the code checks in
  some places and not in others; the process may die between two commands of a
  registration; a reply that is nil is dereferenced (process death); and the
  database keeps what a dead server left in it.
- *Staleness.* The routing goes through a number: `user:<id>.sockfd` names a
  descriptor, `clients` maps the descriptor to a bufferevent. Both are written
  at different times and numbers are reused.
- *Limits.* The table has 1024 slots and no resizing; the number of
  descriptors is a limit of the process.

`PROJECT.json` lists the hazards at the lines where they bite, with the
property that covers each.

## The modules

**LinearProbing** has the table as constant-level operators: `Hash`, where the
probe loop ends (`StopsFirst`, `ProbeEnd`), and `Lookup`, `Store`, `Remove`:
what `hash_get`, `hash_set`, `hash_delete` compute. Deleting empties a slot
without a tombstone, as the code does.

**HashTable** runs the same loops step by step: a call is its arguments and
its local `h`, and each iteration is an action, so that "the call returns" can
be said and checked. `ProbeSkipsOthers` ties the loop to the operators of
LinearProbing. **FdMap** is the abstract map: a call is invoked, and has its
effect and result when it returns. `ImplementsMap` says that HashTable
refines it, with `map` the function from keys to what a lookup finds.

**Accounts** is the user dao and its handlers, one action per Redis command.
`Goto`, `Return` and `Error` stand for falling through, `return`, and the
`error:` label of the `check` macro. `Faulty` is the set of commands that may
answer an error; `Crash` may come between any two. **Registry** is what a
user of the dao may rely on, and `ImplementsRegistry` the refinement: the HSET
into `users` is the step that registers; the answer must be true when it is
given. A login that is refused for any other reason than an unknown name
answers -1, which promises nothing.

**ChatServer** is the server around them: one action per callback. Reading a
message runs the whole handler, the lookups, the writes to other connections
and the saves included. Its table is LinearProbing's, with descriptors as keys
and connections as values. The commands inside a login or a registration are
Accounts' business; here they have the outcomes that module shows they have
(with an INCR that does not fail). The history variables `written`, `session`
and `saved` are what the properties are about; `session` is set when a login
is acknowledged and routed, and cleared by a logout.

**ChatLog** is the chatroom and message dao, one action per Redis command, with
`Faulty` and `Crash` as in Accounts. A key is a record, of a room and a part of
it; `KEYS chatroom:<r>*` matches the rooms whose id begins with the digits of
`r` (`BeginsWith`: dropping last digits leads to it). Room ids are written in `Radix`, so that a small instance
has one that begins with another. `skipped` is history: the keys that a
deletion failed to delete, or did not get to. A room's functions are called in
any order, with any room; a message is saved only to a room with members, as
`handleChat` does it.

**Client** is the terminal client, one action per callback, with the messages
between it and the server as two queues. **UserText** is what happens to a name
and a password between the terminal and the dao: `user_msg` prints them into
one text, `msg2user` scans it. **Session** composes the client with a server
that answers as Accounts has it answer: `handleLogin` grants, refuses, or
answers -1 when Redis fails; `readcb` takes what has arrived and handles the
first of it. It asks whether the client and the server agree on who is there,
and whether a login is answered. `granted`, `handled`, `typed` and `overlapped`
are history.

**Json** is the part of parson that `message.c` reaches, as recursive
operators: values, UTF-8, printing and parsing. A text is a sequence of
character codes. **Message** has `pack_message` and `unpack_message` over it,
with the sizes of the fields and the NUL that a full one lacks. **Framing** puts
messages on one direction of a connection, byte for byte: the frames of either
writer, what the memory after them holds, pieces of any size, a buffer that the
client clears and the server does not, and what the reader handles. `sent`,
`ends` and `cut` are history. Which text a message has is a parameter of it
(`Pack`, `Unpack`), so that it can be reasoned about without the recursive
operators of Json; **Wire** puts the two together, and the configuration gives
`pack_message` for `Pack` and `unpack_message` for `Unpack`.

How the code maps to actions:

| Code | Actions |
|---|---|
| `find`, `hash_get` | `CallGet`, `ProbeNext`, `GetHit`, `Miss` |
| `hash_set` | `OverflowSet`, or `CallSet`, `ProbeNext`, `SetUpdate`, `SetInsert` |
| `hash_delete` | `CallDelete`, `ProbeNext`, `DeleteHit`, `Miss` |
| `register_user` | `BeginRegister`, `RegisterHexists`, `RegisterIncr`, `RegisterHmset`, `RegisterHset` |
| `login_user`, `set_online` | `BeginLogin`, `LoginHexists`, `LoginHget`, `LoginHmget`, `SetOnline` |
| `logout_user`, `set_offline` | `BeginLogout`, `LogoutHget`, `SetOffline` |
| end of a handler | `Respond` |
| `listener_cb`, `connectClient` | `Accept` |
| `listener_errorcb` | `AcceptFails` |
| `readcb`, `handleAllMessage`, the handlers | `readcb` with `handleRegister`, `handleLogin`, `handleLogout`, `handleChat`, `chatReachesNoOne`, `handleOther`; `readcbSegFaults`; `readcbHangs` |
| `eventcb`, `disconnectClient` | `eventcb`, `eventcbHangs` |
| SIGINT, `main` | `ServerStops`, `ServerStarts` |
| `create_chatroom` | `BeginCreate`, `CreateIncr`, `CreateSadd` |
| `del_chatrooom` | `BeginDelete`, `DelKeys`, `DelDel` for each key |
| `leave_chatrooom`, `is_user_exists_inchatroom` | `BeginLeave`, `LeaveSrem`; `BeginIsMember`, `MemberSismember` |
| `get_next_msgid`, `save_message` | `BeginSave`, `SaveIncr`, `SaveHmset` |
| the client's `stdin_cb` | `stdin_cbPrompts`, `stdin_cbLogin`; `stdin_cbChat` |
| its `read_cb`, `event_cb`, `signal_cb`, end of `main` | `read_cb`; `event_cbConnected`, `event_cbEnds`; `signal_cb`; `Exit` |
| `bufferevent_write` of a packed message | `Send` with `ClientFrame` or `ServerFrame` |
| `readcb`, `read_cb` and `unpack_message` | `Read` |

Modelling decisions:

- A descriptor is a number and `accept` returns the lowest one that is free,
  as POSIX has it; a connection is a model value used once, and stands for its
  bufferevent.
- What `readcb` finds in the input buffer is any non-empty prefix of what the
  client has sent, and the first message of it is handled; the others are
  dropped. In ChatServer and Session input is whole messages; what happens to
  pieces of them is Wire's subject.
- A lookup can lead to a bufferevent that has been freed, when colliding keys
  left an entry behind. Writing through it is undefined: it reaches another
  open connection that has the memory now, goes unnoticed, or crashes
  (`Memory`, `ChatCrashes`).
- On a full table a search for a missing key does not end: `eventcbHangs` and
  `readcbHangs` leave the process `hung`, until something kills it.
- `SMEMBERS` has no order, and neither has `Broadcast`. A save is one step for
  each receiver; with errors, any number of them happen.
- `IMAGE` is handled as `TEXT`. Messages the server ignores are `OTHER`.
- Undefined behaviour of the client is a choice: the room of a line without a
  number is any, and the second prompt may abort, as the first one freed
  `getpass`'s buffer.
- A reader of the server has a buffer that nobody cleared: it holds what it held
  the last time, or other bytes (`Memory`). The client's is zeros. After the
  text of a server's frame comes what the heap holds: zeros, letters or an older
  message (`Heap`).
- Libevent reads at most 4096 bytes (its `EVBUFFER_MAX_READ`) for each event
  and calls back after each, so a callback of either reader has at most one
  buffer of them, and the loop of `readcb` gets them all at once.
- In Json a space stands for the four of a step of indentation, and a code above
  the characters for the name of a field; neither decides anything but lengths,
  and the instance is scaled to that.
- Timestamps, log lines, the seconds SIGINT waits, and the truncation of ids
  to `int` are left out.

## What is checked

`tlc -config <run>.cfg <module>` runs one; all bounds are in the cfg.

| Run | Asks | Bounds |
|---|---|---|
| `MCHashTable_direct` | Is the table a map as the server uses it, with `delete`? | 4 slots, 4 keys with a slot each, so that all orders of filling and emptying occur; 2 values, to tell an update |
| `MCHashTable_nodelete` | Does probing lose anything when keys collide, and does every call return? | 3 slots; 5 keys with 2 home slots, one of them the last, and one key negative: wrap-around, a full table, refusals, and searches of a full table for a key it lacks occur |
| `MCHashTable_collide` | The same with `delete`: violated | 2 slots, 3 keys: the least that shows it |
| `MCAccounts_faults` | Is the dao a registry, and are messages routed to where the user last logged in, and by nothing else, through crashes and errors? | 2 names, 2 passwords, 2 ids: a name can be retried after a crash, two names can compete, a wrong password exists; 2 descriptors, for logins on different connections |
| `MCAccounts_incr` | Is an error code returned only when nothing was registered? Violated when INCR fails | the same |
| `MCChatServer_direct` | Is the table exact, and do members get their messages, with descriptors below the capacity? | 3 slots, 2 descriptors, 3 connections: descriptors are reused and run out; 2 users, 1 room; 2 messages of all types; any initial database |
| `MCChatServer_crowded` | What still holds when descriptors collide and the table overflows: the order of messages, and that they are saved? | 2 slots, 3 descriptors with 1 home slot, 3 messages: two logins and a chat, or a login and two chats |
| `MCChatServer_stale` | Are all the descriptors of a room online? Violated | as `direct`, no errors from Redis |
| `MCChatServer_unsaved` | Is a delivered message saved when Redis fails? Violated | as `direct` |
| `MCChatLog_faults` | What do creations, saves and deletions do to each other's keys, through crashes and errors of every command? | 2 rooms, in radix 2 one id begins with the other; 2 messages for each, so that ids are used again; 2 users, and a name that is the text of a user's id |
| `MCSession_client` | Is the client logged in as who the server takes it for, which chats are handled, in which order, and are logins answered? | 3 inputs: a login that is refused, another one and a chat; 2 accounts, one name the beginning of the other; a name with a blank and an empty one; a line without a number, one of several words and one of none |
| `MCWire_pieces` | Is what a reader handles what the writer sent, in whatever pieces it arrives? | 2 messages of 5, in each direction: escapes, characters of two and three bytes, half a character, an empty text, one that escapes make too long; a buffer of 128 bytes, in scale with the fields, holds two short messages. `RoundTrip`: every kind of JSON value, nested; `MessagesReadBack`: each of the 5 messages |

Model values of users, connections, names, passwords and values are
interchangeable, and the runs use that symmetry where no liveness property is
checked. `FreshSpec` starts the server on a database in which nobody is
online; `Spec` starts it on any. ChatServer's, Session's and Framing's runs do not
check for deadlock: when the bound on messages is reached, or the client has
exited, there is nothing left to do.

Fairness is assumed in three places.

- `WF_vars(Loop)` in HashTable: a probe loop waits for nothing, so it runs as
  long as it can.
- `WF_vars(ClientLoop)` and `WF_vars(readcb)` in Session: the loops of libevent
  dispatch what is ready (a reply, the connection, its end; input from the
  client). The user need not type anything, and may leave a prompt unanswered;
  the server may stop.
- Weak fairness of taking bytes that have arrived, in Framing. Only `Read` does
  it.

Callers, users and networks are obliged to nothing; the other modules check
safety only.

What the properties do not promise is as telling as what they do. `NameIsOfUser`
needs that the user waited for an answer before the next login (a reply is
matched with whatever name was stored last, `client.c:108`) and that the name
is a word (`config.c:51`). `HandledWasSent` and `AllHandled` need that no read
ends inside a message, which TCP does not grant: a server then dereferences the
NULL of a failed parse, or handles a fragment completed with old bytes of its
stack. `DeletionSpares` stops at ten times the id: deleting room 1 deletes room
10. `CallReturns` leaves out the search of a full table for a key that it lacks, which
never ends (`Endless`); `EndlessWhenFull` says that there is no other such call.
`HandledAsTyped` wants the whole text of a line only when that is a word: `sscanf`
stops at the first blank (`client.c:81`), so that of `1:good morning` the room gets
"good", although the help of the client offers "[chatroom id]:message"
(`client.c:57`). TLC finds each of them violated without its condition.

Four runs show where the code does not do what a comment says; `findings` in
PROJECT.json quotes them:

- deleting from the table loses colliding keys (`hashtable.c:115`). With
  `hash_init(1024)` the server gets there only with descriptors of 1024 and
  more, which the usual limit of a process rules out;
- a failed `INCR` registers the name under the error code (`dao.c:48`);
- descriptors of users who disconnected, or whose server restarted, stay in
  Redis and count as online (`server.c:214`);
- a failed save is not retried (`server.c:155`).

Each property of a passing run has a mutant: an operator next to the one it
replaces, marked as such in a comment, that breaks the property.

## What is proved

For every value of the constants, by TLAPS. All theorems rest on the assumptions
of the modules: a positive capacity, integer keys, `Null` and `None` unlike
any value, a natural number of ids; for Session, that ids are positive and names are
texts over a set of characters that the time of a login is not one of; for
Framing, that a text is bytes other than NUL and the buffer is not empty.

`LinearProbingProofs` has the facts about probing. The important ones:
the first stop of a key is unique; storing a node at the place where the loop
ends keeps every other node found (`StoreKeepsFound`), because the slot was
empty, or held the key already, and no path loses a stop; emptying a slot
keeps the others found when every node is at its home slot, and then nodes
stay at home.

`HashTableProofs`: `TypeCorrect`, `SizeCorrect` (the count of occupied slots
follows `size`), `ProbeCorrect`. `EveryNodeFound` is not inductive by itself,
and is false in general; it is inductive with `ProbeSkipsOthers` when nothing
is deleted (`FoundWithoutDelete`), and follows from "every node is at its home
slot" when keys do not share one (`FoundWithoutCollision`), as descriptors
below the capacity do not (`DescriptorsDoNotCollide`). Under either condition
`MapImplemented` proves the refinement of FdMap: the facts about lookups before
and after a store or a deletion give the abstract step, and the number of
bound keys is `size`, so that the overflow test is the abstract `Full`. Two
theorems are what `CallReturns` needs besides fairness. `LoopsAreBounded`: from one
step to the next the slots that a loop has passed become one more, less than the
capacity, unless the call is `Endless`; for `cap` iterations have been to every
slot (`ProbeEverywhere`), so that a loop that could make one more would have found
that none of them stops it. `EndlessCalls`: only a search on a full table is
endless (`EndlessWhenFull`, from `DivergesWhenFull`, by counting nodes), and it is so
from its first step; `hash_set` has room, because it has tested for overflow
(`SetHasRoom`).

`AccountsProofs`: `TypeCorrect` for any set of failing commands, from an
invariant about control (`Control`: which arguments a call has at which
command). `IndexCorrect`, `IdsCorrect`, `ErrorCorrect` and
`RegistryImplemented` assume that INCR does not fail, as the violated run says
they must. Their invariant, `Sound`,
strengthens the properties with what is true in the middle of a registration:
the name has been looked up and is still free, the id obtained is the counter's
last and is in no index entry, and after HMSET the record is complete; and in
the middle of a login, that the id came from the index and the password seen
is the record's. `OrphansStay` needs no assumption about INCR either: an id that
was issued once, is in no index entry and is not the id of the registration in
progress (`Lost`) stays so, and every record has an id that was issued
(`IdsIssued`). `LoginOnlineCorrect` assumes nothing of the commands: the
invariant says itself that a positive answer comes from `SetOnline`, whose HMSET
has failed or has written the descriptor, because every other way to an answer
is a refusal, which is negative (`NegativeAnswer`), and no other call runs
before it is given. `SockfdCorrect` is an action property, for any commands that
fail: whenever a sockfd changes, a login of that user is at its HMSET, with the
descriptor of the connection that asked and the password of the record
(`PasswordRight`: seen at the HMGET and unchanged since), or a logout is.

`ChatServerProofs`: `TypeCorrect` holds in every regime, with colliding descriptors,
a full table and failing commands. Types carry one fact more, that a connection has
a descriptor exactly while the server holds it (`HeldHasFd`); a login needs it. So
does `OwnMessagesCorrect`, that what waits to be read from a connection is from that
connection, which the proofs about order need. The other three assume that no two
descriptors share a slot, as those below the capacity do not. `ClientsExactCorrect`
adds to the property that nodes are at their home slots, so that `StoreNew` and
`RemoveFound` say what an accept and a close do to every lookup. That every descriptor
that is found leads to a connection that is held follows at once. `OnlineReachableCorrect` uses `Routed`: the sockfd
of a user whose connection is held is that connection's descriptor; the part
of it that is easy to miss is that a session's connection is not a new one.
`ReachesMembersCorrect` then follows for each step: only a broadcast changes
the history and leaves the server up, and it writes at least one copy to whoever
is routed to. These proofs assume that there are finitely many users, as the
copies of a message are counted.

`DeliveryProofs`, on top of them, holds in every regime again. `SenderOrderCorrect`:
what waits to be read from a connection is newer the later it was sent
(`WaitingOrdered`), and newer than everything that has been written of that
sender to anybody (`WrittenBefore`); a callback only removes what waits and
appends copies of what it removed. `DeliveredIsSavedCorrect` assumes that Redis
does not fail, without which the property is false; its invariant is the
property itself, and the work is in the handler: whoever was written to was
counted as a copy, and every copy is saved, also in the callback that crashes
half way and when a freed bufferevent leads to a stranger. `TotalOrderCorrect`
compares clients with each other and with the history. Its invariant adds that what
is saved is older than what waits (`SavedBefore`), as what has been written is: the
message that a callback handles is therefore in no sequence yet (`HeadIsFresh`), and
comes last in each that it comes to (`Extends`), which keeps any two of them in one
order (`OrderExtends`). A process that hangs is the exception, as it has saved copies
of the message that it still has before it; it reads no more, and what waits is lost
when it is killed.

`ChatLogProofs` assumes nothing of the commands. `CreatedRoomsAreNew` needs that
nothing is kept under an id that has not been handed out (`IdsAreNew`).
`DeletionIsComplete` and `OthersAreSpared` share `DeletionCovers`: while keys are
being deleted, whatever is left of the rooms that matched is still on the list,
or has been skipped, and only those rooms are on it; and no id below `Radix`
times another one begins with its digits (`Prefixes`). `HistoryIsKept` needs more
than it says: a message beyond the counter of its room is doomed, to be deleted
or skipped (`CounterIsAhead`), because a deletion that has removed the counter
but not yet the messages lets the ids start again.

`SessionProofs` has one invariant for its theorems: logins on their way are counted
by `waiting` (`LoginsCounted`); an id on its way to the client has been granted
(`IdsGranted`); the chats handled, and behind them those on their way, are
lines that were typed, in that order (`ChatsTyped`: lines are numbered, and whatever
is dropped or lost, what remains is increasing); and, while no logins have overlapped, the one on its way carries
the stored name, and its answer the id granted to that name (`NamesMatch`).
The lemma under it is about UserText: what `user_msg` prints of a word and a
password, cut or not, `msg2user` scans as that word (`NameArrives`); so does a line's text that is a word
(`WordIsFirst`). Names and lines may be of any length over any characters. `LoginIsUnderWay` is the safety part of
`LoginAnswered`: while both processes are up, a login that no other overlaps is
the only message before the server, or is answered and the answer not yet read.
It needs that nobody chats before the first acknowledged login (`LoginsFirst`), as
`readcb` would drop what comes behind a chat, and that the text of a login is never
empty (`TextNotEmpty`), as `handleMessage` would drop that.

`FramingProofs` is about any buffer size, any messages and any texts. `Stream` says
that frames follow each other and begin with their text and its NUL, or, for the
server, as much of them as 4096 bytes hold; a read that begins and ends at
boundaries therefore has the whole of the first frame, whatever the buffer held
before (`FrameRead`), and the text in it is that message's (`TextRead`). From
there `HandledFrames` counts: the frames of a server are as long as the buffer,
so that each such read is one frame, and what is handled is a prefix of what was
sent, as long as what was taken, which is the safety part of `AllHandled`; a
client's are shorter, and some are lost. `HandledMessagesWereSent` and
`OnlyPiecesKill` have the hypothesis `ReadsBack`, that a text is unpacked to the
message it was packed from and a truncated one to none. It is about
`lib/parson.c`, and TLC checks it for the messages of the instance
(`MessagesReadBack`).

Only model-checked: `CallReturns`, `LoginAnswered` and `AllHandled`, because liveness
is out of the prover's reach (that each has nothing but the scheduling left to wait
for is proved, as said above); `RoundTrip` and `MessagesReadBack`,
because the operators of Json and Message are recursive, which the prover does
not take. Every other property of a passing run is a theorem, under the conditions
given here. No theorem is about a recursive definition, and no module
with theorems reaches one.

## Not modelled

- In ChatServer `members` is a constant, as nothing there calls the chatroom
  dao. ChatServer's clients are not Client's: they send anything at any time.
- Of parson: files, comments, dotted names, arrays as an API, copies, comparison,
  validation, which nothing here uses; printing without indentation; failures
  of malloc; fractions and exponents of numbers, and digits beyond a double's.
- Reads past the end of a buffer: a text of 4096 bytes without a NUL, and the
  block of JSON that the server writes 4096 bytes from. What they may read is
  in `Heap` and `Memory`; that they may fault is not.
- Overruns of the fixed buffers by names, passwords and lines that are longer
  than those hold.
- Memory that is never freed.
- `user2msg`, `print_message`, `get_userid_by_name`: nothing calls them.
  `get_fd_byname`, `set_fd_byid`, `get_unread_msgs`: stubs. Logging.

## Plan

Done, in this order: LinearProbing, HashTable and FdMap; Accounts and Registry;
ChatServer; the proofs of the three; ChatLog; Client and Session; Json, Message
and Wire; the proofs of ChatLog, of Session, of what ChatServer delivers, and of
Framing, which was taken out of Wire for it; the safety parts of the three
liveness properties, and what becomes of sockfds and freed bufferevents.

Left out: a refinement of Registry by ChatServer. A callback of ChatServer makes
the call and gives the answer in one step, for which Registry takes two, so that
there is no step-by-step mapping from one to the other. What ChatServer takes over
from Accounts is instead covered where it comes from: answers by `ImplementsRegistry`
and `ErrorMeansUnregistered`, sockfds by `LoginAnsweredOnline` and
`SockfdFollowsCalls`.
