------------------------------ MODULE Accounts ------------------------------
(***************************************************************************)
(* The user functions of server/dao.c and the handlers of server.c that    *)
(* call them: handleRegister, handleLogin, handleLogout.  Each Redis       *)
(* command is a step.  The server runs one callback at a time, so one call *)
(* is in progress at most; what can come between two commands is the death *)
(* of the server process (also the outcome of a NULL reply, which the code *)
(* dereferences, when the connection to Redis breaks).  Redis outlives it. *)
(* A command of Faulty may also answer REDIS_REPLY_ERROR, having done      *)
(* nothing.  Timestamps, which nothing reads, are left out.                *)
(***************************************************************************)
EXTENDS Integers

CONSTANTS
  Name,    \* user names
  Pass,    \* passwords
  Fd,      \* descriptors of client connections
  MaxId,   \* bound: user ids Redis hands out in a behaviour
  Faulty,  \* the Redis commands that may answer an error
  None     \* a nil reply: a field or key that does not exist

Commands == {"HEXISTS", "INCR", "HMSET", "HSET", "HGET", "HMGET"}
UserId == 1 .. MaxId

ERROR_NORMAL == -1
ERROR_USER_EXISTS == -2
ERROR_USER_NOTEXISTS == -3

ASSUME MaxIdAssumption == MaxId \in Nat
ASSUME FdAssumption == Fd \subseteq Nat \ {0}
ASSUME FaultyAssumption == Faulty \subseteq Commands
ASSUME NoneAssumption == None \notin Name \cup Pass \cup Int \cup [id : Int, pass : Pass]

VARIABLES
  \* Redis
  next_user_id,
  users,         \* HASH users: name -> id
  user,          \* HASH user:<id>: its fields username, pass and sockfd
  \* the server process
  pc,            \* the Redis command it is about to issue
  req,           \* arguments and locals of the call in progress
  answer         \* the message last written back to a client

redis == <<next_user_id, users, user>>
vars == <<next_user_id, users, user, pc, req, answer>>

Ops == {"register", "login", "logout"}
Key == UserId \cup {ERROR_NORMAL}  \* the ids a user: key is made with
Offline == -1                      \* the sockfd of a user who logged out

RegisterPc == {"reg_hexists", "reg_incr", "reg_hmset", "reg_hset"}
LoginPc == {"log_hexists", "log_hget", "log_hmget", "log_online"}
LogoutPc == {"out_hget", "out_offline"}
Pc == RegisterPc \cup LoginPc \cup LogoutPc \cup {"idle", "return", "down"}

Fields == [username : Name \cup {None}, pass : Pass \cup {None},
           sockfd : Fd \cup {Offline, None}]
NoFields == [username |-> None, pass |-> None, sockfd |-> None]
\* The arguments and locals of a call; failed is history: set_online did not.
Requests == [op : Ops, name : Name, pass : Pass, fd : Fd, id : Key \cup {0}, rc : Int,
             failed : BOOLEAN]
Answers == [op : Ops, name : Name, pass : Pass, rc : Int]

TypeOK ==
  /\ next_user_id \in 0 .. MaxId
  /\ users \in [Name -> Key \cup {None}]
  /\ user \in [Key -> Fields]
  /\ pc \in Pc
  /\ req \in Requests \cup {None}
  /\ answer \in Answers \cup {None}

Init ==
  /\ next_user_id = 0
  /\ users = [n \in Name |-> None]
  /\ user = [k \in Key |-> NoFields]
  /\ pc = "idle"
  /\ req = None
  /\ answer = None

-----------------------------------------------------------------------------
(***************************************************************************)
(* Control.  Return(rc) leaves the dao function with a value; Error is the *)
(* error label that every check() of a reply jumps to.                     *)
(***************************************************************************)
Goto(l) == pc' = l /\ UNCHANGED <<req, answer>>
Return(rc) == pc' = "return" /\ req' = [req EXCEPT !.rc = rc] /\ UNCHANGED answer
SegFault == pc' = "down" /\ req' = None /\ UNCHANGED answer
Error(cmd) == cmd \in Faulty /\ Return(ERROR_NORMAL) /\ UNCHANGED redis

\* readcb dispatches a message; msg2user leaves the user's id at 0.
Receive(op, n, p, fd) ==
  /\ pc = "idle"
  /\ req' = [op |-> op, name |-> n, pass |-> p, fd |-> fd, id |-> 0, rc |-> 0,
             failed |-> FALSE]
  /\ UNCHANGED <<next_user_id, users, user, answer>>

(***************************************************************************)
(* register_user: HEXISTS users, INCR next_user_id, HMSET user:<id>, HSET  *)
(* users.  An error of INCR is not looked at: get_next_userid returns      *)
(* ERROR_NORMAL and the registration goes on with it as the id.            *)
(***************************************************************************)
BeginRegister(n, p, fd) ==
  Receive("register", n, p, fd) /\ next_user_id < MaxId /\ pc' = "reg_hexists"

RegisterHexists ==
  /\ pc = "reg_hexists"
  /\ \/ Error("HEXISTS")
     \/ users[req.name] # None /\ Return(ERROR_USER_EXISTS) /\ UNCHANGED redis
     \/ users[req.name] = None /\ Goto("reg_incr") /\ UNCHANGED redis

\* Mutants of RegisterIncr: the counter is read and not incremented; the id is
\* the counter before the increment.
RegisterReadsCounter ==
  /\ pc = "reg_incr"
  /\ req' = [req EXCEPT !.id = next_user_id + 1]
  /\ pc' = "reg_hmset"
  /\ UNCHANGED <<next_user_id, users, user, answer>>

RegisterPostIncrement ==
  /\ pc = "reg_incr"
  /\ next_user_id' = next_user_id + 1
  /\ req' = [req EXCEPT !.id = next_user_id]
  /\ pc' = "reg_hmset"
  /\ UNCHANGED <<users, user, answer>>

RegisterIncr ==
  /\ pc = "reg_incr"
  /\ \/ /\ next_user_id' = next_user_id + 1
        /\ req' = [req EXCEPT !.id = next_user_id + 1]
     \/ /\ "INCR" \in Faulty
        /\ req' = [req EXCEPT !.id = ERROR_NORMAL]
        /\ UNCHANGED next_user_id
  /\ pc' = "reg_hmset"
  /\ UNCHANGED <<users, user, answer>>

\* Mutant of RegisterHmset: an error reply is not looked at.
RegisterHmsetUnchecked ==
  /\ pc = "reg_hmset"
  /\ \/ "HMSET" \in Faulty /\ UNCHANGED user
     \/ user' = [user EXCEPT ![req.id].username = req.name, ![req.id].pass = req.pass]
  /\ Goto("reg_hset")
  /\ UNCHANGED <<next_user_id, users>>

RegisterHmset ==
  /\ pc = "reg_hmset"
  /\ \/ Error("HMSET")
     \/ /\ user' = [user EXCEPT ![req.id].username = req.name, ![req.id].pass = req.pass]
        /\ Goto("reg_hset")
        /\ UNCHANGED <<next_user_id, users>>

\* Mutant of RegisterHset: success falls through to the error label.
RegisterHsetFallsThrough ==
  /\ pc = "reg_hset"
  /\ \/ Error("HSET")
     \/ /\ users' = [users EXCEPT ![req.name] = req.id]
        /\ Return(ERROR_NORMAL)
        /\ UNCHANGED <<next_user_id, user>>

RegisterHset ==
  /\ pc = "reg_hset"
  /\ \/ Error("HSET")
     \/ /\ users' = [users EXCEPT ![req.name] = req.id]
        /\ Return(req.id)
        /\ UNCHANGED <<next_user_id, user>>

-----------------------------------------------------------------------------
(***************************************************************************)
(* login_user: HEXISTS users, HGET users, HMGET user:<id>; then handleLogin*)
(* calls set_online for a valid id and ignores its result.                 *)
(***************************************************************************)
BeginLogin(n, p, fd) == Receive("login", n, p, fd) /\ pc' = "log_hexists"

LoginHexists ==
  /\ pc = "log_hexists"
  /\ \/ Error("HEXISTS")
     \/ users[req.name] = None /\ Return(ERROR_USER_NOTEXISTS) /\ UNCHANGED redis
     \/ users[req.name] # None /\ Goto("log_hget") /\ UNCHANGED redis

LoginHget ==
  /\ pc = "log_hget"
  /\ \/ Error("HGET")
     \/ /\ req' = [req EXCEPT !.id = users[req.name]]
        /\ pc' = "log_hmget"
        /\ UNCHANGED <<next_user_id, users, user, answer>>

\* Mutants of LoginHmget: the password is not compared; the client is
\* answered without set_online.
LoginAnyPassword ==
  /\ pc = "log_hmget"
  /\ UNCHANGED redis
  /\ \/ Error("HMGET")
     \/ /\ pc' = IF req.id > 0 THEN "log_online" ELSE "return"
        /\ req' = [req EXCEPT !.rc = req.id]
        /\ UNCHANGED answer

LoginNotOnline ==
  /\ pc = "log_hmget"
  /\ UNCHANGED redis
  /\ \/ Error("HMGET")
     \/ IF <<user[req.id].username, user[req.id].pass>> # <<req.name, req.pass>>
        THEN Return(ERROR_NORMAL)
        ELSE Return(req.id)

\* strcmp of the username, then of the password; a nil field is a NULL
\* string.  handleLogin takes only a positive result for a valid id.
LoginHmget ==
  /\ pc = "log_hmget"
  /\ UNCHANGED redis
  /\ \/ Error("HMGET")
     \/ LET found == user[req.id] IN
        IF None \in {found.username, found.pass} THEN SegFault
        ELSE IF <<found.username, found.pass>> # <<req.name, req.pass>>
             THEN Return(ERROR_NORMAL)
             ELSE /\ pc' = IF req.id > 0 THEN "log_online" ELSE "return"
                  /\ req' = [req EXCEPT !.rc = req.id]
                  /\ UNCHANGED answer

SetOnline ==
  /\ pc = "log_online"
  /\ \/ user' = [user EXCEPT ![req.id].sockfd = req.fd] /\ UNCHANGED req
     \/ "HMSET" \in Faulty /\ req' = [req EXCEPT !.failed = TRUE] /\ UNCHANGED user
  /\ pc' = "return"
  /\ UNCHANGED <<next_user_id, users, answer>>

-----------------------------------------------------------------------------
(***************************************************************************)
(* logout_user is set_offline: HGET users, HMSET user:<id>.  The name is   *)
(* not tested: atoll is given the NULL string of a nil reply.              *)
(***************************************************************************)
BeginLogout(n, p, fd) == Receive("logout", n, p, fd) /\ pc' = "out_hget"

LogoutHget ==
  /\ pc = "out_hget"
  /\ UNCHANGED redis
  /\ \/ Error("HGET")
     \/ users[req.name] = None /\ SegFault
     \/ /\ users[req.name] # None
        /\ req' = [req EXCEPT !.id = users[req.name]]
        /\ pc' = "out_offline"
        /\ UNCHANGED answer

SetOffline ==
  /\ pc = "out_offline"
  /\ \/ Error("HMSET")
     \/ /\ user' = [user EXCEPT ![req.id].sockfd = Offline]
        /\ Return(req.id)
        /\ UNCHANGED <<next_user_id, users>>

-----------------------------------------------------------------------------
\* The end of the handler: pack_message and bufferevent_write.
Respond ==
  /\ pc = "return"
  /\ answer' = [op |-> req.op, name |-> req.name, pass |-> req.pass, rc |-> req.rc]
  /\ pc' = "idle"
  /\ req' = None
  /\ UNCHANGED redis

Crash == pc # "down" /\ SegFault /\ UNCHANGED redis
Restart == pc = "down" /\ pc' = "idle" /\ UNCHANGED <<next_user_id, users, user, req, answer>>

RegisterStep == RegisterHexists \/ RegisterIncr \/ RegisterHmset \/ RegisterHset
LoginStep == LoginHexists \/ LoginHget \/ LoginHmget \/ SetOnline
LogoutStep == LogoutHget \/ SetOffline

Next ==
  \/ \E n \in Name, p \in Pass, fd \in Fd :
       BeginRegister(n, p, fd) \/ BeginLogin(n, p, fd) \/ BeginLogout(n, p, fd)
  \/ RegisterStep \/ LoginStep \/ LogoutStep
  \/ Respond \/ Crash \/ Restart

Spec == Init /\ [][Next]_vars

-----------------------------------------------------------------------------
(***************************************************************************)
(* Properties                                                              *)
(***************************************************************************)

\* The index entry of a name leads to a complete record of that name, in
\* every state a crash may leave behind, and no two names share a record.
IndexSound ==
  \A n \in Name : users[n] # None =>
    /\ user[users[n]].username = n
    /\ user[users[n]].pass # None
    /\ \A m \in Name : users[m] = users[n] => m = n

\* Every id in the index was generated by next_user_id.
IdsGenerated == \A n \in Name : users[n] # None => users[n] \in 1 .. next_user_id

\* When register_user returns an error code it has registered nothing: the id
\* it worked with is not the one the name is entered with.
ErrorMeansUnregistered ==
  pc = "return" /\ req.op = "register" /\ req.rc < 0 => users[req.name] # req.id

\* A record that a crash or an error left without an index entry stays without
\* one: a retry of the registration gets a fresh id, never the orphan's.
Orphan(k) ==
  /\ pc \in {"idle", "down"}
  /\ user[k].username # None
  /\ \A n \in Name : users[n] # k
OrphanStaysOrphan ==
  \A k \in UserId : [](Orphan(k) => [](\A n \in Name : users[n] # k))

\* A client is told that it is logged in only when the messages of its rooms
\* are routed to its connection: set_online precedes the answer.  Only an
\* error of its HMSET, which the handler does not look at, is excepted.
LoginAnsweredOnline ==
  pc = "return" /\ req.op = "login" /\ req.rc > 0 /\ ~ req.failed =>
    user[req.rc].sockfd = req.fd

\* What routes messages changes only on behalf of its user: by a login with the
\* password of the account, to the connection that asked for it, or a logout.
SockfdFollowsCalls ==
  [][\A k \in UserId : user'[k].sockfd # user[k].sockfd =>
       /\ users[req.name] = k
       /\ \/ req.op = "login" /\ req.pass = user[k].pass /\ user'[k].sockfd = req.fd
          \/ req.op = "logout" /\ user'[k].sockfd = Offline]_vars

\* The dao implements the registry.
AccountOf(n) == IF users[n] = None THEN None
                ELSE [id |-> users[n], pass |-> user[users[n]].pass]
TheRegistry == INSTANCE Registry WITH accounts <- [n \in Name |-> AccountOf(n)]
ImplementsRegistry == TheRegistry!Spec
=============================================================================
