--------------------------- MODULE AccountsProofs ---------------------------
(***************************************************************************)
(* Theorems about Accounts, for any names, passwords and descriptors, any  *)
(* number of ids, and crashes anywhere.  Types hold whatever commands      *)
(* fail; the rest needs INCR not to: register_user does not look at its    *)
(* failure.                                                                *)
(***************************************************************************)
EXTENDS Accounts, TLAPS

-----------------------------------------------------------------------------
(***************************************************************************)
(* Control: what the call in progress knows at each Redis command.         *)
(***************************************************************************)

\* A call in progress has its arguments, and is the call its command is of.
CallHasArguments ==
  /\ pc \notin {"idle", "down"} => req \in Requests
  /\ pc \in RegisterPc => req.op = "register"
  /\ pc \in LoginPc => req.op = "login"
  /\ pc \in LogoutPc => req.op = "logout"

\* The name has been looked up: found for a login or a logout, and not found
\* for a registration.  Nothing else runs that could change that.
LookedUp ==
  /\ pc = "log_hget" => users[req.name] # None
  /\ pc \in {"log_hmget", "log_online", "out_offline"} =>
       users[req.name] # None /\ req.id = users[req.name]
  /\ pc \in {"reg_incr", "reg_hmset", "reg_hset"} => users[req.name] = None

\* A registration has an id once it has asked for one.
IdObtained ==
  /\ pc \in {"reg_hexists", "reg_incr"} => next_user_id < MaxId
  /\ pc \in {"reg_hmset", "reg_hset"} => req.id \in Key

Control == TypeOK /\ CallHasArguments /\ LookedUp /\ IdObtained

-----------------------------------------------------------------------------
(***************************************************************************)
(* Updates of records.                                                     *)
(***************************************************************************)
SameArguments(r, r2) == r2.op = r.op /\ r2.name = r.name /\ r2.pass = r.pass /\ r2.fd = r.fd

LEMMA SetRc ==
  ASSUME NEW r \in Requests, NEW rc \in Int
  PROVE  LET r2 == [r EXCEPT !.rc = rc] IN
         r2 \in Requests /\ SameArguments(r, r2) /\ r2.id = r.id /\ r2.rc = rc
  BY DEF Requests, SameArguments

LEMMA SetId ==
  ASSUME NEW r \in Requests, NEW id \in Key \cup {0}
  PROVE  LET r2 == [r EXCEPT !.id = id] IN
         r2 \in Requests /\ SameArguments(r, r2) /\ r2.id = id /\ r2.rc = r.rc
  BY DEF Requests, SameArguments

LEMMA SetFailed ==
  ASSUME NEW r \in Requests
  PROVE  LET r2 == [r EXCEPT !.failed = TRUE] IN
         r2 \in Requests /\ SameArguments(r, r2) /\ r2.id = r.id /\ r2.rc = r.rc
  BY DEF Requests, SameArguments

LEMMA NewId ==
  ASSUME req \in Requests, NEW id \in Key \cup {0}, req' = [req EXCEPT !.id = id]
  PROVE  req' \in Requests /\ SameArguments(req, req') /\ req'.id = id /\ req'.rc = req.rc
  BY SetId

LEMMA NewAccount ==
  ASSUME user \in [Key -> Fields], req.id \in Key, req.name \in Name, req.pass \in Pass,
         user' = [user EXCEPT ![req.id].username = req.name, ![req.id].pass = req.pass]
  PROVE  /\ user' \in [Key -> Fields]
         /\ user'[req.id].username = req.name /\ user'[req.id].pass = req.pass
         /\ \A k \in Key \ {req.id} : user'[k] = user[k]
<1>1. ASSUME NEW k \in Key, NEW n \in Name, NEW p \in Pass,
             user' = [user EXCEPT ![k].username = n, ![k].pass = p]
      PROVE  /\ user' \in [Key -> Fields]
             /\ user'[k].username = n /\ user'[k].pass = p
             /\ \A k2 \in Key \ {k} : user'[k2] = user[k2]
  <2> DEFINE u2 == [user EXCEPT ![k].username = n, ![k].pass = p]
  <2>1. /\ u2 \in [Key -> Fields]
        /\ u2[k].username = n /\ u2[k].pass = p
        /\ \A k2 \in Key \ {k} : u2[k2] = user[k2]
    BY DEF Fields
  <2>2. user' = u2
    BY <1>1
  <2> HIDE DEF u2
  <2> QED BY <2>1, <2>2
<1> QED
  BY <1>1

LEMMA SetSockfd ==
  ASSUME NEW u \in [Key -> Fields], NEW k \in Key, NEW fd \in Fd \cup {Offline, None}
  PROVE  LET u2 == [u EXCEPT ![k].sockfd = fd] IN
         /\ u2 \in [Key -> Fields]
         /\ \A k2 \in Key : u2[k2].username = u[k2].username /\ u2[k2].pass = u[k2].pass
  BY DEF Fields

\* Leaving a dao function, with or without an error.
LEMMA Returns ==
  ASSUME req \in Requests, NEW rc \in Int, Return(rc)
  PROVE  /\ pc' = "return" /\ answer' = answer /\ req' \in Requests
         /\ SameArguments(req, req') /\ req'.id = req.id /\ req'.rc = rc
  BY SetRc DEF Return

LEMMA Errors ==
  ASSUME req \in Requests, NEW cmd, Error(cmd)
  PROVE  /\ pc' = "return" /\ answer' = answer /\ req' \in Requests
         /\ SameArguments(req, req') /\ req'.id = req.id /\ req'.rc = -1
         /\ UNCHANGED redis
  BY Returns DEF Error, ERROR_NORMAL

LEMMA Codes == ERROR_NORMAL \in Int /\ ERROR_USER_EXISTS \in Int /\ ERROR_USER_NOTEXISTS \in Int
               /\ Key \subseteq Int /\ 0 \notin Key /\ None \notin Key
  BY MaxIdAssumption, NoneAssumption
  DEF ERROR_NORMAL, ERROR_USER_EXISTS, ERROR_USER_NOTEXISTS, Key, UserId

-----------------------------------------------------------------------------
\* A returning call, and a server that is down, know nothing.
LEMMA AtReturn ==
  ASSUME TypeOK', pc' = "return", req' \in Requests
  PROVE  Control'
  BY DEF Control, CallHasArguments, LookedUp, IdObtained, RegisterPc, LoginPc, LogoutPc

\* What set_online leaves of the call, whether it has failed or not.
LEMMA AfterSetOnline ==
  ASSUME req \in Requests, SetOnline
  PROVE  /\ pc' = "return" /\ UNCHANGED <<next_user_id, users, answer>>
         /\ req' \in Requests /\ SameArguments(req, req') /\ req'.id = req.id /\ req'.rc = req.rc
         /\ user' = user \/ user' = [user EXCEPT ![req.id].sockfd = req.fd]
<1>1. CASE req' = req
  BY <1>1 DEF SetOnline, SameArguments
<1>2. CASE req' = [req EXCEPT !.failed = TRUE]
  BY <1>2, SetFailed DEF SetOnline
<1> QED BY <1>1, <1>2 DEF SetOnline

LEMMA AtRest ==
  ASSUME TypeOK', pc' \in {"idle", "down"}
  PROVE  Control'
  BY DEF Control, CallHasArguments, LookedUp, IdObtained, RegisterPc, LoginPc, LogoutPc

LEMMA ReturnControl ==
  ASSUME Control, req \in Requests, NEW rc \in Int, Return(rc),
         next_user_id' = next_user_id, users' \in [Name -> Key \cup {None}],
         user' \in [Key -> Fields]
  PROVE  Control'
<1>1. TypeOK'
  BY Returns DEF Control, TypeOK, Pc
<1> QED BY <1>1, AtReturn, Returns

LEMMA ErrorControl ==
  ASSUME Control, req \in Requests, NEW cmd, Error(cmd)
  PROVE  Control'
  BY Codes, ReturnControl DEF Error, redis, Control, TypeOK

LEMMA SegFaultControl ==
  ASSUME Control, SegFault, UNCHANGED redis
  PROVE  Control'
<1>1. TypeOK'
  BY DEF Control, TypeOK, SegFault, redis, Pc
<1> QED BY <1>1, AtRest DEF SegFault

LEMMA ControlInit == Init => Control
  BY MaxIdAssumption DEF Init, Control, TypeOK, CallHasArguments, LookedUp, IdObtained,
     Pc, RegisterPc, LoginPc, LogoutPc, Fields, NoFields

LEMMA ControlStep == Control /\ [Next]_vars => Control'
<1> SUFFICES ASSUME Control, [Next]_vars PROVE Control'
  OBVIOUS
<1>0. /\ TypeOK
      /\ pc \notin {"idle", "down"} =>
           /\ req \in Requests /\ req.name \in Name /\ req.pass \in Pass
           /\ req.fd \in Fd /\ req.op \in Ops
  BY DEF Control, CallHasArguments, Requests
<1>1. ASSUME NEW n \in Name, NEW p \in Pass, NEW fd \in Fd,
             BeginRegister(n, p, fd) \/ BeginLogin(n, p, fd) \/ BeginLogout(n, p, fd)
      PROVE  Control'
  <2>1. req' \in Requests
    <3>1. PICK op \in Ops : req' = [op |-> op, name |-> n, pass |-> p, fd |-> fd, id |-> 0,
                                    rc |-> 0, failed |-> FALSE]
      BY <1>1 DEF BeginRegister, BeginLogin, BeginLogout, Receive, Ops
    <3> QED BY <3>1, SMT DEF Requests
  <2> QED
    BY <1>0, <1>1, <2>1
    DEF BeginRegister, BeginLogin, BeginLogout, Receive, Control, TypeOK, CallHasArguments,
        LookedUp, IdObtained, Pc, RegisterPc, LoginPc, LogoutPc
<1>2. CASE RegisterHexists
  <2>1. CASE users[req.name] = None /\ Goto("reg_incr") /\ UNCHANGED redis
    BY <1>0, <1>2, <2>1 DEF RegisterHexists, Goto, redis, Control, TypeOK, CallHasArguments,
       LookedUp, IdObtained, Pc, RegisterPc, LoginPc, LogoutPc
  <2> QED
    BY <1>0, <1>2, <2>1, Codes, ErrorControl, ReturnControl DEF RegisterHexists, redis, TypeOK
<1>3. CASE RegisterIncr
  <2>1. /\ req \in Requests /\ next_user_id + 1 \in Key /\ ERROR_NORMAL \in Key
        /\ next_user_id + 1 \in 0 .. MaxId
    BY <1>0, <1>3, MaxIdAssumption
    DEF RegisterIncr, Control, IdObtained, TypeOK, Key, UserId
  <2>2. /\ \E id \in Key : req' = [req EXCEPT !.id = id]
        /\ next_user_id' \in 0 .. MaxId
    BY <1>0, <1>3, <2>1 DEF RegisterIncr, TypeOK
  <2>3. req' \in Requests /\ SameArguments(req, req') /\ req'.id \in Key
    BY <2>1, <2>2, NewId
  <2> QED
    BY <1>0, <1>3, <2>2, <2>3
    DEF RegisterIncr, Control, TypeOK, CallHasArguments, LookedUp, IdObtained, SameArguments,
        Pc, RegisterPc, LoginPc, LogoutPc
<1>4. CASE RegisterHmset
  <2>1. CASE Error("HMSET")
    BY <1>0, <1>4, <2>1, ErrorControl DEF RegisterHmset
  <2>2. CASE ~ Error("HMSET")
    <3>0. user' = [user EXCEPT ![req.id].username = req.name, ![req.id].pass = req.pass]
      BY <1>4, <2>2 DEF RegisterHmset
    <3>1. user' \in [Key -> Fields]
      <4>1. req.id \in Key /\ req.name \in Name /\ req.pass \in Pass /\ user \in [Key -> Fields]
        BY <1>0, <1>4 DEF RegisterHmset, Control, TypeOK, IdObtained
      <4> QED BY <3>0, <4>1, NewAccount
    <3> QED
      BY <1>0, <1>4, <2>2, <3>1 DEF RegisterHmset, Goto, Control, TypeOK, CallHasArguments,
         LookedUp, IdObtained, Pc, RegisterPc, LoginPc, LogoutPc
  <2> QED BY <2>1, <2>2
<1>5. CASE RegisterHset
  BY <1>0, <1>5, Codes, ErrorControl, ReturnControl
  DEF RegisterHset, Control, IdObtained, TypeOK
<1>6. CASE LoginHexists
  <2>1. CASE users[req.name] # None /\ Goto("log_hget") /\ UNCHANGED redis
    BY <1>0, <1>6, <2>1 DEF LoginHexists, Goto, redis, Control, TypeOK, CallHasArguments,
       LookedUp, IdObtained, Pc, RegisterPc, LoginPc, LogoutPc
  <2> QED
    BY <1>0, <1>6, <2>1, Codes, ErrorControl, ReturnControl DEF LoginHexists, redis, TypeOK
<1>7. CASE LoginHget
  <2>1. CASE Error("HGET")
    BY <1>0, <1>7, <2>1, ErrorControl DEF LoginHget
  <2>2. CASE ~ Error("HGET")
    <3>1. users[req.name] \in Key
      BY <1>0, <1>7 DEF LoginHget, Control, LookedUp, TypeOK
    <3>2. req' \in Requests /\ SameArguments(req, req') /\ req'.id = users[req.name]
      <4>1. req \in Requests /\ req' = [req EXCEPT !.id = users[req.name]]
        BY <1>0, <1>7, <2>2 DEF LoginHget
      <4> QED BY <3>1, <4>1, NewId
    <3> QED
      BY <1>0, <1>7, <2>2, <3>1, <3>2, Codes
      DEF LoginHget, Control, TypeOK, CallHasArguments, LookedUp, IdObtained, SameArguments,
          Pc, RegisterPc, LoginPc, LogoutPc
  <2> QED BY <2>1, <2>2
<1>8. CASE LoginHmget
  <2>1. CASE pc' = "log_online" /\ req' = [req EXCEPT !.rc = req.id] /\ UNCHANGED answer
    <3>1. req' \in Requests /\ SameArguments(req, req') /\ req'.id = req.id
      BY <1>0, <1>8, <2>1, Codes, SetRc DEF LoginHmget, Control, LookedUp, TypeOK
    <3> QED
      BY <1>0, <1>8, <2>1, <3>1
      DEF LoginHmget, redis, Control, TypeOK, CallHasArguments, LookedUp, IdObtained,
          SameArguments, Pc, RegisterPc, LoginPc, LogoutPc
  <2>2. CASE Return(req.id)
    BY <1>0, <1>8, <2>2, Codes, ReturnControl DEF LoginHmget, redis, Control, LookedUp, TypeOK
  <2> QED
    BY <1>0, <1>8, <2>1, <2>2, Codes, ErrorControl, ReturnControl, SegFaultControl
    DEF LoginHmget, redis, Return, TypeOK
<1>9. CASE SetOnline
  <2>1. req.id \in Key
    BY <1>0, <1>9 DEF SetOnline, Control, LookedUp, TypeOK
  <2>2. user' \in [Key -> Fields]
    BY <1>0, <1>9, <2>1, SetSockfd DEF SetOnline, TypeOK
  <2>3. TypeOK'
    <3>1. req \in Requests /\ pc = "log_online"
      BY <1>0, <1>9 DEF SetOnline
    <3> QED BY <1>0, <1>9, <2>2, <3>1, AfterSetOnline DEF TypeOK, Pc
  <2> QED BY <1>0, <1>9, <2>3, AtReturn, AfterSetOnline DEF SetOnline
<1>10. CASE LogoutHget
  <2>1. CASE users[req.name] # None /\ pc' = "out_offline"
    <3>1. users[req.name] \in Key
      BY <1>0, <1>10, <2>1 DEF LogoutHget, TypeOK
    <3>2. req' \in Requests /\ SameArguments(req, req') /\ req'.id = users[req.name]
          /\ answer' = answer
      <4>1. req \in Requests /\ req' = [req EXCEPT !.id = users[req.name]] /\ answer' = answer
        BY <1>0, <1>10, <2>1 DEF LogoutHget, Error, Return, SegFault
      <4> QED BY <3>1, <4>1, NewId
    <3> QED
      BY <1>0, <1>10, <2>1, <3>1, <3>2
      DEF LogoutHget, redis, Control, TypeOK, CallHasArguments, LookedUp, IdObtained,
          SameArguments, Pc, RegisterPc, LoginPc, LogoutPc
  <2> QED
    BY <1>0, <1>10, <2>1, ErrorControl, SegFaultControl DEF LogoutHget
<1>11. CASE SetOffline
  <2>1. CASE Error("HMSET")
    BY <1>0, <1>11, <2>1, ErrorControl DEF SetOffline
  <2>2. CASE ~ Error("HMSET")
    <3>1. req.id \in Key /\ req.id \in Int
      BY <1>0, <1>11, Codes DEF SetOffline, Control, LookedUp, TypeOK
    <3>2. user' \in [Key -> Fields]
      <4>1. user \in [Key -> Fields] /\ user' = [user EXCEPT ![req.id].sockfd = Offline]
        BY <1>0, <1>11, <2>2 DEF SetOffline, Control, TypeOK
      <4> QED BY <3>1, <4>1, SetSockfd
    <3> QED BY <1>0, <1>11, <2>2, <3>1, <3>2, ReturnControl DEF SetOffline, TypeOK
  <2> QED BY <2>1, <2>2
<1>12. CASE Respond
  <2>1. answer' \in Answers
    BY <1>0, <1>12 DEF Respond, Answers, Requests
  <2>2. TypeOK'
    BY <1>0, <1>12, <2>1 DEF Respond, redis, TypeOK, Pc
  <2> QED BY <1>12, <2>2, AtRest DEF Respond
<1>13. CASE Crash
  BY <1>13, SegFaultControl DEF Crash
<1>14. CASE Restart
  <2>1. TypeOK'
    BY <1>0, <1>14 DEF Restart, TypeOK, Pc
  <2> QED BY <1>14, <2>1, AtRest DEF Restart
<1>15. CASE UNCHANGED vars
  BY <1>15 DEF vars, Control, TypeOK, CallHasArguments, LookedUp, IdObtained
<1> QED
  BY <1>1, <1>2, <1>3, <1>4, <1>5, <1>6, <1>7, <1>8, <1>9, <1>10, <1>11, <1>12, <1>13, <1>14,
     <1>15
  DEF Next, RegisterStep, LoginStep, LogoutStep

LEMMA ControlCorrect == Spec => []Control
  BY ControlInit, ControlStep, PTL DEF Spec

\* Every variable keeps its type, whatever commands fail and whenever the
\* server dies.
THEOREM TypeCorrect == Spec => []TypeOK
  BY ControlCorrect, PTL DEF Control

-----------------------------------------------------------------------------
(***************************************************************************)
(* The index and the records, when INCR does not fail.  A registration     *)
(* holds the newest id, which is nobody's (IdFresh), and has written the   *)
(* record before it enters the name (RecordWritten); that is what a crash  *)
(* in between cannot undo.                                                 *)
(***************************************************************************)
IdFresh ==
  pc \in {"reg_hmset", "reg_hset"} =>
    req.id = next_user_id /\ req.id \in UserId /\ \A n \in Name : users[n] # req.id

RecordWritten ==
  pc = "reg_hset" => user[req.id].username = req.name /\ user[req.id].pass = req.pass

\* The result about to be answered says what the database says.
ResultTrue ==
  pc = "return" =>
    \/ req.rc = ERROR_NORMAL
    \/ req.rc = ERROR_USER_EXISTS /\ req.op = "register" /\ users[req.name] # None
    \/ req.rc = ERROR_USER_NOTEXISTS /\ req.op = "login" /\ users[req.name] = None
    \/ /\ users[req.name] # None /\ req.rc = users[req.name]
       /\ req.op # "logout" => user[users[req.name]].pass = req.pass

\* The id of a request before it has been given one is nobody's.
NoIdYet == pc \in {"reg_hexists", "reg_incr"} => req.id = 0

\* A login goes on to set_online for the account whose password it has seen.
PassSeen ==
  pc = "log_online" => req.rc = req.id /\ user[users[req.name]].pass = req.pass

Data == IndexSound /\ IdsGenerated
Sound == Data /\ IdFresh /\ RecordWritten /\ NoIdYet /\ ErrorMeansUnregistered /\ ResultTrue /\ PassSeen

LEMMA DataKept ==
  ASSUME Control, Data, users' = users, next_user_id' \in Nat, next_user_id <= next_user_id',
         \A k \in Key : user'[k].username = user[k].username /\ user'[k].pass = user[k].pass
  PROVE  Data'
<1>1. \A n \in Name : users[n] # None => users[n] \in Key
  BY DEF Control, TypeOK
<1>2. IndexSound'
  BY <1>1 DEF Data, IndexSound
<1>3. IdsGenerated'
  BY DEF Data, IdsGenerated, Control, TypeOK
<1> QED BY <1>2, <1>3 DEF Data

\* A step that leaves Redis alone and a registration's id and record too.
LEMMA DataUnchanged ==
  ASSUME Control, Data, UNCHANGED redis
  PROVE  Data'
  BY DataKept DEF redis, Control, TypeOK

\* A dao function that gives up has registered nothing.
LEMMA ErrorSound ==
  ASSUME Control, Sound, pc \notin {"idle", "down", "return"}, NEW cmd, Error(cmd)
  PROVE  Sound'
<1>1. req \in Requests /\ req.name \in Name
  BY DEF Control, CallHasArguments, Requests
<1>2. /\ pc' = "return" /\ SameArguments(req, req') /\ req'.id = req.id /\ req'.rc = -1
      /\ UNCHANGED redis
  BY <1>1, Errors
<1>3. Data'
  BY <1>2, DataUnchanged DEF Sound
<1>4. ErrorMeansUnregistered'
  <2> SUFFICES ASSUME req.op = "register" PROVE users[req.name] # req.id
    BY <1>2 DEF ErrorMeansUnregistered, SameArguments, redis
  <2>1. pc \in RegisterPc
    BY DEF Control, CallHasArguments, TypeOK, Pc, RegisterPc, LoginPc, LogoutPc
  <2>2. users[req.name] # None => users[req.name] \in Key
    BY <1>1 DEF Control, TypeOK
  <2> QED
    BY <1>1, <2>1, <2>2, Codes, NoneAssumption DEF Sound, NoIdYet, IdFresh, RegisterPc
<1> QED
  BY <1>2, <1>3, <1>4
  DEF Sound, IdFresh, RecordWritten, NoIdYet, ResultTrue, PassSeen, ERROR_NORMAL

\* Leaving a dao function with a result that is true of the database.
LEMMA ReturnSound ==
  ASSUME Control, Sound, req \in Requests, NEW rc \in Int, Return(rc), Data',
         \/ rc = ERROR_USER_EXISTS /\ req.op = "register" /\ users'[req.name] # None
            /\ users'[req.name] # req.id
         \/ rc = ERROR_USER_NOTEXISTS /\ req.op = "login" /\ users'[req.name] = None
         \/ rc = ERROR_NORMAL /\ req.op # "register"
         \/ /\ users'[req.name] # None /\ rc = users'[req.name]
            /\ rc > 0
            /\ req.op # "logout" => user'[users'[req.name]].pass = req.pass
  PROVE  Sound'
<1>1. /\ pc' = "return" /\ SameArguments(req, req') /\ req'.id = req.id /\ req'.rc = rc
  BY Returns
<1>2. ErrorMeansUnregistered'
  BY <1>1 DEF ErrorMeansUnregistered, SameArguments, ERROR_USER_EXISTS, ERROR_USER_NOTEXISTS
<1>3. ResultTrue'
  BY <1>1 DEF ResultTrue, SameArguments
<1> QED
  BY <1>1, <1>2, <1>3 DEF Sound, IdFresh, RecordWritten, NoIdYet, PassSeen

\* At rest, or when a process dies, only the database matters.
LEMMA RestSound ==
  ASSUME Data', pc' \in {"idle", "down"}
  PROVE  Sound'
  BY DEF Sound, IdFresh, RecordWritten, NoIdYet, ErrorMeansUnregistered, ResultTrue, PassSeen

LEMMA SoundInit == Init => Sound
  BY NoneAssumption
  DEF Init, Sound, Data, IndexSound, IdsGenerated, IdFresh, RecordWritten, NoIdYet,
      ErrorMeansUnregistered, ResultTrue, PassSeen

LEMMA RegisterStepSound ==
  ASSUME "INCR" \notin Faulty, Control, Sound, RegisterStep
  PROVE  Sound'
<1>0. /\ TypeOK /\ Data
      /\ req \in Requests /\ req.name \in Name /\ req.pass \in Pass /\ req.op = "register"
      /\ pc \in RegisterPc
      /\ \A n \in Name : users[n] \in Key \cup {None}
  BY DEF Control, CallHasArguments, Requests, Sound, TypeOK, RegisterStep, RegisterHexists,
         RegisterIncr, RegisterHmset, RegisterHset, RegisterPc
<1>1. CASE RegisterHexists
  <2>1. CASE Error("HEXISTS")
    BY <1>0, <2>1, ErrorSound DEF RegisterPc
  <2>2. CASE users[req.name] # None /\ Return(ERROR_USER_EXISTS) /\ UNCHANGED redis
    <3>1. users[req.name] # req.id
      BY <1>0, <1>1, <2>2, Codes DEF RegisterHexists, Sound, NoIdYet
    <3> QED
      BY <1>0, <2>2, <3>1, Codes, DataUnchanged, ReturnSound DEF redis
  <2>3. CASE users[req.name] = None /\ Goto("reg_incr") /\ UNCHANGED redis
    <3>1. Data'
      BY <1>0, <2>3, DataUnchanged
    <3> QED
      BY <1>1, <2>3, <3>1
      DEF RegisterHexists, Goto, redis, Sound, IdFresh, RecordWritten, NoIdYet,
          ErrorMeansUnregistered, ResultTrue, PassSeen
  <2> QED BY <1>1, <2>1, <2>2, <2>3 DEF RegisterHexists
<1>2. CASE RegisterIncr
  <2>1. /\ next_user_id' = next_user_id + 1 /\ req' = [req EXCEPT !.id = next_user_id + 1]
        /\ pc' = "reg_hmset" /\ UNCHANGED <<users, user>>
    BY <1>2 DEF RegisterIncr
  <2>2. next_user_id + 1 \in UserId /\ next_user_id \in Nat /\ next_user_id + 1 \in Key
    BY <1>0, <1>2, MaxIdAssumption DEF RegisterIncr, Control, IdObtained, TypeOK, UserId, Key
  <2>3. req'.id = next_user_id'
    BY <1>0, <2>1, <2>2, NewId
  <2>4. Data'
    BY <1>0, <2>1, <2>2, DataKept
  <2>5. \A n \in Name : users[n] # None => users[n] \in 1 .. next_user_id
    BY <1>0 DEF Data, IdsGenerated
  <2>6. \A n \in Name : users'[n] # req'.id
    BY <2>1, <2>2, <2>3, <2>5, NoneAssumption
  <2> QED
    BY <2>1, <2>2, <2>3, <2>4, <2>6
    DEF Sound, IdFresh, RecordWritten, NoIdYet, ErrorMeansUnregistered, ResultTrue, PassSeen
<1>3. CASE RegisterHmset
  <2>1. CASE Error("HMSET")
    BY <1>0, <2>1, ErrorSound DEF RegisterPc
  <2>2. CASE ~ Error("HMSET")
    <3>1. /\ user' = [user EXCEPT ![req.id].username = req.name, ![req.id].pass = req.pass]
          /\ pc' = "reg_hset" /\ UNCHANGED <<req, users, next_user_id>>
      BY <1>3, <2>2 DEF RegisterHmset, Goto
    <3>2. /\ req.id \in Key /\ req.id = next_user_id /\ req.id \in UserId
          /\ \A n \in Name : users[n] # req.id
      BY <1>3 DEF RegisterHmset, Control, IdObtained, Sound, IdFresh
    <3>3. /\ user'[req.id].username = req.name /\ user'[req.id].pass = req.pass
          /\ \A k \in Key \ {req.id} : user'[k] = user[k]
      BY <1>0, <3>1, <3>2, NewAccount DEF TypeOK
    <3>4. \A n \in Name : users[n] # None => users[n] \in Key /\ user'[users[n]] = user[users[n]]
      BY <1>0, <3>2, <3>3
    <3>5. Data'
      <4>1. IndexSound'
        <5> SUFFICES ASSUME NEW n \in Name, users[n] # None
                     PROVE  /\ user'[users[n]].username = n /\ user'[users[n]].pass # None
                            /\ \A m \in Name : users[m] = users[n] => m = n
          BY <3>1 DEF IndexSound
        <5>1. user'[users[n]] = user[users[n]]
          BY <3>4
        <5> QED BY <1>0, <5>1 DEF Data, IndexSound
      <4>2. IdsGenerated'
        BY <1>0, <3>1 DEF Data, IdsGenerated
      <4> QED BY <4>1, <4>2 DEF Data
    <3> QED
      BY <3>1, <3>2, <3>3, <3>5
      DEF Sound, IdFresh, RecordWritten, NoIdYet, ErrorMeansUnregistered, ResultTrue, PassSeen
  <2> QED BY <2>1, <2>2
<1>4. CASE RegisterHset
  <2>1. CASE Error("HSET")
    BY <1>0, <2>1, ErrorSound DEF RegisterPc
  <2>2. CASE ~ Error("HSET")
    <3>1. /\ users' = [users EXCEPT ![req.name] = req.id] /\ Return(req.id)
          /\ UNCHANGED <<next_user_id, user>>
      BY <1>4, <2>2 DEF RegisterHset
    <3>2. /\ req.id = next_user_id /\ req.id \in UserId /\ \A n \in Name : users[n] # req.id
          /\ user[req.id].username = req.name /\ user[req.id].pass = req.pass
      BY <1>4 DEF RegisterHset, Sound, IdFresh, RecordWritten
    <3>3. /\ users'[req.name] = req.id
          /\ \A n \in Name \ {req.name} : users'[n] = users[n]
      BY <1>0, <3>1 DEF TypeOK
    <3>4. IndexSound'
      BY <1>0, <3>1, <3>2, <3>3, NoneAssumption DEF Data, IndexSound
    <3>5. IdsGenerated'
      BY <1>0, <3>1, <3>2, <3>3, MaxIdAssumption DEF Data, IdsGenerated, UserId
    <3>6. req.id \in Int /\ req.id > 0 /\ req.id # None
      BY <3>2, MaxIdAssumption, NoneAssumption DEF UserId
    <3> QED
      BY <1>0, <3>1, <3>2, <3>3, <3>4, <3>5, <3>6, ReturnSound DEF Data
  <2> QED BY <2>1, <2>2
<1> QED BY <1>1, <1>2, <1>3, <1>4 DEF RegisterStep

LEMMA LoginStepSound ==
  ASSUME Control, Sound, LoginStep
  PROVE  Sound'
<1>0. /\ TypeOK /\ Data
      /\ req \in Requests /\ req.name \in Name /\ req.op = "login"
      /\ pc \in LoginPc
      /\ \A n \in Name : users[n] \in Key \cup {None}
  BY DEF Control, CallHasArguments, Requests, Sound, TypeOK, LoginStep, LoginHexists,
         LoginHget, LoginHmget, SetOnline, LoginPc
<1>1. CASE UNCHANGED redis /\ pc' \in {"log_hget", "log_hmget"}
  <2>1. Data'
    BY <1>0, <1>1, DataUnchanged
  <2> QED
    BY <1>1, <2>1
    DEF Sound, IdFresh, RecordWritten, NoIdYet, ErrorMeansUnregistered, ResultTrue, PassSeen
<1>2. ASSUME NEW cmd, Error(cmd) PROVE Sound'
  BY <1>0, <1>2, ErrorSound DEF LoginPc
<1>3. CASE LoginHexists
  BY <1>0, <1>1, <1>2, <1>3, Codes, DataUnchanged, ReturnSound
  DEF LoginHexists, Goto, redis
<1>4. CASE LoginHget
  BY <1>1, <1>2, <1>4 DEF LoginHget, redis
<1>5. CASE LoginHmget
  <2> DEFINE found == user[req.id]
  <2>1. Data' /\ UNCHANGED redis
    BY <1>0, <1>5, DataUnchanged DEF LoginHmget
  <2>2. users[req.name] # None /\ req.id = users[req.name] /\ req.id \in Key /\ req.id \in Int
    BY <1>0, <1>5, Codes DEF LoginHmget, Control, LookedUp
  <2>3. req.id > 0
    BY <1>0, <2>2 DEF Data, IdsGenerated, Control, TypeOK
  <2>4. CASE SegFault
    BY <2>1, <2>4, RestSound DEF SegFault
  <2>5. CASE Return(ERROR_NORMAL)
    BY <1>0, <2>1, <2>5, Codes, ReturnSound
  <2>6. CASE /\ found.pass = req.pass
             /\ pc' = "log_online" /\ req' = [req EXCEPT !.rc = req.id]
    <3>1. SameArguments(req, req') /\ req'.id = req.id /\ req'.rc = req.id
      <4>1. req \in Requests /\ req.id \in Int /\ req' = [req EXCEPT !.rc = req.id]
        BY <1>0, <2>2, <2>6
      <4> QED BY <4>1, SetRc
    <3>2. PassSeen'
      BY <2>1, <2>2, <2>6, <3>1 DEF PassSeen, SameArguments, redis
    <3> QED
      BY <2>1, <2>6, <3>2
      DEF Sound, IdFresh, RecordWritten, NoIdYet, ErrorMeansUnregistered, ResultTrue
  <2>7. \/ Error("HMGET") \/ SegFault \/ Return(ERROR_NORMAL)
        \/ /\ <<found.username, found.pass>> = <<req.name, req.pass>>
           /\ pc' = "log_online" /\ req' = [req EXCEPT !.rc = req.id]
    BY <1>5, <2>3 DEF LoginHmget
  <2>8. <<found.username, found.pass>> = <<req.name, req.pass>> => found.pass = req.pass
    OBVIOUS
  <2> QED BY <1>2, <2>4, <2>5, <2>6, <2>7, <2>8
<1>6. CASE SetOnline
  <2>1. /\ SameArguments(req, req') /\ req'.id = req.id /\ req'.rc = req.rc
        /\ pc' = "return" /\ UNCHANGED <<users, next_user_id>>
        /\ req.id \in Key /\ req.fd \in Fd
        /\ user' = user \/ user' = [user EXCEPT ![req.id].sockfd = req.fd]
    BY <1>0, <1>6, AfterSetOnline DEF SetOnline, Control, LookedUp, Requests
  <2>2. \A k \in Key : user'[k].username = user[k].username /\ user'[k].pass = user[k].pass
    <3>1. user \in [Key -> Fields]
      BY <1>0 DEF TypeOK
    <3>2. CASE user' = [user EXCEPT ![req.id].sockfd = req.fd]
      BY <2>1, <3>1, <3>2, SetSockfd
    <3>3. CASE user' = user
      BY <3>3
    <3> QED BY <2>1, <3>2, <3>3
  <2>3. Data'
    BY <1>0, <2>1, <2>2, DataKept, MaxIdAssumption DEF TypeOK
  <2>4. /\ users[req.name] # None /\ req.rc = users[req.name] /\ users[req.name] \in Key
        /\ user[users[req.name]].pass = req.pass
    BY <1>0, <1>6 DEF SetOnline, Control, LookedUp, Sound, PassSeen
  <2>5. ResultTrue'
    BY <2>1, <2>2, <2>4 DEF ResultTrue, SameArguments
  <2> QED
    BY <1>0, <2>1, <2>3, <2>5
    DEF SameArguments, Sound, IdFresh, RecordWritten, NoIdYet, ErrorMeansUnregistered, PassSeen
<1> QED BY <1>3, <1>4, <1>5, <1>6 DEF LoginStep

LEMMA LogoutStepSound ==
  ASSUME Control, Sound, LogoutStep
  PROVE  Sound'
<1>0. /\ TypeOK /\ Data
      /\ req \in Requests /\ req.name \in Name /\ req.op = "logout"
      /\ pc \in LogoutPc
      /\ \A n \in Name : users[n] \in Key \cup {None}
  BY DEF Control, CallHasArguments, Requests, Sound, TypeOK, LogoutStep, LogoutHget,
         SetOffline, LogoutPc
<1>1. ASSUME NEW cmd, Error(cmd) PROVE Sound'
  BY <1>0, <1>1, ErrorSound DEF LogoutPc
<1>2. CASE LogoutHget
  <2>1. Data'
    BY <1>0, <1>2, DataUnchanged DEF LogoutHget
  <2>2. CASE SegFault
    BY <2>1, <2>2, RestSound DEF SegFault
  <2>3. CASE pc' = "out_offline"
    BY <2>1, <2>3
    DEF Sound, IdFresh, RecordWritten, NoIdYet, ErrorMeansUnregistered, ResultTrue, PassSeen
  <2> QED BY <1>1, <1>2, <2>2, <2>3 DEF LogoutHget
<1>3. CASE SetOffline
  <2>1. CASE Error("HMSET")
    BY <1>1, <2>1
  <2>2. CASE ~ Error("HMSET")
    <3>1. /\ user' = [user EXCEPT ![req.id].sockfd = Offline] /\ Return(req.id)
          /\ UNCHANGED <<next_user_id, users>>
      BY <1>3, <2>2 DEF SetOffline
    <3>2. users[req.name] # None /\ req.id = users[req.name] /\ req.id \in Key /\ req.id \in Int
      BY <1>0, <1>3, Codes DEF SetOffline, Control, LookedUp
    <3>3. req.id > 0
      BY <1>0, <3>2 DEF Data, IdsGenerated, Control, TypeOK
    <3>4. \A k \in Key : user'[k].username = user[k].username /\ user'[k].pass = user[k].pass
      BY <1>0, <3>1, <3>2, SetSockfd DEF TypeOK
    <3>5. Data'
      BY <1>0, <3>1, <3>4, DataKept, MaxIdAssumption DEF TypeOK
    <3> QED BY <1>0, <3>1, <3>2, <3>3, <3>5, ReturnSound
  <2> QED BY <2>1, <2>2
<1> QED BY <1>2, <1>3 DEF LogoutStep

LEMMA SoundStep ==
  ASSUME "INCR" \notin Faulty, Control, Sound, [Next]_vars
  PROVE  Sound'
<1>0. Data
  BY DEF Sound
<1>1. ASSUME NEW n \in Name, NEW p \in Pass, NEW fd \in Fd,
             BeginRegister(n, p, fd) \/ BeginLogin(n, p, fd) \/ BeginLogout(n, p, fd)
      PROVE  Sound'
  <2>1. /\ UNCHANGED redis /\ req'.id = 0
        /\ pc' \in {"reg_hexists", "log_hexists", "out_hget"}
    BY <1>1 DEF BeginRegister, BeginLogin, BeginLogout, Receive, redis
  <2>2. Data'
    BY <1>0, <2>1, DataUnchanged
  <2> QED
    BY <2>1, <2>2
    DEF Sound, IdFresh, RecordWritten, NoIdYet, ErrorMeansUnregistered, ResultTrue, PassSeen
<1>2. CASE Respond \/ Crash \/ Restart
  <2>1. UNCHANGED redis /\ pc' \in {"idle", "down"}
    BY <1>2 DEF Respond, Crash, Restart, SegFault, redis
  <2> QED BY <1>0, <2>1, DataUnchanged, RestSound
<1>3. CASE UNCHANGED vars
  BY <1>3 DEF vars, Sound, Data, IndexSound, IdsGenerated, IdFresh, RecordWritten, NoIdYet,
              ErrorMeansUnregistered, ResultTrue, PassSeen
<1> QED
  BY <1>1, <1>2, <1>3, RegisterStepSound, LoginStepSound, LogoutStepSound DEF Next

LEMMA SoundCorrect ==
  ASSUME "INCR" \notin Faulty
  PROVE  Spec => []Sound
<1>1. Control /\ Sound /\ [Next]_vars => Sound'
  BY SoundStep
<1> QED
  BY <1>1, SoundInit, ControlCorrect, PTL DEF Spec

\* Through crashes and errors of any command but INCR, a name in the index
\* leads to a complete record of its own.
THEOREM IndexCorrect ==
  ASSUME "INCR" \notin Faulty
  PROVE  Spec => []IndexSound
  BY SoundCorrect, PTL DEF Sound, Data

\* And its id is one that next_user_id has generated: no error code is an id.
THEOREM IdsCorrect ==
  ASSUME "INCR" \notin Faulty
  PROVE  Spec => []IdsGenerated
  BY SoundCorrect, PTL DEF Sound, Data

\* And a registration that returns an error code has registered nothing.
THEOREM ErrorCorrect ==
  ASSUME "INCR" \notin Faulty
  PROVE  Spec => []ErrorMeansUnregistered
  BY SoundCorrect, PTL DEF Sound

-----------------------------------------------------------------------------
(***************************************************************************)
(* The answer to a login.  Between the comparison of the password and the  *)
(* answer there is only set_online; any other way to answer has a code     *)
(* that is not positive.                                                   *)
(***************************************************************************)
OnlineNext == pc = "log_online" => req.rc = req.id /\ req.id \in Key

LEMMA NegativeAnswer ==
  ASSUME req \in Requests, NEW rc \in Int, rc <= 0, Return(rc)
  PROVE  LoginAnsweredOnline' /\ OnlineNext'
  BY Returns DEF LoginAnsweredOnline, OnlineNext

LEMMA ErrorIsNegative ==
  ASSUME req \in Requests, NEW cmd, Error(cmd)
  PROVE  LoginAnsweredOnline' /\ OnlineNext'
  BY NegativeAnswer DEF Error, ERROR_NORMAL

LEMMA LoginOnlineStep ==
  ASSUME Control, LoginAnsweredOnline, OnlineNext, [Next]_vars
  PROVE  LoginAnsweredOnline' /\ OnlineNext'
<1>0. /\ TypeOK
      /\ pc \notin {"idle", "down"} => req \in Requests /\ req.fd \in Fd
  BY DEF Control, CallHasArguments, Requests
<1>1. CASE pc' \notin {"return", "log_online"}
  BY <1>1 DEF LoginAnsweredOnline, OnlineNext
<1>2. CASE RegisterStep /\ pc' \in {"return", "log_online"}
  <2>1. pc' = "return" /\ req'.op = "register"
    BY <1>0, <1>2, Codes, Returns
    DEF RegisterStep, RegisterHexists, RegisterIncr, RegisterHmset, RegisterHset, Goto, Error,
        Control, CallHasArguments, IdObtained, RegisterPc, SameArguments
  <2> QED BY <2>1 DEF LoginAnsweredOnline, OnlineNext
<1>3. CASE LogoutStep /\ pc' \in {"return", "log_online"}
  <2>1. pc' = "return" /\ req'.op = "logout"
    <3>1. req \in Requests /\ req.op = "logout" /\ req.id \in Int
      <4>1. req \in Requests /\ req.op = "logout"
        BY <1>0, <1>3
        DEF LogoutStep, LogoutHget, SetOffline, Control, CallHasArguments, LogoutPc
      <4>2. req.id \in Key \cup {0}
        BY <4>1 DEF Requests
      <4>3. req.id \in Int
        BY <4>2, MaxIdAssumption DEF Key, UserId, ERROR_NORMAL
      <4> QED BY <4>1, <4>3
    <3>2. CASE LogoutHget
      BY <1>3, <3>1, <3>2, Errors DEF LogoutHget, SegFault, SameArguments
    <3>3. CASE SetOffline
      BY <3>1, <3>3, Errors, Returns DEF SetOffline, SameArguments
    <3> QED BY <1>3, <3>2, <3>3 DEF LogoutStep
  <2> QED BY <2>1 DEF LoginAnsweredOnline, OnlineNext
<1>4. CASE LoginHexists /\ pc' \in {"return", "log_online"}
  BY <1>0, <1>4, Codes, NegativeAnswer, ErrorIsNegative
  DEF LoginHexists, Goto, ERROR_USER_NOTEXISTS
<1>5. CASE LoginHget /\ pc' \in {"return", "log_online"}
  BY <1>0, <1>5, ErrorIsNegative DEF LoginHget
<1>6. CASE LoginHmget /\ pc' \in {"return", "log_online"}
  <2>1. req \in Requests /\ req.id \in Key
    <3>1. /\ req \in Requests /\ req.name \in Name
          /\ users[req.name] # None /\ req.id = users[req.name]
      BY <1>0, <1>6 DEF LoginHmget, Control, LookedUp, Requests
    <3> QED BY <1>0, <3>1 DEF TypeOK
  <2>2. CASE Return(ERROR_NORMAL)
    BY <2>1, <2>2, NegativeAnswer DEF ERROR_NORMAL
  <2>3. CASE /\ pc' = IF req.id > 0 THEN "log_online" ELSE "return"
             /\ req' = [req EXCEPT !.rc = req.id]
    <3>1. req'.rc = req.id /\ req'.id = req.id /\ req.id \in Int
      BY <2>1, <2>3, Codes, SetRc
    <3> QED BY <2>1, <2>3, <3>1 DEF LoginAnsweredOnline, OnlineNext
  <2> QED BY <1>6, <2>1, <2>2, <2>3, ErrorIsNegative DEF LoginHmget, SegFault
<1>7. CASE SetOnline
  <2>1. /\ pc' = "return" /\ req'.rc = req'.id /\ req'.id = req.id /\ req'.fd = req.fd
        /\ req.id \in Key /\ user \in [Key -> Fields]
    BY <1>0, <1>7, AfterSetOnline DEF SetOnline, OnlineNext, SameArguments, TypeOK
  <2>2. CASE user' = [user EXCEPT ![req.id].sockfd = req.fd]
    BY <2>1, <2>2 DEF LoginAnsweredOnline, OnlineNext, Fields
  <2>3. CASE req' = [req EXCEPT !.failed = TRUE]
    <3>1. req'.failed
      BY <1>0, <1>7, <2>3 DEF SetOnline, Requests
    <3> QED BY <2>1, <3>1 DEF LoginAnsweredOnline, OnlineNext
  <2> QED BY <1>7, <2>2, <2>3 DEF SetOnline
<1>8. CASE UNCHANGED vars
  BY <1>8 DEF vars, LoginAnsweredOnline, OnlineNext
<1> QED
  BY <1>1, <1>2, <1>3, <1>4, <1>5, <1>6, <1>7, <1>8
  DEF Next, LoginStep, BeginRegister, BeginLogin, BeginLogout, Respond, Crash, Restart, SegFault

\* A client is told that it is logged in only when its messages are routed to
\* its connection, or set_online has failed: whatever commands fail.
THEOREM LoginOnlineCorrect == Spec => []LoginAnsweredOnline
<1>1. Init => LoginAnsweredOnline /\ OnlineNext
  BY DEF Init, LoginAnsweredOnline, OnlineNext
<1>2. Control /\ LoginAnsweredOnline /\ OnlineNext /\ [Next]_vars
      => LoginAnsweredOnline' /\ OnlineNext'
  BY LoginOnlineStep
<1> QED BY <1>1, <1>2, ControlCorrect, PTL DEF Spec

-----------------------------------------------------------------------------
(***************************************************************************)
(* The sockfd.  Between the comparison of the password and set_online      *)
(* nothing runs that could change the record that was read.                *)
(***************************************************************************)
PasswordRight == pc = "log_online" => user[req.id].pass = req.pass

LEMMA PasswordRightStep == Control /\ PasswordRight /\ [Next]_vars => PasswordRight'
<1> SUFFICES ASSUME Control, [Next]_vars, PasswordRight, pc' = "log_online"
             PROVE  user'[req'.id].pass = req'.pass
  BY DEF PasswordRight
<1>1. CASE LoginHmget
  <2>1. req \in Requests
    BY <1>1 DEF LoginHmget, Control, CallHasArguments
  <2>2. user[req.id].pass = req.pass /\ req' = [req EXCEPT !.rc = req.id] /\ user' = user
    BY <1>1 DEF LoginHmget, Error, Return, SegFault, redis
  <2> QED BY <2>1, <2>2 DEF Requests
<1>2. CASE ~ LoginHmget
  <2>1. UNCHANGED vars
    BY <1>2 DEF Next, RegisterStep, LoginStep, LogoutStep, BeginRegister, BeginLogin, BeginLogout,
       RegisterHexists, RegisterIncr, RegisterHmset, RegisterHset, LoginHexists, LoginHget,
       SetOnline, LogoutHget, SetOffline, Respond, Crash, Restart, SegFault, Error, Return, Goto
  <2> QED BY <2>1 DEF vars, PasswordRight
<1> QED BY <1>1, <1>2

LEMMA SockfdStep ==
  ASSUME Control, PasswordRight, [Next]_vars, NEW k \in UserId,
         user'[k].sockfd # user[k].sockfd
  PROVE  /\ users[req.name] = k
         /\ \/ req.op = "login" /\ req.pass = user[k].pass /\ user'[k].sockfd = req.fd
            \/ req.op = "logout" /\ user'[k].sockfd = Offline
<1>0. user \in [Key -> Fields] /\ k \in Key
  BY DEF Control, TypeOK, Key
<1>1. CASE SetOnline
  <2>1. req.op = "login" /\ users[req.name] = req.id /\ user[req.id].pass = req.pass
    BY <1>1 DEF SetOnline, Control, CallHasArguments, LookedUp, LoginPc, PasswordRight
  <2>2. user' = [user EXCEPT ![req.id].sockfd = req.fd]
    BY <1>1 DEF SetOnline
  <2> QED BY <1>0, <2>1, <2>2 DEF Fields
<1>2. CASE SetOffline
  <2>1. req.op = "logout" /\ users[req.name] = req.id
    BY <1>2 DEF SetOffline, Control, CallHasArguments, LookedUp, LogoutPc
  <2>2. user' = [user EXCEPT ![req.id].sockfd = Offline]
    BY <1>2 DEF SetOffline, Error, redis
  <2> QED BY <1>0, <2>1, <2>2 DEF Fields
<1>3. CASE RegisterHmset
  <2>1. user' = [user EXCEPT ![req.id].username = req.name, ![req.id].pass = req.pass]
    BY <1>3 DEF RegisterHmset, Error, redis
  <2>2. req.id \in Key
    BY <1>3 DEF RegisterHmset, Control, IdObtained
  <2>3. \A k2 \in Key : user'[k2].sockfd = user[k2].sockfd
    BY <1>0, <2>1, <2>2 DEF Fields
  <2> QED BY <1>0, <2>3
<1>4. CASE ~ SetOnline /\ ~ SetOffline /\ ~ RegisterHmset
  <2>1. user' = user
    BY <1>4 DEF Next, vars, RegisterStep, LoginStep, LogoutStep, BeginRegister, BeginLogin,
       BeginLogout, Receive, RegisterHexists, RegisterIncr, RegisterHset, LoginHexists, LoginHget,
       LoginHmget, LogoutHget, Respond, Crash, Restart, Error, redis
  <2> QED BY <2>1
<1> QED BY <1>1, <1>2, <1>3, <1>4

\* Nobody is put online on a connection but by a login with their password that
\* came from there, nor offline but by a logout of their name: whatever commands
\* fail, and whenever the server dies.
THEOREM SockfdCorrect == Spec => SockfdFollowsCalls
<1>1. Init => PasswordRight
  BY DEF Init, PasswordRight
<1>2. Control /\ PasswordRight /\ [Next]_vars =>
        [\A k \in UserId : user'[k].sockfd # user[k].sockfd =>
           /\ users[req.name] = k
           /\ \/ req.op = "login" /\ req.pass = user[k].pass /\ user'[k].sockfd = req.fd
              \/ req.op = "logout" /\ user'[k].sockfd = Offline]_vars
  BY SockfdStep
<1> QED BY <1>1, <1>2, PasswordRightStep, ControlCorrect, PTL DEF Spec, SockfdFollowsCalls

-----------------------------------------------------------------------------
(***************************************************************************)
(* Orphans.  An id is issued before a record is written under it           *)
(* (IdsIssued), and only once; so an id that is neither in the index nor   *)
(* with the registration in progress is lost for good.                     *)
(***************************************************************************)
Registering == pc \in {"reg_hmset", "reg_hset"}

IdsIssued ==
  /\ Registering => req.id <= next_user_id
  /\ \A k \in UserId : user[k].username # None => k <= next_user_id

Lost(k) ==
  /\ k <= next_user_id
  /\ \A n \in Name : users[n] # k
  /\ Registering => req.id # k

\* The steps of the other calls enter no name, and name no record.
LEMMA OtherSteps ==
  ASSUME Control, Next, ~ RegisterIncr, ~ RegisterHmset, ~ RegisterHset
  PROVE  /\ UNCHANGED <<next_user_id, users>>
         /\ ~ Registering'
         /\ \A k \in Key : user'[k].username = user[k].username
<1>0. /\ user \in [Key -> Fields] /\ UserId \subseteq Key
      /\ pc \notin {"idle", "down"} => req \in Requests /\ req.name \in Name /\ req.fd \in Fd
  BY DEF Control, CallHasArguments, TypeOK, Requests, Key
<1>1. CASE SetOnline \/ SetOffline
  <2>1. req.id \in Key /\ req.fd \in Fd
    BY <1>0, <1>1 DEF SetOnline, SetOffline, Control, LookedUp, TypeOK
  <2>2. CASE user' = user
    BY <1>1, <2>2 DEF SetOnline, SetOffline, Error, Return, redis, Registering
  <2>3. CASE user' # user
    <3>1. PICK fd \in Fd \cup {Offline, None} : user' = [user EXCEPT ![req.id].sockfd = fd]
      BY <1>1, <2>1, <2>3 DEF SetOnline, SetOffline, Error, redis
    <3>2. \A k \in Key : user'[k].username = user[k].username
      BY <1>0, <2>1, <3>1, SetSockfd
    <3> QED BY <1>1, <3>2 DEF SetOnline, SetOffline, Error, Return, redis, Registering
  <2> QED BY <2>2, <2>3
<1>2. CASE ~ SetOnline /\ ~ SetOffline
  BY <1>2 DEF Next, RegisterStep, LoginStep, LogoutStep, BeginRegister, BeginLogin, BeginLogout,
     Receive, RegisterHexists, LoginHexists, LoginHget, LoginHmget, LogoutHget, Respond, Crash,
     Restart, SegFault, Error, Return, Goto, redis, Registering
<1> QED BY <1>1, <1>2

LEMMA IdsIssuedStep == Control /\ IdsIssued /\ [Next]_vars => IdsIssued'
<1> SUFFICES ASSUME Control, IdsIssued, [Next]_vars PROVE IdsIssued'
  OBVIOUS
<1>0. /\ next_user_id \in Nat /\ user \in [Key -> Fields] /\ UserId \subseteq Key
      /\ Key \subseteq Int
      /\ pc \notin {"idle", "down"} => req \in Requests /\ req.name \in Name /\ req.pass \in Pass
  BY Codes DEF Control, CallHasArguments, TypeOK, Requests, Key
<1>1. CASE RegisterIncr
  <2>1. next_user_id <= next_user_id' /\ next_user_id' \in Nat /\ user' = user
    BY <1>0, <1>1 DEF RegisterIncr
  <2>2. req'.id <= next_user_id'
    <3>1. req \in Requests
      BY <1>0, <1>1 DEF RegisterIncr
    <3>2. CASE next_user_id' = next_user_id + 1 /\ req' = [req EXCEPT !.id = next_user_id + 1]
      BY <1>0, <3>1, <3>2 DEF Requests
    <3>3. CASE next_user_id' = next_user_id /\ req' = [req EXCEPT !.id = ERROR_NORMAL]
      BY <1>0, <3>1, <3>3 DEF Requests, ERROR_NORMAL
    <3> QED BY <1>1, <3>2, <3>3 DEF RegisterIncr
  <2>3. \A k \in UserId : user'[k].username # None => k <= next_user_id'
    BY <1>0, <2>1 DEF IdsIssued
  <2> QED BY <2>2, <2>3 DEF IdsIssued
<1>2. CASE RegisterHmset
  <2>1. Registering /\ req.id \in Key /\ req.id <= next_user_id
    BY <1>2 DEF RegisterHmset, Registering, IdsIssued, Control, IdObtained
  <2>2. CASE Error("HMSET")
    BY <1>0, <1>2, <2>2, Errors DEF RegisterHmset, IdsIssued, Registering, redis
  <2>3. CASE ~ Error("HMSET")
    <3>1. /\ user' = [user EXCEPT ![req.id].username = req.name, ![req.id].pass = req.pass]
          /\ UNCHANGED <<req, next_user_id>>
      BY <1>2, <2>3 DEF RegisterHmset, Goto
    <3>2. \A k \in Key \ {req.id} : user'[k] = user[k]
      BY <1>0, <1>2, <2>1, <3>1, NewAccount DEF RegisterHmset
    <3> QED BY <1>0, <2>1, <3>1, <3>2 DEF IdsIssued
  <2> QED BY <2>2, <2>3
<1>3. CASE RegisterHset
  BY <1>3 DEF RegisterHset, Error, Return, redis, IdsIssued, Registering
<1>4. CASE Next /\ ~ RegisterIncr /\ ~ RegisterHmset /\ ~ RegisterHset
  BY <1>0, <1>4, OtherSteps DEF IdsIssued
<1>5. CASE UNCHANGED vars
  BY <1>5 DEF vars, IdsIssued, Registering
<1> QED BY <1>1, <1>2, <1>3, <1>4, <1>5

LEMMA LostStep ==
  ASSUME NEW k \in UserId, Control, Lost(k), [Next]_vars
  PROVE  Lost(k)'
<1>0. /\ next_user_id \in Nat /\ k \in Nat \ {0} /\ users \in [Name -> Key \cup {None}]
      /\ pc \notin {"idle", "down"} => req \in Requests /\ req.name \in Name
  BY MaxIdAssumption DEF Control, CallHasArguments, TypeOK, Requests, UserId
<1>1. CASE RegisterIncr
  <2>1. next_user_id <= next_user_id' /\ next_user_id' \in Nat /\ users' = users
    BY <1>0, <1>1 DEF RegisterIncr
  <2>2. req'.id # k
    <3>1. req \in Requests
      BY <1>0, <1>1 DEF RegisterIncr
    <3>2. req'.id = next_user_id + 1 \/ req'.id = ERROR_NORMAL
      BY <1>1, <3>1 DEF RegisterIncr, Requests
    <3> QED BY <1>0, <3>2 DEF Lost, ERROR_NORMAL
  <2> QED BY <1>0, <2>1, <2>2 DEF Lost
<1>2. CASE RegisterHmset
  <2>1. UNCHANGED <<next_user_id, users>> /\ (Registering' => req' = req)
    BY <1>2 DEF RegisterHmset, Error, Return, Goto, redis, Registering
  <2>2. Registering
    BY <1>2 DEF RegisterHmset, Registering
  <2> QED BY <2>1, <2>2 DEF Lost
<1>3. CASE RegisterHset
  <2>1. req.id # k /\ req.name \in Name
    BY <1>0, <1>3 DEF RegisterHset, Lost, Registering
  <2>2. next_user_id' = next_user_id /\ ~ Registering'
    BY <1>3 DEF RegisterHset, Error, Return, redis, Registering
  <2>3. \A n \in Name : users'[n] # k
    BY <1>0, <1>3, <2>1 DEF RegisterHset, Error, redis, Lost
  <2> QED BY <2>2, <2>3 DEF Lost
<1>4. CASE Next /\ ~ RegisterIncr /\ ~ RegisterHmset /\ ~ RegisterHset
  BY <1>4, OtherSteps DEF Lost
<1>5. CASE UNCHANGED vars
  BY <1>5 DEF vars, Lost, Registering
<1> QED BY <1>1, <1>2, <1>3, <1>4, <1>5

\* A record that the death of the server or a failed command left without an
\* index entry never gets one, whatever commands fail: the registration that is
\* tried again is given a fresh id, or the -1 of a failed INCR.
THEOREM OrphansStay == Spec => OrphanStaysOrphan
<1>1. Spec => []IdsIssued
  <2>1. Init => IdsIssued
    BY DEF Init, IdsIssued, Registering, NoFields, Key
  <2> QED BY <2>1, IdsIssuedStep, ControlCorrect, PTL DEF Spec
<1>2. ASSUME NEW k \in UserId
      PROVE  Spec => [](Orphan(k) => [](\A n \in Name : users[n] # k))
  <2>1. IdsIssued /\ Orphan(k) => Lost(k)
    BY DEF IdsIssued, Orphan, Lost, Registering
  <2>2. Control /\ Lost(k) /\ [Next]_vars => Lost(k)'
    BY LostStep
  <2>3. Lost(k) => \A n \in Name : users[n] # k
    BY DEF Lost
  <2> QED BY <1>1, <2>1, <2>2, <2>3, ControlCorrect, PTL DEF Spec
<1> QED BY <1>2 DEF OrphanStaysOrphan

-----------------------------------------------------------------------------
(***************************************************************************)
(* Refinement of Registry.tla.  Entering the name in the index (the HSET   *)
(* of a registration) is the step that registers; the answer is the step   *)
(* that must be truthful; nothing else shows.                              *)
(***************************************************************************)
theAccounts == [n \in Name |-> AccountOf(n)]

\* A step that changes neither the index nor a password changes no account.
LEMMA AccountsKept ==
  ASSUME Control, users' = users,
         \A n \in Name : users[n] # None => user'[users[n]].pass = user[users[n]].pass
  PROVE  theAccounts' = theAccounts
  BY DEF theAccounts, AccountOf

LEMMA AccountTypes ==
  ASSUME Control, Sound, NEW n \in Name
  PROVE  /\ n \in TheRegistry!Registered <=> users[n] # None
         /\ users[n] # None =>
              /\ theAccounts[n] = [id |-> users[n], pass |-> user[users[n]].pass]
              /\ users[n] \in UserId
<1>1. theAccounts[n] = AccountOf(n)
  BY DEF theAccounts
<1>2. CASE users[n] = None
  BY <1>1, <1>2 DEF TheRegistry!Registered, theAccounts, AccountOf
<1>3. CASE users[n] # None
  <2>1. users[n] \in UserId /\ users[n] \in Key
    <3>1. next_user_id \in 0 .. MaxId
      BY DEF Control, TypeOK
    <3>2. users[n] \in 1 .. next_user_id
      BY <1>3 DEF Sound, Data, IdsGenerated
    <3>3. users[n] \in Int /\ 1 <= users[n] /\ users[n] <= MaxId
      BY <3>1, <3>2, MaxIdAssumption
    <3> QED BY <3>3, MaxIdAssumption DEF UserId, Key
  <2>2. user[users[n]].pass \in Pass
    BY <1>3, <2>1 DEF Control, TypeOK, Fields, Sound, Data, IndexSound
  <2>3. [id |-> users[n], pass |-> user[users[n]].pass] # None
    <3>1. users[n] \in Int
      BY <2>1 DEF UserId
    <3>2. [id |-> users[n], pass |-> user[users[n]].pass] \in [id : Int, pass : Pass]
      BY <3>1, <2>2
    <3> QED BY <3>2, NoneAssumption
  <2> QED
    BY <1>1, <1>3, <2>1, <2>3 DEF TheRegistry!Registered, theAccounts, AccountOf
<1> QED BY <1>2, <1>3

LEMMA StepImplementsRegistry ==
  ASSUME "INCR" \notin Faulty, Control, Sound, Control', Sound', [Next]_vars
  PROVE  [TheRegistry!Next]_(TheRegistry!vars)
<1> USE DEF TheRegistry!vars
<1>1. CASE UNCHANGED <<users, user, answer>>
  BY <1>1 DEF AccountOf
<1>2. ASSUME users' = users, answer' = answer,
             \A n \in Name : users[n] # None => user'[users[n]].pass = user[users[n]].pass
      PROVE  UNCHANGED TheRegistry!vars
  BY <1>2, AccountsKept DEF theAccounts
<1>3. CASE RegisterHmset
  <2>1. CASE Error("HMSET")
    BY <1>1, <2>1 DEF Error, Return, redis
  <2>2. CASE ~ Error("HMSET")
    <3>1. /\ user' = [user EXCEPT ![req.id].username = req.name, ![req.id].pass = req.pass]
          /\ UNCHANGED <<users, answer>>
      BY <1>3, <2>2 DEF RegisterHmset, Goto
    <3>2. /\ req.id \in Key /\ req.name \in Name /\ req.pass \in Pass
          /\ user \in [Key -> Fields] /\ \A n \in Name : users[n] # req.id
      BY <1>3 DEF RegisterHmset, Control, CallHasArguments, Requests, TypeOK, IdObtained, Sound, IdFresh
    <3>3. \A k \in Key \ {req.id} : user'[k] = user[k]
      BY <3>1, <3>2, NewAccount
    <3>4. \A n \in Name : users[n] # None => users[n] \in Key \ {req.id}
      BY <3>2 DEF Control, TypeOK
    <3> QED BY <1>2, <3>1, <3>3, <3>4
  <2> QED BY <2>1, <2>2
<1>4. CASE RegisterHset
  <2>1. CASE Error("HSET")
    BY <1>1, <2>1 DEF Error, Return, redis
  <2>2. CASE ~ Error("HSET")
    <3>1. /\ users' = [users EXCEPT ![req.name] = req.id] /\ Return(req.id)
          /\ UNCHANGED <<next_user_id, user, answer>>
      BY <1>4, <2>2 DEF RegisterHset, Return
    <3>2. /\ req.id \in UserId /\ \A n \in Name : users[n] # req.id
          /\ user[req.id].pass = req.pass
          /\ req.name \in Name /\ req.pass \in Pass /\ users[req.name] = None
          /\ users \in [Name -> Key \cup {None}]
      BY <1>4 DEF RegisterHset, Sound, IdFresh, RecordWritten, Control, TypeOK,
         CallHasArguments, LookedUp, Requests
    <3>3. /\ users'[req.name] = req.id
          /\ \A n \in Name \ {req.name} : users'[n] = users[n]
      BY <3>1, <3>2
    <3>4. req.id # None
      BY <3>2, NoneAssumption DEF UserId
    <3>5. theAccounts' = [theAccounts EXCEPT ![req.name] = [id |-> req.id, pass |-> req.pass]]
      BY <3>1, <3>2, <3>3, <3>4 DEF theAccounts, AccountOf
    <3>6. req.name \notin TheRegistry!Registered
      BY <3>2, AccountTypes
    <3>7. \A m \in TheRegistry!Registered : theAccounts[m].id # req.id
      <4> SUFFICES ASSUME NEW m \in TheRegistry!Registered PROVE theAccounts[m].id # req.id
        OBVIOUS
      <4>1. m \in Name
        BY DEF TheRegistry!Registered
      <4>2. users[m] # None
        BY <4>1, AccountTypes
      <4>3. theAccounts[m] = [id |-> users[m], pass |-> user[users[m]].pass]
        BY <4>1, <4>2, AccountTypes
      <4>4. theAccounts[m].id = users[m]
        BY <4>3
      <4> QED BY <3>2, <4>1, <4>4
    <3>8. TheRegistry!Register(req.name, req.pass, req.id)
      BY <3>1, <3>5, <3>6, <3>7 DEF TheRegistry!Register, theAccounts
    <3> QED BY <3>2, <3>8 DEF TheRegistry!Next
  <2> QED BY <2>1, <2>2
<1>5. ASSUME NEW k \in Key, NEW fd \in Fd \cup {Offline, None},
             user' = [user EXCEPT ![k].sockfd = fd], users' = users, answer' = answer
      PROVE  UNCHANGED TheRegistry!vars
  <2>1. \A k2 \in Key : user'[k2].pass = user[k2].pass
    BY <1>5, SetSockfd DEF Control, TypeOK
  <2>2. \A n \in Name : users[n] # None => users[n] \in Key
    BY DEF Control, TypeOK
  <2> QED BY <1>2, <1>5, <2>1, <2>2
<1>6. CASE SetOnline
  <2>1. req.id \in Key /\ req.fd \in Fd
    BY <1>6 DEF SetOnline, Control, CallHasArguments, LookedUp, Requests, TypeOK
  <2> QED BY <1>1, <1>5, <1>6, <2>1 DEF SetOnline, Goto
<1>7. CASE SetOffline
  <2>1. req.id \in Key
    BY <1>7 DEF SetOffline, Control, CallHasArguments, LookedUp, Requests, TypeOK
  <2> QED BY <1>1, <1>5, <1>7, <2>1 DEF SetOffline, Error, Return, redis
<1>8. CASE Respond
  <2> DEFINE a == [op |-> req.op, name |-> req.name, pass |-> req.pass, rc |-> req.rc]
  <2>1. /\ req \in Requests /\ req.name \in Name /\ req.op \in Ops /\ req.pass \in Pass
        /\ ResultTrue /\ pc = "return" /\ answer' = a /\ UNCHANGED <<users, user>>
    BY <1>8 DEF Respond, Control, CallHasArguments, Requests, Sound, redis
  <2>2. /\ req.name \in TheRegistry!Registered <=> users[req.name] # None
        /\ users[req.name] # None =>
             /\ theAccounts[req.name] = [id |-> users[req.name], pass |-> user[users[req.name]].pass]
             /\ users[req.name] \in UserId
    BY <2>1, AccountTypes
  <2>3. TheRegistry!Truthful(a)
    BY <2>1, <2>2
    DEF ResultTrue, TheRegistry!Truthful, theAccounts, ERROR_NORMAL, ERROR_USER_EXISTS,
        ERROR_USER_NOTEXISTS, TheRegistry!ERROR_NORMAL, TheRegistry!ERROR_USER_EXISTS,
        TheRegistry!ERROR_USER_NOTEXISTS
  <2>4. a \in TheRegistry!Answers
    BY <2>1, <2>2
    DEF ResultTrue, TheRegistry!Answers, TheRegistry!ReplyCode, Ops, ERROR_NORMAL,
        ERROR_USER_EXISTS, ERROR_USER_NOTEXISTS, TheRegistry!ERROR_NORMAL,
        TheRegistry!ERROR_USER_EXISTS, TheRegistry!ERROR_USER_NOTEXISTS
  <2>5. theAccounts' = theAccounts
    BY <2>1, AccountsKept
  <2>6. TheRegistry!Answer(a)
    BY <2>1, <2>3, <2>5 DEF TheRegistry!Answer, theAccounts
  <2> QED BY <2>4, <2>6 DEF TheRegistry!Next
<1> QED
  BY <1>1, <1>3, <1>4, <1>6, <1>7, <1>8
  DEF Next, vars, redis, RegisterStep, LoginStep, LogoutStep, BeginRegister, BeginLogin,
      BeginLogout, Receive, RegisterHexists, RegisterIncr, LoginHexists, LoginHget, LoginHmget,
      LogoutHget, Crash, Restart, SegFault, Error, Return, Goto

\* The dao implements the registry, through crashes and failed commands: one
\* id per name, accounts that never change, truthful answers.
THEOREM RegistryImplemented ==
  ASSUME "INCR" \notin Faulty
  PROVE  Spec => ImplementsRegistry
<1>1. Init => TheRegistry!Init
  BY DEF Init, TheRegistry!Init, AccountOf
<1>2. Control /\ Sound /\ Control' /\ Sound' /\ [Next]_vars
      => [TheRegistry!Next]_(TheRegistry!vars)
  BY StepImplementsRegistry
<1> QED
  BY <1>1, <1>2, ControlCorrect, SoundCorrect, PTL DEF Spec, ImplementsRegistry, TheRegistry!Spec
=============================================================================
