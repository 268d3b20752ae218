------------------------------ MODULE Registry ------------------------------
(***************************************************************************)
(* What the account functions of dao.h promise: a name is registered once, *)
(* with an id no other name has; an account never changes or disappears;   *)
(* and an answer tells the truth about the accounts.                       *)
(***************************************************************************)
EXTENDS Integers

CONSTANTS Name, Pass, UserId, None

VARIABLES
  accounts,  \* for each name its [id, pass], or None
  answer     \* the last answer given to a client: [op, name, pass, rc]

vars == <<accounts, answer>>

ERROR_NORMAL == -1
ERROR_USER_EXISTS == -2
ERROR_USER_NOTEXISTS == -3

Registered == {n \in Name : accounts[n] # None}

ReplyCode == UserId \cup {ERROR_NORMAL, ERROR_USER_EXISTS, ERROR_USER_NOTEXISTS}
Answers == [op : {"register", "login", "logout"}, name : Name, pass : Pass,
            rc : ReplyCode]

Init == accounts = [n \in Name |-> None] /\ answer = None

Register(n, p, id) ==
  /\ n \notin Registered
  /\ \A m \in Registered : accounts[m].id # id
  /\ accounts' = [accounts EXCEPT ![n] = [id |-> id, pass |-> p]]
  /\ UNCHANGED answer

(***************************************************************************)
(* A positive answer is the id of the account, and to a login or a         *)
(* registration it is given only for the account's password.               *)
(***************************************************************************)
Truthful(a) ==
  \/ a.rc = ERROR_NORMAL
  \/ a.rc = ERROR_USER_EXISTS /\ a.op = "register" /\ a.name \in Registered
  \/ a.rc = ERROR_USER_NOTEXISTS /\ a.op = "login" /\ a.name \notin Registered
  \/ /\ a.name \in Registered
     /\ a.rc = accounts[a.name].id
     /\ a.op # "logout" => a.pass = accounts[a.name].pass

Answer(a) == Truthful(a) /\ answer' = a /\ UNCHANGED accounts

Next ==
  \/ \E n \in Name, p \in Pass, id \in UserId : Register(n, p, id)
  \/ \E a \in Answers : Answer(a)

Spec == Init /\ [][Next]_vars
=============================================================================
