------------------------------- MODULE FdMap -------------------------------
(***************************************************************************)
(* What a user of lib/hashtable.h expects: a map from keys to values of    *)
(* bounded size, and one call at a time.  get returns the value last set   *)
(* and not yet deleted, delete returns it and forgets it, set binds it     *)
(* unless Cap keys are bound already; no call ends without its effect.     *)
(***************************************************************************)
EXTENDS Naturals, FiniteSets

CONSTANTS Cap, Key, Value, Null, Overflow

VARIABLES
  map,      \* the value each key is bound to, or Null
  pending,  \* the call in progress: a set of at most one
  ret       \* the result of the last call that returned one

vars == <<map, pending, ret>>

Calls == [op : {"get", "delete"}, key : Key, value : {Null}]
           \cup [op : {"set"}, key : Key, value : Value]

Full == Cardinality({k \in Key : map[k] # Null}) >= Cap

Init == map = [k \in Key |-> Null] /\ pending = {} /\ ret = Null

Invoke(c) == pending = {} /\ pending' = {c} /\ UNCHANGED <<map, ret>>

Returns(op, c) == c \in pending /\ c.op = op /\ pending' = {}

Get(c) == Returns("get", c) /\ ret' = map[c.key] /\ UNCHANGED map

Set(c) == /\ Returns("set", c)
          /\ ~ Full
          /\ map' = [map EXCEPT ![c.key] = c.value]
          /\ UNCHANGED ret

RefuseSet == pending = {} /\ Full /\ ret' = Overflow /\ UNCHANGED <<map, pending>>

Delete(c) == /\ Returns("delete", c)
             /\ map' = [map EXCEPT ![c.key] = Null]
             /\ ret' = map[c.key]

Next == RefuseSet \/ \E c \in Calls : Invoke(c) \/ Get(c) \/ Set(c) \/ Delete(c)

Spec == Init /\ [][Next]_vars
=============================================================================
