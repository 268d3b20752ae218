----------------------------- MODULE HashTable -----------------------------
(***************************************************************************)
(* lib/hashtable.c as a state machine: one caller (the server is single    *)
(* threaded) makes calls, and every iteration of a probe loop is a step.   *)
(* A call is the record of the C function's arguments and of its local h.  *)
(***************************************************************************)
EXTENDS LinearProbing, FiniteSets

CONSTANTS
  Ops,      \* the operations the caller uses, a subset of AllOps
  Overflow  \* the "[ERROR] HashTable overflow." line of hash_set

AllOps == {"get", "set", "delete"}
ASSUME OpsAssumption == Ops \subseteq AllOps

VARIABLES
  hashTable,  \* hm->hashTable
  size,       \* hm->size
  call,       \* the call in progress, or Null
  ret         \* the result of the last call that returned one

vars == <<hashTable, size, call, ret>>

Calls == [op : {"get", "delete"}, key : Key, value : {Null}, h : Slot]
           \cup [op : {"set"}, key : Key, value : Value, h : Slot]

ASSUME NoCallAssumption == Null \notin Calls

TypeOK ==
  /\ hashTable \in Table
  /\ size \in Int
  /\ call \in Calls \cup {Null}
  /\ ret \in Value \cup {Null, Overflow}

Init ==
  /\ hashTable = EmptyTable
  /\ size = 0
  /\ call = Null
  /\ ret = Null

-----------------------------------------------------------------------------
(***************************************************************************)
(* Entering a function: h is set to the hash of the key.                   *)
(***************************************************************************)
\* Mutant of Enter: the loop starts beyond the home slot.
EnterBeyondHome(op, k, v) ==
  /\ call = Null
  /\ op \in Ops
  /\ call' = [op |-> op, key |-> k, value |-> v, h |-> NextSlot(Hash(k))]
  /\ UNCHANGED <<hashTable, size, ret>>

Enter(op, k, v) ==
  /\ call = Null
  /\ op \in Ops
  /\ call' = [op |-> op, key |-> k, value |-> v, h |-> Hash(k)]
  /\ UNCHANGED <<hashTable, size, ret>>

CallGet(k) == Enter("get", k, Null)
CallDelete(k) == Enter("delete", k, Null)

\* Mutant of CallSet: the overflow test is off by one.
CallSetInFull(k, v) == size <= Cap /\ Enter("set", k, v)

CallSet(k, v) == size < Cap /\ Enter("set", k, v)

\* hash_set tests for overflow before it looks for the key.
OverflowSet ==
  /\ call = Null
  /\ "set" \in Ops
  /\ size >= Cap
  /\ ret' = Overflow
  /\ UNCHANGED <<hashTable, size, call>>

-----------------------------------------------------------------------------
(***************************************************************************)
(* The loop body: slot h holds another key.  The loops of find, hash_set   *)
(* and hash_delete are written out in each, and are the same.              *)
(***************************************************************************)
\* Mutants of ProbeNext: one of the loops, that of hash_set or that of find,
\* increments h twice.
ProbeSetByTwo ==
  /\ call # Null
  /\ ~ Stops(hashTable, call.h, call.key)
  /\ call' = [call EXCEPT !.h = IF call.op = "set" THEN NextSlot(NextSlot(@)) ELSE NextSlot(@)]
  /\ UNCHANGED <<hashTable, size, ret>>

ProbeGetByTwo ==
  /\ call # Null
  /\ ~ Stops(hashTable, call.h, call.key)
  /\ call' = [call EXCEPT !.h = IF call.op = "get" THEN NextSlot(NextSlot(@)) ELSE NextSlot(@)]
  /\ UNCHANGED <<hashTable, size, ret>>

ProbeNext ==
  /\ call # Null
  /\ ~ Stops(hashTable, call.h, call.key)
  /\ call' = [call EXCEPT !.h = NextSlot(@)]
  /\ UNCHANGED <<hashTable, size, ret>>

\* The loop of operation op ends, on an empty slot or on a node of the key.
AtEmpty(op) == call # Null /\ call.op = op /\ hashTable[call.h] = Null
AtNode(op) == call # Null /\ call.op = op /\ Holds(hashTable, call.h, call.key)

GetHit ==
  /\ AtNode("get")
  /\ ret' = hashTable[call.h].value
  /\ call' = Null
  /\ UNCHANGED <<hashTable, size>>

Miss ==
  /\ AtEmpty("get") \/ AtEmpty("delete")
  /\ ret' = Null
  /\ call' = Null
  /\ UNCHANGED <<hashTable, size>>

SetUpdate ==
  /\ AtNode("set")
  /\ hashTable' = [hashTable EXCEPT ![call.h] = [key |-> call.key, value |-> call.value]]
  /\ call' = Null
  /\ UNCHANGED <<size, ret>>

SetInsert ==
  /\ AtEmpty("set")
  /\ hashTable' = [hashTable EXCEPT ![call.h] = [key |-> call.key, value |-> call.value]]
  /\ size' = size + 1
  /\ call' = Null
  /\ UNCHANGED ret

\* Mutants of DeleteHit: the node is not counted off, or not unlinked.
DeleteKeepsSize ==
  /\ AtNode("delete")
  /\ ret' = hashTable[call.h].value
  /\ hashTable' = [hashTable EXCEPT ![call.h] = Null]
  /\ call' = Null
  /\ UNCHANGED size

DeleteKeepsNode ==
  /\ AtNode("delete")
  /\ ret' = hashTable[call.h].value
  /\ size' = size - 1
  /\ call' = Null
  /\ UNCHANGED hashTable

DeleteHit ==
  /\ AtNode("delete")
  /\ ret' = hashTable[call.h].value
  /\ hashTable' = [hashTable EXCEPT ![call.h] = Null]
  /\ size' = size - 1
  /\ call' = Null

-----------------------------------------------------------------------------
Caller ==
  \/ OverflowSet
  \/ \E k \in Key : \/ CallGet(k)
                    \/ CallDelete(k)
                    \/ \E v \in Value : CallSet(k, v)

Loop == ProbeNext \/ GetHit \/ Miss \/ SetUpdate \/ SetInsert \/ DeleteHit

Next == Caller \/ Loop

Spec == Init /\ [][Next]_vars

\* The loop contains nothing that waits: it runs as long as it can.
FairSpec == Spec /\ WF_vars(Loop)

-----------------------------------------------------------------------------
(***************************************************************************)
(* Properties                                                              *)
(***************************************************************************)

\* hm->size, which the overflow test of hash_set relies on, is the number
\* of nodes in the table, whatever order nodes are added and freed in.
SizeIsCount == size = Cardinality(Occupied(hashTable))

\* Every slot the loop of the call in progress has passed since its key's
\* home slot holds another key, so the slot it stops at is the first that
\* could hold the key: the loop computes ProbeEnd.
ProbeSkipsOthers ==
  call # Null =>
    \E i \in Slot :
      /\ call.h = Probe(Hash(call.key), i)
      /\ \A j \in 0 .. i - 1 :
           ~ Stops(hashTable, Probe(Hash(call.key), j), call.key)

\* A node is where the search for its key ends: hash_get and hash_delete
\* find every key that hash_set stored, and no key is stored twice.
EveryNodeFound == NodesFound(hashTable)

\* The loop of the call in progress finds no slot to stop at.
Endless == call # Null /\ Diverges(hashTable, call.key)

\* Only a search can be endless, and only in a full table: the overflow test of
\* hash_set, which counts, leaves every loop of its own an empty slot.
EndlessWhenFull == Endless => size = Cap /\ call.op # "set"

\* Every other call of hash_get, hash_set or hash_delete returns: wherever it
\* starts, its loop comes to the one slot that stops it.
CallReturns == (call # Null) ~> (call = Null \/ Endless)

\* The table implements the map its callers expect: each call has the effect
\* and the result that the map's call with the same arguments has, and has
\* them when its loop ends.
InProgress ==
  IF call = Null THEN {}
  ELSE {[op |-> call.op, key |-> call.key, value |-> call.value]}
Map == INSTANCE FdMap WITH map <- [k \in Key |-> Lookup(hashTable, k)],
                           pending <- InProgress
ImplementsMap == Map!Spec
=============================================================================
