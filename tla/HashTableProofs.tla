-------------------------- MODULE HashTableProofs --------------------------
(***************************************************************************)
(* Theorems about lib/hashtable.c, for every capacity, set of keys and set *)
(* of values.                                                              *)
(*                                                                         *)
(* Whatever the caller does, the size is right (SizeCorrect) and a loop    *)
(* only passes slots of other keys (ProbeCorrect).  The nodes are found    *)
(* again, and the table implements a map, in two regimes: the caller never *)
(* deletes, or no two of its keys share a home slot, as descriptors below  *)
(* the capacity do not.                                                    *)
(***************************************************************************)
EXTENDS HashTable, LinearProbingProofs

-----------------------------------------------------------------------------
\* Every variable keeps its type: in particular the loop never leaves the
\* array, whatever the key.
THEOREM TypeCorrect == Spec => []TypeOK
<1>1. Init => TypeOK
  BY DEF Init, TypeOK, EmptyTable, Table, Slot
<1>2. TypeOK /\ [Next]_vars => TypeOK'
  <2> SUFFICES ASSUME TypeOK, [Next]_vars PROVE TypeOK'
    OBVIOUS
  <2> USE DEF TypeOK
  <2>1. ASSUME NEW k \in Key, CallGet(k) \/ CallDelete(k) PROVE TypeOK'
    BY <2>1, HashSlot DEF CallGet, CallDelete, Enter, Calls, AllOps
  <2>2. ASSUME NEW k \in Key, NEW v \in Value, CallSet(k, v) PROVE TypeOK'
    BY <2>2, HashSlot DEF CallSet, Enter, Calls, AllOps
  <2>3. CASE OverflowSet
    BY <2>3 DEF OverflowSet
  <2>4. CASE ProbeNext
    <3>1. call \in Calls /\ call.h \in Slot
      BY <2>4 DEF ProbeNext, Calls
    <3> QED BY <2>4, <3>1, NextSlotSlot DEF ProbeNext, Calls
  <2>5. CASE GetHit
    <3>1. hashTable[call.h] \in Node
      BY <2>5 DEF GetHit, AtNode, Holds, Table, Calls
    <3> QED BY <2>5, <3>1 DEF GetHit, Node
  <2>6. CASE Miss
    BY <2>6 DEF Miss
  <2>7. CASE SetUpdate \/ SetInsert
    <3>1. call \in Calls /\ call.op = "set"
      BY <2>7 DEF SetUpdate, SetInsert, AtNode, AtEmpty
    <3>2. [key |-> call.key, value |-> call.value] \in Node /\ call.h \in Slot
      BY <3>1 DEF Calls, Node
    <3>3. hashTable' = [hashTable EXCEPT ![call.h] = [key |-> call.key, value |-> call.value]]
      BY <2>7 DEF SetUpdate, SetInsert
    <3>4. hashTable' \in Table
      BY <3>2, <3>3 DEF Table
    <3> QED BY <2>7, <3>4 DEF SetUpdate, SetInsert
  <2>8. CASE DeleteHit
    <3>1. hashTable[call.h] \in Node
      BY <2>8 DEF DeleteHit, AtNode, Holds, Table, Calls
    <3>2. hashTable' \in Table
      BY <2>8 DEF DeleteHit, Table
    <3>3. ret' \in Value /\ size' \in Int
      BY <2>8, <3>1 DEF DeleteHit, Node
    <3> QED BY <2>8, <3>2, <3>3 DEF DeleteHit
  <2>9. CASE UNCHANGED vars
    BY <2>9 DEF vars
  <2> QED
    BY <2>1, <2>2, <2>3, <2>4, <2>5, <2>6, <2>7, <2>8, <2>9
    DEF Next, Caller, Loop
<1> QED BY <1>1, <1>2, PTL DEF Spec

-----------------------------------------------------------------------------
\* What filling, changing and emptying a slot does to the occupied slots.
LEMMA OccupiedFill ==
  ASSUME NEW t \in [Slot -> Node \cup {Null}], NEW s \in Slot, NEW n, n # Null
  PROVE  Occupied([t EXCEPT ![s] = n]) = Occupied(t) \cup {s}
  BY DEF Occupied

LEMMA OccupiedEmpty ==
  ASSUME NEW t \in [Slot -> Node \cup {Null}], NEW s \in Slot
  PROVE  Occupied([t EXCEPT ![s] = Null]) = Occupied(t) \ {s}
  BY DEF Occupied

\* In a reachable state the node that set is about to write is a node, so
\* not Null, and it is about to write it to a slot.
LEMMA SetWritesNode ==
  ASSUME TypeOK, call # Null, call.op = "set"
  PROVE  /\ call.h \in Slot
         /\ call.key \in Key
         /\ call.value \in Value
         /\ [key |-> call.key, value |-> call.value] \in Node
         /\ [key |-> call.key, value |-> call.value] # Null
  BY NullAssumption DEF TypeOK, Calls, Node

\* hm->size, which the overflow test of hash_set relies on, is the number of
\* nodes, for every sequence of calls.
THEOREM SizeCorrect == Spec => []SizeIsCount
<1>1. Init => SizeIsCount
  <2>1. Occupied(EmptyTable) = {}
    BY DEF Occupied, EmptyTable
  <2> QED BY <2>1, FS_EmptySet DEF Init, SizeIsCount
<1>2. TypeOK /\ SizeIsCount /\ [Next]_vars => SizeIsCount'
  <2> SUFFICES ASSUME TypeOK, SizeIsCount, [Next]_vars PROVE SizeIsCount'
    OBVIOUS
  <2>0. hashTable \in [Slot -> Node \cup {Null}]
    BY DEF TypeOK, Table
  <2>1. CASE UNCHANGED <<hashTable, size>>
    BY <2>1 DEF SizeIsCount
  <2>2. CASE SetUpdate
    <3>1. call.h \in Occupied(hashTable)
      BY <2>2, SetWritesNode DEF SetUpdate, AtNode, Holds, Occupied
    <3>2. Occupied(hashTable') = Occupied(hashTable) \cup {call.h}
      BY <2>0, <2>2, SetWritesNode, OccupiedFill DEF SetUpdate, AtNode
    <3>3. Occupied(hashTable') = Occupied(hashTable)
      BY <3>1, <3>2
    <3> QED BY <2>2, <3>3 DEF SetUpdate, SizeIsCount
  <2>3. CASE SetInsert
    <3>1. call.h \notin Occupied(hashTable)
      BY <2>3 DEF SetInsert, AtEmpty, Occupied
    <3>2. Occupied(hashTable') = Occupied(hashTable) \cup {call.h}
      BY <2>0, <2>3, SetWritesNode, OccupiedFill DEF SetInsert, AtEmpty
    <3>3. Cardinality(Occupied(hashTable')) = Cardinality(Occupied(hashTable)) + 1
      BY <3>1, <3>2, OccupiedFinite, FS_AddElement
    <3> QED BY <2>3, <3>3 DEF SetInsert, SizeIsCount
  <2>4. CASE DeleteHit
    <3>1. call.h \in Slot /\ call.h \in Occupied(hashTable)
      BY <2>4 DEF DeleteHit, AtNode, Holds, Occupied, TypeOK, Calls
    <3>2. Occupied(hashTable') = Occupied(hashTable) \ {call.h}
      BY <2>0, <2>4, <3>1, OccupiedEmpty DEF DeleteHit
    <3>3. Cardinality(Occupied(hashTable')) = Cardinality(Occupied(hashTable)) - 1
      BY <3>1, <3>2, OccupiedFinite, FS_RemoveElement
    <3> QED BY <2>4, <3>3 DEF DeleteHit, SizeIsCount
  <2> QED
    BY <2>1, <2>2, <2>3, <2>4
    DEF Next, Caller, Loop, vars, OverflowSet, CallGet, CallDelete, CallSet, Enter,
        ProbeNext, GetHit, Miss
<1> QED BY <1>1, <1>2, TypeCorrect, PTL DEF Spec

-----------------------------------------------------------------------------
\* The loop of a call has passed slots of other keys only: where it stops is
\* where the search for its key ends.  The table does not change under it,
\* for the caller waits.
THEOREM ProbeCorrect == Spec => []ProbeSkipsOthers
<1>1. Init => ProbeSkipsOthers
  BY DEF Init, ProbeSkipsOthers
<1>2. TypeOK /\ ProbeSkipsOthers /\ [Next]_vars => ProbeSkipsOthers'
  <2> SUFFICES ASSUME TypeOK, ProbeSkipsOthers, [Next]_vars, call' # Null
               PROVE  ProbeSkipsOthers'
    BY DEF ProbeSkipsOthers
  <2>1. CASE UNCHANGED vars
    BY <2>1 DEF vars, ProbeSkipsOthers
  <2>2. ASSUME NEW k \in Key, call'.h = Hash(k), call'.key = k PROVE ProbeSkipsOthers'
    <3>1. 0 \in Slot /\ Probe(Hash(k), 0) = Hash(k)
      BY HashSlot, ProbeStart
    <3> QED BY <2>2, <3>1 DEF ProbeSkipsOthers
  <2>3. CASE ProbeNext
    <3> DEFINE k == call.key
    <3>1. k \in Key /\ Hash(k) \in Slot /\ call'.key = k /\ call'.h = NextSlot(call.h)
      BY <2>3, HashSlot DEF ProbeNext, TypeOK, Calls
    <3>2. PICK i \in Slot : /\ call.h = Probe(Hash(k), i)
                            /\ \A j \in 0 .. i - 1 : ~ Stops(hashTable, Probe(Hash(k), j), k)
      BY <2>3 DEF ProbeSkipsOthers, ProbeNext
    <3>3. ~ Stops(hashTable, Probe(Hash(k), i), k) /\ hashTable' = hashTable
      BY <2>3, <3>2 DEF ProbeNext
    <3> HIDE DEF k
    <3>4. CASE i + 1 \in Slot
      <4>1. call'.h = Probe(Hash(k), i + 1)
        BY <3>1, <3>2, <3>4, ProbeStep
      <4>2. \A j \in 0 .. (i + 1) - 1 : j = i \/ j \in 0 .. i - 1
        BY DEF Slot
      <4>3. \A j \in 0 .. (i + 1) - 1 : ~ Stops(hashTable', Probe(Hash(k), j), k)
        BY <3>2, <3>3, <4>2
      <4> QED BY <3>1, <3>4, <4>1, <4>3 DEF ProbeSkipsOthers
    <3>5. CASE i + 1 \notin Slot
      <4>1. call'.h = Hash(k)
        BY <3>1, <3>2, <3>5, ProbeWrap
      <4> QED BY <2>2, <3>1, <4>1
    <3> QED BY <3>4, <3>5
  <2>4. ASSUME Caller PROVE ProbeSkipsOthers'
    <3>1. CASE OverflowSet
      BY <3>1 DEF OverflowSet
    <3>2. ASSUME NEW k \in Key, NEW v, NEW op, Enter(op, k, v) PROVE ProbeSkipsOthers'
      BY <2>2, <3>2 DEF Enter
    <3> QED BY <2>4, <3>1, <3>2 DEF Caller, CallGet, CallDelete, CallSet
  <2> QED
    BY <2>1, <2>3, <2>4
    DEF Next, Loop, GetHit, Miss, SetUpdate, SetInsert, DeleteHit
<1> QED BY <1>1, <1>2, TypeCorrect, PTL DEF Spec

-----------------------------------------------------------------------------
\* Where the loop of a call stops, the search for its key ends.
LEMMA CallEnds ==
  ASSUME TypeOK, ProbeSkipsOthers, call # Null, Stops(hashTable, call.h, call.key)
  PROVE  StopsFirst(hashTable, call.h, call.key) /\ call.h \in Slot /\ call.key \in Key
  BY DEF TypeOK, Calls, ProbeSkipsOthers, StopsFirst

\* What a call of hash_set does when its loop stops.
LEMMA SetStores ==
  ASSUME TypeOK, ProbeSkipsOthers, SetUpdate \/ SetInsert
  PROVE  LET n == [key |-> call.key, value |-> call.value] IN
         /\ StopsFirst(hashTable, call.h, call.key)
         /\ call.h \in Slot /\ call.key \in Key /\ n \in Node /\ n.key = call.key
         /\ hashTable' = [hashTable EXCEPT ![call.h] = n]
<1>1. call # Null /\ call.op = "set" /\ Stops(hashTable, call.h, call.key)
  BY DEF SetUpdate, SetInsert, AtNode, AtEmpty, Holds, Stops
<1>2. hashTable' = [hashTable EXCEPT ![call.h] = [key |-> call.key, value |-> call.value]]
  BY DEF SetUpdate, SetInsert
<1> QED
  BY <1>1, <1>2, CallEnds, SetWritesNode

\* Every step but those leaves the table alone, or empties a slot.
LEMMA OtherSteps ==
  ASSUME TypeOK, [Next]_vars, ~ SetUpdate, ~ SetInsert
  PROVE  \/ UNCHANGED hashTable
         \/ /\ call.h \in Slot
            /\ hashTable' = [hashTable EXCEPT ![call.h] = Null]
<1>1. CASE DeleteHit
  BY <1>1 DEF DeleteHit, AtNode, TypeOK, Calls
<1> QED
  BY <1>1 DEF Next, Caller, Loop, vars, OverflowSet, CallGet, CallDelete, CallSet, Enter,
              ProbeNext, GetHit, Miss

\* The call in progress is one the caller makes.
CallInOps == call # Null => call.op \in Ops

LEMMA CallsInOps == Spec => []CallInOps
<1>1. Init => CallInOps
  BY DEF Init, CallInOps
<1>2. TypeOK /\ CallInOps /\ [Next]_vars => CallInOps'
  <2> SUFFICES ASSUME TypeOK, CallInOps, [Next]_vars, call' # Null PROVE CallInOps'
    BY DEF CallInOps
  <2>1. CASE ProbeNext
    <3>1. call # Null /\ call \in Calls
      BY <2>1 DEF ProbeNext, TypeOK
    <3>2. call'.op = call.op
      BY <2>1, <3>1 DEF ProbeNext, Calls
    <3> QED BY <3>1, <3>2 DEF CallInOps
  <2> QED
    BY <2>1 DEF Next, Caller, Loop, vars, CallInOps, OverflowSet, CallGet, CallDelete,
                CallSet, Enter, GetHit, Miss, SetUpdate, SetInsert, DeleteHit
<1> QED BY <1>1, <1>2, TypeCorrect, PTL DEF Spec

-----------------------------------------------------------------------------
(***************************************************************************)
(* The end of a call: what CallReturns needs besides fairness.  A loop that *)
(* goes on is at the next slot, has not been there before, and is not      *)
(* endless; and only a full table makes a loop endless.                    *)
(***************************************************************************)

\* The number of slots that the loop of the call in progress has passed.
Iterations ==
  LET home == Hash(call.key)
  IN  IF call.h >= home THEN call.h - home ELSE call.h - home + Cap

\* Each step of a call that is not endless ends it, or takes its loop one
\* iteration further than it has been, up to Cap of them.
LoopAdvances ==
  [][call # Null /\ ~ Endless =>
       \/ call' = Null
       \/ ~ Endless' /\ Iterations' = Iterations + 1 /\ Iterations' < Cap]_vars

\* An endless call is endless for good.
EndlessForGood == [][Endless => Endless']_vars

\* ProbeSkipsOthers, with the number of iterations.
LEMMA SlotsPassed ==
  ASSUME TypeOK, ProbeSkipsOthers, call # Null
  PROVE  /\ call.key \in Key /\ Hash(call.key) \in Slot
         /\ Iterations \in Slot /\ call.h = Probe(Hash(call.key), Iterations)
         /\ \A j \in 0 .. Iterations - 1 :
              ~ Stops(hashTable, Probe(Hash(call.key), j), call.key)
<1>1. call.key \in Key /\ Hash(call.key) \in Slot /\ call.h \in Slot
  BY HashSlot DEF TypeOK, Calls
<1>2. PICK i \in Slot : /\ call.h = Probe(Hash(call.key), i)
                       /\ \A j \in 0 .. i - 1 :
                            ~ Stops(hashTable, Probe(Hash(call.key), j), call.key)
  BY DEF ProbeSkipsOthers
<1>3. Iterations = i
  BY <1>1, <1>2, CapAssumption DEF Iterations, Probe, Slot
<1> QED BY <1>1, <1>2, <1>3

\* When the slot of every iteration holds another key, so does every slot.
LEMMA NoneStops ==
  ASSUME NEW t, NEW k \in Key, \A j \in Slot : ~ Stops(t, Probe(Hash(k), j), k)
  PROVE  Diverges(t, k)
  BY HashSlot, ProbeEverywhere DEF Diverges

LEMMA ProbeAdvances ==
  ASSUME TypeOK, ProbeSkipsOthers, ProbeNext
  PROVE  IF Endless THEN Endless'
         ELSE ~ Endless' /\ Iterations' = Iterations + 1 /\ Iterations' < Cap
<1> DEFINE k == call.key
           i == Iterations
<1>1. /\ k \in Key /\ Hash(k) \in Slot /\ i \in Slot /\ call.h = Probe(Hash(k), i)
      /\ \A j \in 0 .. i - 1 : ~ Stops(hashTable, Probe(Hash(k), j), k)
  BY SlotsPassed DEF ProbeNext
<1>2. /\ call' # Null /\ call'.key = k /\ call'.h = NextSlot(call.h) /\ hashTable' = hashTable
      /\ ~ Stops(hashTable, call.h, k) /\ call # Null
  <2>1. call \in Calls
    BY DEF TypeOK, ProbeNext
  <2>2. [call EXCEPT !.h = NextSlot(@)] \in Calls
    BY <2>1, NextSlotSlot DEF Calls
  <2> QED BY <2>1, <2>2, NoCallAssumption DEF ProbeNext, Calls
<1>3. Endless' <=> Endless
  BY <1>2 DEF Endless
<1>4. ASSUME ~ Endless PROVE i + 1 \in Slot
  <2> SUFFICES ASSUME i + 1 \notin Slot PROVE FALSE
    OBVIOUS
  <2> HIDE DEF k, i
  <2>1. \A j \in Slot : j = i \/ j \in 0 .. i - 1
    BY <1>1, CapAssumption DEF Slot
  <2>2. \A j \in Slot : ~ Stops(hashTable, Probe(Hash(k), j), k)
    BY <1>1, <1>2, <2>1
  <2>3. Diverges(hashTable, k)
    BY <1>1, <2>2, NoneStops
  <2> QED BY <1>2, <1>4, <2>3 DEF Endless, k
<1>5. ASSUME ~ Endless PROVE Iterations' = i + 1
  <2> HIDE DEF k, i
  <2>1. call'.h = Probe(Hash(k), i + 1) /\ Hash(call'.key) = Hash(k)
    BY <1>1, <1>2, <1>4, <1>5, ProbeStep
  <2>2. \A h, n \in Slot : (IF Probe(h, n) >= h THEN Probe(h, n) - h ELSE Probe(h, n) - h + Cap) = n
    BY CapAssumption DEF Probe, Slot
  <2>3. Iterations' = IF call'.h >= Hash(call'.key) THEN call'.h - Hash(call'.key)
                      ELSE call'.h - Hash(call'.key) + Cap
    BY DEF Iterations, Hash
  <2> QED BY <1>1, <1>4, <1>5, <2>1, <2>2, <2>3
<1>6. ASSUME ~ Endless PROVE i + 1 < Cap
  BY <1>4, <1>6, CapAssumption DEF Slot
<1> QED BY <1>3, <1>5, <1>6

\* The other steps of a call end it.
LEMMA CallStep ==
  ASSUME TypeOK, ProbeSkipsOthers, call # Null, Next
  PROVE  \/ ~ Endless /\ call' = Null
         \/ ProbeNext
<1>1. Loop
  BY DEF Next, Caller, OverflowSet, CallGet, CallDelete, CallSet, Enter
<1>2. call.h \in Slot
  BY DEF TypeOK, Calls
<1> QED
  BY <1>1, <1>2 DEF Loop, GetHit, Miss, SetUpdate, SetInsert, DeleteHit, AtEmpty, AtNode, Holds,
                    Endless, Diverges, Stops

\* hash_set has tested for overflow before its loop, and still has room.
RoomForSet == call # Null /\ call.op = "set" => size < Cap

LEMMA SetHasRoom == Spec => []RoomForSet
<1>1. Init => RoomForSet
  BY DEF Init, RoomForSet
<1>2. TypeOK /\ RoomForSet /\ [Next]_vars => RoomForSet'
  <2> SUFFICES ASSUME TypeOK, RoomForSet, [Next]_vars, call' # Null PROVE RoomForSet'
    BY DEF RoomForSet
  <2>1. CASE ProbeNext
    <3>1. call # Null /\ call \in Calls
      BY <2>1 DEF ProbeNext, TypeOK
    <3>2. call'.op = call.op
      BY <2>1, <3>1 DEF ProbeNext, Calls
    <3> QED BY <2>1, <3>1, <3>2 DEF RoomForSet, ProbeNext
  <2> QED
    BY <2>1 DEF Next, Caller, Loop, vars, RoomForSet, OverflowSet, CallGet, CallDelete,
                CallSet, Enter, GetHit, Miss, SetUpdate, SetInsert, DeleteHit
<1> QED BY <1>1, <1>2, TypeCorrect, PTL DEF Spec

\* A call of hash_get, hash_set or hash_delete makes at most Cap iterations, and
\* never comes back to a slot, unless the table is full of other keys.
THEOREM LoopsAreBounded == Spec => LoopAdvances
<1>1. TypeOK /\ ProbeSkipsOthers /\ [Next]_vars =>
        [call # Null /\ ~ Endless =>
           \/ call' = Null
           \/ ~ Endless' /\ Iterations' = Iterations + 1 /\ Iterations' < Cap]_vars
  BY CallStep, ProbeAdvances
<1> QED BY <1>1, TypeCorrect, ProbeCorrect, PTL DEF Spec, LoopAdvances

\* hash_set always returns, and the searches do unless the table is full; when it
\* is, a search for a key that is not in it never does.
THEOREM EndlessCalls == Spec => []EndlessWhenFull /\ EndlessForGood
<1>1. TypeOK /\ SizeIsCount /\ RoomForSet => EndlessWhenFull
  BY DivergesWhenFull, CapAssumption DEF EndlessWhenFull, Endless, SizeIsCount, RoomForSet
<1>2. TypeOK /\ ProbeSkipsOthers /\ [Next]_vars => [Endless => Endless']_vars
  BY CallStep, ProbeAdvances DEF Endless
<1> QED BY <1>1, <1>2, TypeCorrect, SizeCorrect, SetHasRoom, ProbeCorrect, PTL
        DEF Spec, EndlessForGood

-----------------------------------------------------------------------------
\* A caller that never deletes finds whatever it stored, however the keys
\* collide: a slot once filled keeps its key, so that nothing opens up on the
\* way to a node.
THEOREM FoundWithoutDelete ==
  ASSUME "delete" \notin Ops
  PROVE  Spec => []EveryNodeFound
<1>1. Init => EveryNodeFound
  BY DEF Init, EveryNodeFound, NodesFound, EmptyTable, Occupied
<1>2. /\ TypeOK /\ ProbeSkipsOthers /\ CallInOps /\ EveryNodeFound
      /\ [Next]_vars
      => EveryNodeFound'
  <2> SUFFICES ASSUME TypeOK, ProbeSkipsOthers, CallInOps, EveryNodeFound, [Next]_vars
               PROVE  EveryNodeFound'
    OBVIOUS
  <2>1. CASE SetUpdate \/ SetInsert
    <3>1. NodesFound([hashTable EXCEPT ![call.h] = [key |-> call.key, value |-> call.value]])
      BY <2>1, SetStores, StoreKeepsFound DEF EveryNodeFound, TypeOK
    <3> QED BY <2>1, <3>1, SetStores DEF EveryNodeFound
  <2>2. CASE DeleteHit
    BY <2>2 DEF DeleteHit, AtNode, CallInOps
  <2>3. CASE UNCHANGED hashTable
    BY <2>3 DEF EveryNodeFound
  <2> QED
    BY <2>1, <2>2, <2>3
    DEF Next, Caller, Loop, vars, OverflowSet, CallGet, CallDelete, CallSet, Enter,
        ProbeNext, GetHit, Miss
<1> QED BY <1>1, <1>2, TypeCorrect, ProbeCorrect, CallsInOps, PTL DEF Spec

\* A caller whose keys have a home slot each finds whatever it stored and did
\* not delete: every node stays in the home slot of its key.
NodesAtHome == AtHome(hashTable)

THEOREM FoundWithoutCollision ==
  ASSUME NoCollision
  PROVE  Spec => []EveryNodeFound
<1>1. Init => NodesAtHome
  BY DEF Init, NodesAtHome, AtHome, EmptyTable, Occupied
<1>2. TypeOK /\ ProbeSkipsOthers /\ NodesAtHome /\ [Next]_vars => NodesAtHome'
  <2> SUFFICES ASSUME TypeOK, ProbeSkipsOthers, NodesAtHome, [Next]_vars
               PROVE  NodesAtHome'
    OBVIOUS
  <2>0. hashTable \in Table
    BY DEF TypeOK
  <2>1. CASE SetUpdate \/ SetInsert
    <3>1. AtHome([hashTable EXCEPT ![call.h] = [key |-> call.key, value |-> call.value]])
      BY <2>0, <2>1, SetStores, StoreAtHome DEF NodesAtHome
    <3> QED BY <2>1, <3>1, SetStores DEF NodesAtHome
  <2>2. CASE ~ (SetUpdate \/ SetInsert)
    BY <2>0, <2>2, OtherSteps, EmptyAtHome DEF NodesAtHome
  <2> QED BY <2>1, <2>2
<1>3. TypeOK /\ NodesAtHome => EveryNodeFound
  BY AtHomeFound DEF TypeOK, NodesAtHome, EveryNodeFound
<1> QED BY <1>1, <1>2, <1>3, TypeCorrect, ProbeCorrect, PTL DEF Spec

-----------------------------------------------------------------------------
(***************************************************************************)
(* Refinement.  Where every node is found, before and after a step, the    *)
(* step is one of the abstract map's or changes nothing of it: calls take  *)
(* effect when their loop ends.                                            *)
(***************************************************************************)
theMap == [k \in Key |-> Lookup(hashTable, k)]

\* The instance of FdMap has its own copy of FiniteSets.
LEMMA SameCardinality == \A S : Map!Cardinality(S) = Cardinality(S)
  BY Zenon DEF Map!Cardinality, Cardinality

\* The abstract map is full when the overflow test says so.
LEMMA FullIsOverflow ==
  ASSUME TypeOK, SizeIsCount, EveryNodeFound
  PROVE  Map!Full <=> size >= Cap
<1>1. {k \in Key : theMap[k] # Null} = {k \in Key : Lookup(hashTable, k) # Null}
  BY DEF theMap
<1>2. Cardinality({k \in Key : theMap[k] # Null}) = size
  BY <1>1, BoundCount DEF TypeOK, SizeIsCount, EveryNodeFound
<1> QED
  BY <1>2, SameCardinality DEF Map!Full, theMap

\* The arguments of the call in progress, and that a step of its loop keeps
\* them.
args == [op |-> call.op, key |-> call.key, value |-> call.value]

LEMMA CallInProgress ==
  ASSUME TypeOK, call # Null
  PROVE  InProgress = {args} /\ args \in Map!Calls
<1>1. call \in Calls
  BY DEF TypeOK
<1>2. args \in Map!Calls
  BY <1>1 DEF Calls, Map!Calls, args
<1> QED BY <1>2 DEF InProgress, args

LEMMA ProbeKeepsCall ==
  ASSUME TypeOK, TypeOK', ProbeNext
  PROVE  InProgress' = InProgress
<1>1. call # Null /\ call \in Calls
  BY DEF ProbeNext, TypeOK
<1>2. call' = [call EXCEPT !.h = NextSlot(call.h)]
  BY DEF ProbeNext
<1>3. call'.op = call.op /\ call'.key = call.key /\ call'.value = call.value
  BY <1>1, <1>2 DEF Calls
<1>4. NextSlot(call.h) \in Slot
  BY <1>1, CapAssumption DEF Calls, NextSlot, Slot
<1>5. call' \in Calls
  BY <1>1, <1>2, <1>4 DEF Calls
<1>6. call' # Null
  BY <1>5, NoCallAssumption
<1> QED BY <1>1, <1>3, <1>6 DEF InProgress

\* Entering a function is a call of the map.
LEMMA EnterIsInvoke ==
  ASSUME TypeOK', NEW op \in AllOps, NEW k \in Key, NEW v \in Value \cup {Null},
         Enter(op, k, v), op = "set" <=> v # Null
  PROVE  \E c \in Map!Calls : Map!Invoke(c)
<1>1. call' = [op |-> op, key |-> k, value |-> v, h |-> Hash(k)]
  BY DEF Enter
<1>2. Hash(k) \in Slot
  BY HashSlot
<1>3. [op |-> op, key |-> k, value |-> v, h |-> Hash(k)] \in Calls
  BY <1>2 DEF Calls, AllOps
<1>4. call' # Null
  BY <1>1, <1>3, NoCallAssumption
<1> DEFINE c == [op |-> op, key |-> k, value |-> v]
<1>5. c \in Map!Calls
  BY DEF Map!Calls, AllOps
<1>6. InProgress = {} /\ InProgress' = {c}
  BY <1>1, <1>4 DEF Enter, InProgress
<1>7. Map!Invoke(c)
  BY <1>6 DEF Map!Invoke, Enter
<1> QED BY <1>5, <1>7

LEMMA StepImplementsMap ==
  ASSUME TypeOK, TypeOK', SizeIsCount, ProbeSkipsOthers, RoomForSet, EveryNodeFound,
         EveryNodeFound', [Next]_vars
  PROVE  [Map!Next]_Map!vars
<1> USE DEF Map!vars
<1>0. hashTable \in Table /\ NodesFound(hashTable) /\ NodesFound(hashTable')
  BY DEF TypeOK, EveryNodeFound
<1>1. CASE UNCHANGED vars
  BY <1>1 DEF vars, InProgress
<1>2. CASE OverflowSet
  <2>1. InProgress = {} /\ InProgress' = {}
    BY <1>2 DEF OverflowSet, InProgress
  <2> QED BY <1>2, <2>1, FullIsOverflow DEF OverflowSet, Map!Next, Map!RefuseSet
<1>3. CASE ProbeNext
  BY <1>3, ProbeKeepsCall DEF ProbeNext
<1>4. CASE \E k \in Key : CallGet(k) \/ CallDelete(k) \/ \E v \in Value : CallSet(k, v)
  <2>1. PICK k \in Key : CallGet(k) \/ CallDelete(k) \/ \E v \in Value : CallSet(k, v)
    BY <1>4
  <2>2. CASE CallGet(k)
    BY <2>2, EnterIsInvoke DEF CallGet, AllOps, Map!Next
  <2>3. CASE CallDelete(k)
    BY <2>3, EnterIsInvoke DEF CallDelete, AllOps, Map!Next
  <2>4. CASE \E v \in Value : CallSet(k, v)
    BY <2>4, EnterIsInvoke, NullAssumption DEF CallSet, AllOps, Map!Next
  <2> QED BY <2>1, <2>2, <2>3, <2>4
\* What the steps that end a loop have in common.
<1>5. ASSUME call # Null, call' = Null
      PROVE  /\ args \in InProgress /\ InProgress' = {} /\ args \in Map!Calls
             /\ args.op = call.op /\ args.key = call.key /\ args.value = call.value
  BY <1>5, CallInProgress DEF InProgress, args
<1>6. ASSUME call # Null, Holds(hashTable, call.h, call.key)
      PROVE  call.h \in Slot /\ call.key \in Key /\ theMap[call.key] = hashTable[call.h].value
  <2>1. call.h \in Slot /\ call.key \in Key
    BY <1>6 DEF TypeOK, Calls
  <2> QED BY <1>0, <1>6, <2>1, LookupHolder DEF theMap
<1>7. CASE GetHit
  <2>1. Map!Get(args)
    BY <1>5, <1>6, <1>7 DEF GetHit, AtNode, Map!Get, Map!Returns, theMap
  <2> QED BY <1>5, <1>7, <2>1 DEF Map!Next, GetHit, AtNode
<1>8. ASSUME Holds(hashTable, call.h, call.key), call # Null, call.op = "delete", call' = Null,
             hashTable' = [hashTable EXCEPT ![call.h] = Null], ret' = hashTable[call.h].value
      PROVE  Map!Delete(args)
  <2>1. /\ Lookup(hashTable', call.key) = Null
        /\ \A k \in Key \ {call.key} : Lookup(hashTable', k) = Lookup(hashTable, k)
    BY <1>0, <1>6, <1>8, LookupEmptied
  <2>2. theMap' = [theMap EXCEPT ![call.key] = Null]
    BY <1>6, <1>8, <2>1 DEF theMap
  <2> QED BY <1>5, <1>6, <1>8, <2>2 DEF Map!Delete, Map!Returns, theMap
<1>9. CASE Miss
  <2>1. /\ call # Null /\ call' = Null /\ Stops(hashTable, call.h, call.key)
        /\ hashTable[call.h] = Null /\ ret' = Null /\ hashTable' = hashTable
        /\ call.op = "get" \/ call.op = "delete"
    BY <1>9 DEF Miss, AtEmpty, Stops
  <2>2. call.key \in Key /\ theMap[call.key] = Null
    BY <1>0, <2>1, CallEnds, LookupEmpty DEF theMap
  <2>3. theMap' = theMap /\ theMap = [theMap EXCEPT ![call.key] = Null]
    BY <2>1, <2>2 DEF theMap
  <2>4. Map!Get(args) \/ Map!Delete(args)
    BY <1>5, <2>1, <2>2, <2>3 DEF Map!Get, Map!Delete, Map!Returns, theMap
  <2> QED BY <1>5, <2>1, <2>4 DEF Map!Next
<1>10. CASE SetUpdate \/ SetInsert
  <2> DEFINE n == [key |-> call.key, value |-> call.value]
  <2>1. /\ StopsFirst(hashTable, call.h, call.key)
        /\ call.h \in Slot /\ call.key \in Key /\ n \in Node /\ n.key = call.key
        /\ hashTable' = [hashTable EXCEPT ![call.h] = n]
    BY <1>10, SetStores
  <2>2. /\ Lookup(hashTable', call.key) = n.value
        /\ \A k \in Key \ {call.key} : Lookup(hashTable', k) = Lookup(hashTable, k)
    BY <1>0, <2>1, LookupStored
  <2>3. theMap' = [theMap EXCEPT ![call.key] = call.value]
    BY <2>1, <2>2 DEF theMap
  <2>4. call # Null /\ call' = Null /\ call.op = "set" /\ ret' = ret
    BY <1>10 DEF SetUpdate, SetInsert, AtNode, AtEmpty
  <2>5. ~ Map!Full
    <3>1. size < Cap /\ size \in Int
      BY <2>4 DEF RoomForSet, TypeOK
    <3> QED BY <3>1, FullIsOverflow, CapAssumption
  <2>6. Map!Set(args)
    BY <1>5, <2>3, <2>4, <2>5 DEF Map!Set, Map!Returns, theMap
  <2> QED BY <1>5, <2>4, <2>6 DEF Map!Next
<1>11. CASE DeleteHit
  <2>1. Map!Delete(args)
    BY <1>8, <1>11 DEF DeleteHit, AtNode
  <2> QED BY <1>5, <1>11, <2>1 DEF Map!Next, DeleteHit, AtNode
<1> QED
  BY <1>1, <1>2, <1>3, <1>4, <1>7, <1>9, <1>10, <1>11 DEF Next, Caller, Loop

\* To a caller that never deletes, or whose keys have a home slot each, the
\* table is the map of FdMap.tla: get returns what was last set and not yet
\* deleted, and only a full table refuses a key.
THEOREM MapImplemented ==
  ASSUME "delete" \notin Ops \/ NoCollision
  PROVE  Spec => ImplementsMap
<1>1. Init => Map!Init
  <2> SUFFICES ASSUME Init PROVE Map!Init
    OBVIOUS
  <2>1. ASSUME NEW k \in Key PROVE Lookup(hashTable, k) = Null
    <3>1. \A s \in Slot : ~ Holds(hashTable, s, k)
      BY DEF Init, EmptyTable, Holds
    <3> QED BY <3>1, LookupAbsent
  <2> QED BY <2>1 DEF Init, Map!Init, InProgress
<1>2. Spec => []EveryNodeFound
  BY FoundWithoutDelete, FoundWithoutCollision
<1>3. /\ TypeOK /\ TypeOK' /\ SizeIsCount /\ ProbeSkipsOthers /\ RoomForSet
      /\ EveryNodeFound /\ EveryNodeFound' /\ [Next]_vars
      => [Map!Next]_Map!vars
  BY StepImplementsMap
<1> QED
  BY <1>1, <1>2, <1>3, TypeCorrect, SizeCorrect, ProbeCorrect, SetHasRoom, PTL
  DEF Spec, ImplementsMap, Map!Spec
=============================================================================
