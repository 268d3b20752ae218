------------------------ MODULE LinearProbingProofs ------------------------
(***************************************************************************)
(* Facts about the probe loop of lib/hashtable.c, for any capacity, any    *)
(* keys and any contents of the table.                                     *)
(***************************************************************************)
EXTENDS LinearProbing, FiniteSets, FunctionTheorems, FiniteSetTheorems, TLAPS

\* A key hashes to a slot; the loop moves on to a slot.
LEMMA HashSlot == \A k \in Key : Hash(k) \in Slot
  BY CapAssumption, KeyAssumption DEF Hash, Slot

LEMMA NextSlotSlot == \A h \in Slot : NextSlot(h) \in Slot
  BY CapAssumption DEF NextSlot, Slot

LEMMA ProbeSlot == \A h, i \in Slot : Probe(h, i) \in Slot
  BY CapAssumption DEF Probe, Slot

\* The loop starts at the home slot and visits the slots in order.
LEMMA ProbeStart == \A h \in Slot : 0 \in Slot /\ Probe(h, 0) = h
  BY CapAssumption DEF Probe, Slot

LEMMA ProbeStep ==
  \A h, i \in Slot : i + 1 \in Slot => NextSlot(Probe(h, i)) = Probe(h, i + 1)
  BY CapAssumption DEF Probe, NextSlot, Slot

LEMMA ProbeWrap ==
  \A h, i \in Slot : i + 1 \notin Slot => NextSlot(Probe(h, i)) = h
  BY CapAssumption DEF Probe, NextSlot, Slot

\* No slot is visited twice in Cap iterations.
LEMMA ProbeInjective ==
  \A h, i, j \in Slot : Probe(h, i) = Probe(h, j) => i = j
  BY CapAssumption DEF Probe, Slot

\* Every slot is visited in one of Cap iterations.
LEMMA ProbeEverywhere ==
  ASSUME NEW h \in Slot, NEW s \in Slot
  PROVE  \E i \in Slot : s = Probe(h, i)
<1> DEFINE i == IF s >= h THEN s - h ELSE s - h + Cap
<1>1. i \in Slot /\ s = Probe(h, i)
  BY CapAssumption DEF Probe, Slot
<1> QED BY <1>1

\* The loop has one end at most.
LEMMA StopsFirstUnique ==
  ASSUME NEW t, NEW k, NEW s1, NEW s2, StopsFirst(t, s1, k), StopsFirst(t, s2, k)
  PROVE  s1 = s2
<1>1. PICK i \in Slot : /\ s1 = Probe(Hash(k), i)
                        /\ Stops(t, s1, k)
                        /\ \A j \in 0 .. i - 1 : ~ Stops(t, Probe(Hash(k), j), k)
  BY DEF StopsFirst
<1>2. PICK j \in Slot : /\ s2 = Probe(Hash(k), j)
                        /\ Stops(t, s2, k)
                        /\ \A l \in 0 .. j - 1 : ~ Stops(t, Probe(Hash(k), l), k)
  BY DEF StopsFirst
<1>3. ~ (i < j) /\ ~ (j < i)
  BY <1>1, <1>2, CapAssumption DEF Slot
<1>4. i = j
  BY <1>3, CapAssumption DEF Slot
<1> QED
  BY <1>1, <1>2, <1>4

LEMMA ProbeEndIs ==
  ASSUME NEW t, NEW k, NEW s \in Slot, StopsFirst(t, s, k)
  PROVE  ProbeEnd(t, k) = s
<1>1. StopsFirst(t, ProbeEnd(t, k), k)
  BY DEF ProbeEnd
<1> QED
  BY <1>1, StopsFirstUnique

\* What a search returns, when it ends on a node of the key and when the key
\* is nowhere in the table.
LEMMA LookupFound ==
  ASSUME NEW t, NEW k, NEW s \in Slot, StopsFirst(t, s, k), Holds(t, s, k)
  PROVE  Lookup(t, k) = t[s].value
<1>1. ProbeEnd(t, k) = s
  BY ProbeEndIs
<1>2. Found(t, k)
  BY DEF Found, FoundAt
<1> QED
  BY <1>1, <1>2 DEF Lookup

LEMMA LookupAbsent ==
  ASSUME NEW t, NEW k, \A s \in Slot : ~ Holds(t, s, k)
  PROVE  Lookup(t, k) = Null
  BY DEF Lookup, Found, FoundAt

\* A search returns the value of a node of the key, or Null.
LEMMA LookupOfNode ==
  ASSUME NEW t, NEW k, Lookup(t, k) # Null
  PROVE  \E s \in Slot : Holds(t, s, k) /\ StopsFirst(t, s, k) /\ Lookup(t, k) = t[s].value
<1>1. PICK s \in Slot : FoundAt(t, s, k)
  BY DEF Lookup, Found
<1> QED
  BY <1>1, LookupFound DEF FoundAt

\* A search runs forever only when the table is full.
LEMMA DivergesWhenFull ==
  ASSUME NEW t, NEW k, Diverges(t, k)
  PROVE  Cardinality(Occupied(t)) = Cap
<1>1. Occupied(t) = Slot
  BY DEF Diverges, Stops, Occupied
<1> QED BY <1>1, CapAssumption, FS_Interval DEF Slot

-----------------------------------------------------------------------------
(***************************************************************************)
(* Storing a node where the search for its key ends.                       *)
(***************************************************************************)

\* The slots that the loop passes before iteration i are other slots.
LEMMA PassedSlots ==
  ASSUME NEW k \in Key, NEW i \in Slot, NEW j \in 0 .. i - 1
  PROVE  /\ j \in Slot
         /\ Probe(Hash(k), j) \in Slot
         /\ Probe(Hash(k), j) # Probe(Hash(k), i)
<1>1. j \in Slot /\ j # i
  BY CapAssumption DEF Slot
<1> QED
  BY <1>1, HashSlot, ProbeSlot, ProbeInjective

LEMMA StoreKeepsFound ==
  ASSUME NEW t \in Table, NodesFound(t), NEW k \in Key, NEW s0 \in Slot,
         StopsFirst(t, s0, k), NEW n \in Node, n.key = k
  PROVE  NodesFound([t EXCEPT ![s0] = n])
<1> DEFINE t2 == [t EXCEPT ![s0] = n]
<1>1. t2[s0] = n /\ \A s \in Slot \ {s0} : t2[s] = t[s]
  BY DEF Table
<1>2. n # Null /\ n.key \in Key /\ \A s \in Occupied(t) : t[s].key \in Key
  BY NullAssumption DEF Node, Table, Occupied
<1> HIDE DEF t2
<1>3. StopsFirst(t2, s0, k)
  <2>1. PICK i \in Slot : /\ s0 = Probe(Hash(k), i)
                          /\ \A j \in 0 .. i - 1 : ~ Stops(t, Probe(Hash(k), j), k)
    BY DEF StopsFirst
  <2>2. \A j \in 0 .. i - 1 : ~ Stops(t2, Probe(Hash(k), j), k)
    BY <1>1, <2>1, PassedSlots DEF Stops
  <2> QED
    BY <1>1, <2>1, <2>2 DEF StopsFirst, Stops
<1>4. ASSUME NEW s \in Occupied(t), s # s0 PROVE StopsFirst(t2, s, t[s].key)
  <2> DEFINE k2 == t[s].key
  <2>1. k2 \in Key /\ s \in Slot /\ t2[s] = t[s]
    BY <1>1, <1>2, <1>4 DEF Occupied
  <2>2. PICK i \in Slot : /\ s = Probe(Hash(k2), i)
                          /\ Stops(t, s, k2)
                          /\ \A j \in 0 .. i - 1 : ~ Stops(t, Probe(Hash(k2), j), k2)
    BY DEF NodesFound, StopsFirst
  <2> HIDE DEF k2
  <2>3. ASSUME NEW j \in 0 .. i - 1 PROVE ~ Stops(t2, Probe(Hash(k2), j), k2)
    <3>1. Probe(Hash(k2), j) \in Slot /\ ~ Stops(t, Probe(Hash(k2), j), k2)
      BY <2>1, <2>2, PassedSlots
    <3>2. CASE Probe(Hash(k2), j) = s0
      <4>1. Stops(t, s0, k)
        BY DEF StopsFirst
      <4>2. k # k2
        BY <3>1, <3>2, <4>1 DEF Stops
      <4> QED BY <1>1, <1>2, <3>2, <4>2 DEF Stops
    <3> QED BY <1>1, <3>1, <3>2 DEF Stops
  <2>4. Stops(t2, s, k2)
    BY <2>1, <2>2 DEF Stops
  <2> QED
    BY <2>2, <2>3, <2>4 DEF StopsFirst, k2
<1>5. ASSUME NEW s \in Occupied(t2), s # s0 PROVE s \in Occupied(t) /\ t2[s].key = t[s].key
  BY <1>1, <1>5 DEF Occupied
<1>6. NodesFound(t2)
  BY <1>1, <1>3, <1>4, <1>5 DEF NodesFound
<1> QED
  BY <1>6 DEF t2

-----------------------------------------------------------------------------
(***************************************************************************)
(* Keys that have their home slots to themselves, as descriptors below the *)
(* capacity have: every node sits in the home slot of its key, and it does *)
(* no harm to empty a slot.                                                *)
(***************************************************************************)
NoCollision == \A k1, k2 \in Key : Hash(k1) = Hash(k2) => k1 = k2
AtHome(t) == \A s \in Occupied(t) : s = Hash(t[s].key)

LEMMA DescriptorsDoNotCollide == (Key \subseteq Slot) => NoCollision
  BY CapAssumption DEF NoCollision, Hash, Slot

LEMMA AtHomeFound ==
  ASSUME NEW t \in Table, AtHome(t)
  PROVE  NodesFound(t)
<1> SUFFICES ASSUME NEW s \in Occupied(t) PROVE StopsFirst(t, s, t[s].key)
  BY DEF NodesFound
<1>1. s \in Slot /\ s = Hash(t[s].key)
  BY DEF AtHome, Occupied
<1>2. 0 \in Slot /\ Probe(s, 0) = s /\ 0 .. 0 - 1 = {}
  BY <1>1, ProbeStart
<1> QED
  BY <1>1, <1>2 DEF StopsFirst, Stops

\* The search for any key ends in its home slot.
LEMMA AtHomeStops ==
  ASSUME NoCollision, NEW t \in Table, AtHome(t), NEW k \in Key, NEW s,
         StopsFirst(t, s, k)
  PROVE  s = Hash(k)
<1>1. PICK i \in Slot : /\ s = Probe(Hash(k), i)
                        /\ \A j \in 0 .. i - 1 : ~ Stops(t, Probe(Hash(k), j), k)
  BY DEF StopsFirst
<1>2. Hash(k) \in Slot /\ Probe(Hash(k), 0) = Hash(k)
  BY HashSlot, ProbeStart
<1>3. ASSUME i # 0 PROVE FALSE
  <2>1. ~ Stops(t, Hash(k), k)
    BY <1>1, <1>2, <1>3 DEF Slot
  <2>2. t[Hash(k)] # Null /\ t[Hash(k)].key # k /\ t[Hash(k)].key \in Key
    BY <1>2, <2>1 DEF Stops, Table, Node
  <2>3. Hash(k) = Hash(t[Hash(k)].key)
    BY <1>2, <2>2 DEF AtHome, Occupied
  <2> QED BY <2>2, <2>3 DEF NoCollision
<1> QED
  BY <1>1, <1>2, <1>3

LEMMA StoreAtHome ==
  ASSUME NoCollision, NEW t \in Table, AtHome(t), NEW k \in Key, NEW s0 \in Slot,
         StopsFirst(t, s0, k), NEW n \in Node, n.key = k
  PROVE  AtHome([t EXCEPT ![s0] = n])
<1>1. s0 = Hash(k)
  BY AtHomeStops
<1> QED
  BY <1>1 DEF AtHome, Occupied, Table

LEMMA EmptyAtHome ==
  ASSUME NEW t \in Table, AtHome(t), NEW s0 \in Slot
  PROVE  AtHome([t EXCEPT ![s0] = Null])
  BY DEF AtHome, Occupied, Table

-----------------------------------------------------------------------------
(***************************************************************************)
(* A table in which every node is found is a map from keys to values.      *)
(***************************************************************************)

LEMMA LookupHolder ==
  ASSUME NEW t, NodesFound(t), NEW k, NEW s \in Slot, Holds(t, s, k)
  PROVE  StopsFirst(t, s, k) /\ Lookup(t, k) = t[s].value
<1>1. StopsFirst(t, s, k)
  BY DEF NodesFound, Occupied, Holds
<1> QED
  BY <1>1, LookupFound

\* A search that ends on an empty slot is for a key that is nowhere.
LEMMA LookupEmpty ==
  ASSUME NEW t, NodesFound(t), NEW k, NEW s \in Slot, StopsFirst(t, s, k), t[s] = Null
  PROVE  Lookup(t, k) = Null
<1>1. ASSUME NEW s2 \in Slot, Holds(t, s2, k) PROVE FALSE
  <2>1. StopsFirst(t, s2, k)
    BY <1>1, LookupHolder
  <2>2. s2 = s
    BY <2>1, StopsFirstUnique
  <2> QED BY <1>1, <2>2 DEF Holds
<1> QED
  BY <1>1, LookupAbsent

LEMMA LookupStored ==
  ASSUME NEW t \in Table, NodesFound(t), NEW k \in Key, NEW s0 \in Slot,
         StopsFirst(t, s0, k), NEW n \in Node, n.key = k
  PROVE  LET t2 == [t EXCEPT ![s0] = n] IN
         /\ Lookup(t2, k) = n.value
         /\ \A k2 \in Key \ {k} : Lookup(t2, k2) = Lookup(t, k2)
<1> DEFINE t2 == [t EXCEPT ![s0] = n]
<1>1. t2[s0] = n /\ n # Null /\ \A s \in Slot \ {s0} : t2[s] = t[s]
  BY NullAssumption DEF Table
<1>2. NodesFound(t2)
  BY StoreKeepsFound
<1>3. Stops(t, s0, k)
  BY DEF StopsFirst
<1> HIDE DEF t2
<1>4. Holds(t2, s0, k)
  BY <1>1 DEF Holds
<1>5. Lookup(t2, k) = n.value
  BY <1>1, <1>2, <1>4, LookupHolder
<1>6. ASSUME NEW k2 \in Key \ {k} PROVE Lookup(t2, k2) = Lookup(t, k2)
  <2>1. \A s \in Slot : Holds(t2, s, k2) <=> Holds(t, s, k2)
    BY <1>1, <1>3 DEF Holds, Stops
  <2>2. CASE \E s \in Slot : Holds(t, s, k2)
    <3>1. PICK s \in Slot : Holds(t, s, k2)
      BY <2>2
    <3>2. s # s0
      BY <1>3, <3>1 DEF Holds, Stops
    <3>3. Lookup(t, k2) = t[s].value /\ Lookup(t2, k2) = t2[s].value
      BY <1>2, <2>1, <3>1, LookupHolder
    <3> QED BY <1>1, <3>2, <3>3
  <2>3. CASE \A s \in Slot : ~ Holds(t, s, k2)
    BY <2>1, <2>3, LookupAbsent
  <2> QED BY <2>2, <2>3
<1> QED
  BY <1>5, <1>6 DEF t2

LEMMA LookupEmptied ==
  ASSUME NEW t \in Table, NodesFound(t), NEW k \in Key, NEW s0 \in Slot, Holds(t, s0, k),
         NodesFound([t EXCEPT ![s0] = Null])
  PROVE  LET t2 == [t EXCEPT ![s0] = Null] IN
         /\ Lookup(t2, k) = Null
         /\ \A k2 \in Key \ {k} : Lookup(t2, k2) = Lookup(t, k2)
<1> DEFINE t2 == [t EXCEPT ![s0] = Null]
<1>1. t2[s0] = Null /\ \A s \in Slot \ {s0} : t2[s] = t[s]
  BY DEF Table
<1>2. NodesFound(t2)
  OBVIOUS
<1> HIDE DEF t2
<1>3. ASSUME NEW s \in Slot, Holds(t2, s, k) PROVE FALSE
  <2>1. s # s0 /\ Holds(t, s, k)
    BY <1>1, <1>3 DEF Holds
  <2>2. StopsFirst(t, s, k) /\ StopsFirst(t, s0, k)
    BY <2>1, LookupHolder
  <2> QED BY <2>1, <2>2, StopsFirstUnique
<1>4. Lookup(t2, k) = Null
  BY <1>3, LookupAbsent
<1>5. ASSUME NEW k2 \in Key \ {k} PROVE Lookup(t2, k2) = Lookup(t, k2)
  <2>1. \A s \in Slot : Holds(t2, s, k2) <=> Holds(t, s, k2)
    BY <1>1 DEF Holds
  <2>2. CASE \E s \in Slot : Holds(t, s, k2)
    <3>1. PICK s \in Slot : Holds(t, s, k2)
      BY <2>2
    <3>2. s # s0
      BY <3>1 DEF Holds
    <3>3. Lookup(t, k2) = t[s].value /\ Lookup(t2, k2) = t2[s].value
      BY <1>2, <2>1, <3>1, LookupHolder
    <3> QED BY <1>1, <3>2, <3>3
  <2>3. CASE \A s \in Slot : ~ Holds(t, s, k2)
    BY <2>1, <2>3, LookupAbsent
  <2> QED BY <2>2, <2>3
<1> QED
  BY <1>4, <1>5 DEF t2

\* It binds as many keys as it has nodes.
LEMMA OccupiedFinite == ASSUME NEW t PROVE IsFiniteSet(Occupied(t)) /\ Cardinality(Occupied(t)) \in Nat
<1>1. IsFiniteSet(Slot)
  BY FS_Interval, CapAssumption DEF Slot
<1>2. IsFiniteSet(Occupied(t))
  BY <1>1, FS_Subset DEF Occupied
<1> QED BY <1>2, FS_CardinalityType

LEMMA BoundCount ==
  ASSUME NEW t \in Table, NodesFound(t)
  PROVE  Cardinality({k \in Key : Lookup(t, k) # Null}) = Cardinality(Occupied(t))
<1> DEFINE B == {k \in Key : Lookup(t, k) # Null}
           f == [s \in Occupied(t) |-> t[s].key]
<1>1. ASSUME NEW s \in Occupied(t)
      PROVE  s \in Slot /\ t[s] \in Node /\ Holds(t, s, t[s].key)
  BY <1>1 DEF Occupied, Table, Holds
<1>2. ASSUME NEW s \in Occupied(t) PROVE f[s] \in B
  <2>1. Lookup(t, t[s].key) = t[s].value /\ t[s].value # Null /\ t[s].key \in Key
    BY <1>1, LookupHolder, NullAssumption DEF Node
  <2> QED BY <2>1
<1>3. ASSUME NEW s1 \in Occupied(t), NEW s2 \in Occupied(t), f[s1] = f[s2] PROVE s1 = s2
  BY <1>3, StopsFirstUnique DEF NodesFound
<1>4. ASSUME NEW k \in B PROVE \E s \in Occupied(t) : f[s] = k
  <2>1. PICK s \in Slot : Holds(t, s, k)
    BY LookupOfNode
  <2> QED BY <2>1 DEF Holds, Occupied
<1>5. f \in Bijection(Occupied(t), B)
  BY <1>2, <1>3, <1>4, Fun_IsBij
<1> QED
  BY <1>5, OccupiedFinite, FS_Bijection DEF ExistsBijection

-----------------------------------------------------------------------------
(***************************************************************************)
(* hash_set and hash_delete as a whole, on a table whose keys have their   *)
(* home slots to themselves.                                               *)
(***************************************************************************)

\* A search returns a value of the table, or Null.
LEMMA LookupType ==
  ASSUME NEW t \in Table, NEW k
  PROVE  Lookup(t, k) \in Value \cup {Null}
<1>1. CASE Lookup(t, k) # Null
  <2>1. PICK s \in Slot : Holds(t, s, k) /\ Lookup(t, k) = t[s].value
    BY <1>1, LookupOfNode
  <2> QED BY <2>1 DEF Holds, Table, Node
<1> QED BY <1>1

LEMMA StoreNew ==
  ASSUME NoCollision, NEW t \in Table, AtHome(t), NEW k \in Key, Lookup(t, k) = Null,
         NEW v \in Value
  PROVE  /\ Cardinality(Occupied(t)) < Cap
         /\ AtHome(Store(t, k, v))
         /\ Lookup(Store(t, k, v), k) = v
         /\ \A k2 \in Key \ {k} : Lookup(Store(t, k, v), k2) = Lookup(t, k2)
<1> DEFINE h == Hash(k)
           n == [key |-> k, value |-> v]
<1>1. h \in Slot /\ n \in Node /\ n.key = k /\ NodesFound(t)
  BY HashSlot, AtHomeFound DEF Node
<1>2. t[h] = Null
  <2> SUFFICES ASSUME t[h] # Null PROVE FALSE
    OBVIOUS
  <2>1. t[h].key \in Key /\ t[h].value \in Value /\ Hash(t[h].key) = h
    BY <1>1 DEF Table, Node, AtHome, Occupied
  <2>2. Holds(t, h, k)
    BY <2>1 DEF NoCollision, Holds
  <2> QED BY <1>1, <2>1, <2>2, LookupHolder, NullAssumption
<1>3. StopsFirst(t, h, k)
  <2>1. 0 \in Slot /\ Probe(h, 0) = h /\ 0 .. 0 - 1 = {}
    BY <1>1, ProbeStart
  <2> QED BY <1>2, <2>1 DEF StopsFirst, Stops
<1>4. Store(t, k, v) = [t EXCEPT ![h] = n]
  BY <1>1, <1>3, ProbeEndIs DEF Store
<1>5. Cardinality(Occupied(t)) < Cap
  <2>1. IsFiniteSet(Slot) /\ Cardinality(Slot) = Cap
    BY CapAssumption, FS_Interval DEF Slot
  <2>2. IsFiniteSet(Slot \ {h}) /\ Cardinality(Slot \ {h}) = Cap - 1
    BY <1>1, <2>1, FS_RemoveElement
  <2>3. Occupied(t) \subseteq Slot \ {h}
    BY <1>2 DEF Occupied
  <2>4. Cardinality(Occupied(t)) <= Cap - 1 /\ Cardinality(Occupied(t)) \in Nat
    BY <2>2, <2>3, FS_Subset, FS_CardinalityType
  <2> QED BY <2>4, CapAssumption
<1>6. AtHome([t EXCEPT ![h] = n])
  BY <1>1, <1>3, StoreAtHome
<1>7. /\ Lookup([t EXCEPT ![h] = n], k) = v
      /\ \A k2 \in Key \ {k} : Lookup([t EXCEPT ![h] = n], k2) = Lookup(t, k2)
  BY <1>1, <1>3, LookupStored
<1> QED BY <1>4, <1>5, <1>6, <1>7

LEMMA RemoveFound ==
  ASSUME NEW t \in Table, AtHome(t), NEW k \in Key, Lookup(t, k) # Null
  PROVE  /\ AtHome(Remove(t, k))
         /\ Lookup(Remove(t, k), k) = Null
         /\ \A k2 \in Key \ {k} : Lookup(Remove(t, k), k2) = Lookup(t, k2)
<1>1. PICK s \in Slot : Holds(t, s, k) /\ StopsFirst(t, s, k)
  BY LookupOfNode
<1>2. Remove(t, k) = [t EXCEPT ![s] = Null]
  BY <1>1, ProbeEndIs DEF Remove, Found, FoundAt
<1>3. AtHome([t EXCEPT ![s] = Null])
  BY EmptyAtHome
<1>4. [t EXCEPT ![s] = Null] \in Table
  BY DEF Table
<1>5. NodesFound(t) /\ NodesFound([t EXCEPT ![s] = Null])
  BY <1>3, <1>4, AtHomeFound
<1> DEFINE t2 == [t EXCEPT ![s] = Null]
<1>6. Lookup(t2, k) = Null /\ \A k2 \in Key \ {k} : Lookup(t2, k2) = Lookup(t, k2)
  BY <1>1, <1>5, LookupEmptied
<1>7. Remove(t, k) = t2 /\ AtHome(t2)
  BY <1>2, <1>3
<1> HIDE DEF t2
<1> QED BY <1>6, <1>7

LEMMA EmptyTableAtHome ==
  /\ EmptyTable \in Table /\ AtHome(EmptyTable)
  /\ \A k \in Key : Lookup(EmptyTable, k) = Null
<1>1. EmptyTable \in Table /\ AtHome(EmptyTable)
  BY DEF EmptyTable, Table, AtHome, Occupied
<1>2. \A k \in Key : \A s \in Slot : ~ Holds(EmptyTable, s, k)
  BY DEF EmptyTable, Holds
<1> QED BY <1>1, <1>2, LookupAbsent
=============================================================================
