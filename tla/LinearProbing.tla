--------------------------- MODULE LinearProbing ---------------------------
(***************************************************************************)
(* The open-addressing table of lib/hashtable.c as constant-level          *)
(* operators: where a key hashes to, where the probe loop of hash_get,     *)
(* hash_set and hash_delete stops, and what each of them makes of the      *)
(* table.  HashTable.tla runs the same loop one iteration at a time;       *)
(* ChatServer.tla uses the operators for its table of clients.             *)
(*                                                                         *)
(* hash_delete empties the slot it hits and leaves no tombstone, so a key  *)
(* that was stored beyond that slot can become unreachable.                *)
(***************************************************************************)
EXTENDS Integers

CONSTANTS
  Cap,    \* hm->cap, the number of slots (1024 in server.c)
  Key,    \* the keys in use: file descriptors
  Value,  \* what a node points to: bufferevents
  Null    \* an empty slot, and the 0 that a failed search returns

Slot == 0 .. Cap - 1
Node == [key : Key, value : Value]
Table == [Slot -> Node \cup {Null}]

ASSUME CapAssumption == Cap \in Nat \ {0}
ASSUME KeyAssumption == Key \subseteq Int
ASSUME NullAssumption == Null \notin Node /\ Null \notin Value

EmptyTable == [s \in Slot |-> Null]
Occupied(t) == {s \in Slot : t[s] # Null}

(***************************************************************************)
(* abs(key) % cap, and the step of the probe loop: the next slot, with     *)
(* wrap-around.  Probe(h, i) is the slot of iteration i from slot h.       *)
(***************************************************************************)
Hash(k) == (IF k < 0 THEN -k ELSE k) % Cap

\* Mutants of NextSlot: the wrap-around skips slot 0, or comes one slot late.
NextSlotFromOne(h) == IF h < Cap - 1 THEN h + 1 ELSE 1
NextSlotLate(h) == IF h < Cap THEN h + 1 ELSE 0

NextSlot(h) == IF h < Cap - 1 THEN h + 1 ELSE 0
Probe(h, i) == IF h + i < Cap THEN h + i ELSE h + i - Cap

(***************************************************************************)
(* The loop leaves slot s when it is empty or holds the key.  On a full    *)
(* table that lacks the key no slot stops it: the C loop runs forever.     *)
(***************************************************************************)
Stops(t, s, k) == t[s] = Null \/ t[s].key = k
StopsFirst(t, s, k) ==
  \E i \in Slot : /\ s = Probe(Hash(k), i)
                  /\ Stops(t, s, k)
                  /\ \A j \in 0 .. i - 1 : ~ Stops(t, Probe(Hash(k), j), k)
Diverges(t, k) == \A s \in Slot : ~ Stops(t, s, k)
ProbeEnd(t, k) == CHOOSE s \in Slot : StopsFirst(t, s, k)

(***************************************************************************)
(* The operations.  A search finds the key in slot s when the loop ends    *)
(* there on a node of the key; Store is hash_set with room in the table.   *)
(***************************************************************************)
Holds(t, s, k) == t[s] # Null /\ t[s].key = k
FoundAt(t, s, k) == StopsFirst(t, s, k) /\ Holds(t, s, k)
Found(t, k) == \E s \in Slot : FoundAt(t, s, k)

Lookup(t, k) == IF Found(t, k) THEN t[ProbeEnd(t, k)].value ELSE Null
Store(t, k, v) == [t EXCEPT ![ProbeEnd(t, k)] = [key |-> k, value |-> v]]
Remove(t, k) == IF Found(t, k) THEN [t EXCEPT ![ProbeEnd(t, k)] = Null] ELSE t

(***************************************************************************)
(* What a table should be: the search for the key of a node ends on that   *)
(* node.  It follows that no key is stored twice.                          *)
(***************************************************************************)
NodesFound(t) == \A s \in Occupied(t) : StopsFirst(t, s, t[s].key)
=============================================================================
