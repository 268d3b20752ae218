---------------------------- MODULE MCHashTable ----------------------------
(***************************************************************************)
(* Instances of HashTable for TLC.  DirectKeys is what the server has as   *)
(* long as every descriptor is below the table's capacity; CollidingKeys   *)
(* adds descriptors beyond it; CrowdedKeys are at home in the first slot   *)
(* and in the last, where probing wraps around, and one is for abs().      *)
(***************************************************************************)
EXTENDS HashTable

CONSTANTS v1, v2

MCValue == {v1, v2}
DirectKeys == 0 .. Cap - 1
CollidingKeys == {1, Cap, 2 * Cap}
CrowdedKeys == {0, Cap, Cap - 1, 1 - Cap, 2 * Cap - 1}
NoDelete == {"get", "set"}
============================================================================
