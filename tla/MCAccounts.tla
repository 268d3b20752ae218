----------------------------- MODULE MCAccounts -----------------------------
(***************************************************************************)
(* Instances of Accounts for TLC: which Redis commands may answer errors.  *)
(***************************************************************************)
EXTENDS Accounts, TLC

CONSTANTS alice, bob, p1, p2

MCName == {alice, bob}
MCPass == {p1, p2}
MCFd == {7, 8}

AllButIncr == Commands \ {"INCR"}
OnlyIncr == {"INCR"}

Symmetry == Permutations(MCName) \cup Permutations(MCPass)
=============================================================================
