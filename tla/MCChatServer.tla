---------------------------- MODULE MCChatServer ----------------------------
(***************************************************************************)
(* Instances of ChatServer for TLC.                                        *)
(***************************************************************************)
EXTENDS ChatServer, TLC

CONSTANTS alice, bob, c1, c2, c3, lobby

MCUser == {alice, bob}
MCConn == {c1, c2, c3}
MCRoom == {lobby}
MCMembers == lobby :> MCUser

DirectFds == {1, 2}       \* with Cap = 3: below the capacity
CollidingFds == {1, 3, 5} \* with Cap = 2: one home slot, and one too many

Chatting == {"LOGIN", "TEXT"}

\* The server starts on a database in which everybody is offline.
FreshInit == Init /\ \A u \in User : sockfd[u] \in {Offline, Null}
FreshSpec == FreshInit /\ [][Next]_vars

Symmetry == Permutations(MCUser) \cup Permutations(MCConn)
=============================================================================
