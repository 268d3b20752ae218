----------------------------- MODULE MCChatLog -----------------------------
(***************************************************************************)
(* An instance of ChatLog for TLC.  In radix 2 the id of room 2 begins     *)
(* with that of room 1.  The name two is also the text of a user's id.     *)
(***************************************************************************)
EXTENDS ChatLog

CONSTANTS one, two, alice, hi

MCUser == {one, two}
MCName == {alice, two}
MCText == {hi}
=============================================================================
