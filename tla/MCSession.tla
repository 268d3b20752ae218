----------------------------- MODULE MCSession -----------------------------
(***************************************************************************)
(* An instance of Session for TLC.  There are two accounts, one of whose   *)
(* names begins the other's: it is what is left of the other when the      *)
(* password is shorter.  Three inputs are two logins and a chat, or a      *)
(* login and two chats.  The lines have two words, none, and no number.    *)
(***************************************************************************)
EXTENDS Session, TLC

MCAccount == <<"a">> :> [id |-> 1, pass |-> <<"b">>]
             @@ <<"a", "b">> :> [id |-> 2, pass |-> <<"a", "b">>]
MCChar == {"a", "b", " "}
MCTyped == {<<"a", "b">>, <<"b">>, <<"a", " ", "b">>, <<>>}
MCRoom == {1, 2}
MCLine == {[room |-> 1, text |-> <<"a", " ", "b">>], [room |-> 2, text |-> <<" ">>],
           [room |-> None, text |-> <<"a">>]}
=============================================================================
