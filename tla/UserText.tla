----------------------------- MODULE UserText -----------------------------
(***************************************************************************)
(* Names and passwords on their way from the client's terminal to the dao: *)
(* user_msg of client.c prints them into one text, separated by a blank,   *)
(* and msg2user of config.c takes the text apart again with sscanf.  A     *)
(* text is a sequence of characters; only the blank is told from others.   *)
(***************************************************************************)
EXTENDS Integers, Sequences

CONSTANTS
  Blank,  \* white space
  Now     \* a character of the time stamp: in no name or password

ASSUME BlankAssumption == Blank # Now

IsWord(s) == s # <<>> /\ \A i \in DOMAIN s : s[i] # Blank

\* sscanf's %s: skip white space, and take what comes before the next.
WordStart(s) == CHOOSE i \in 1 .. Len(s) + 1 :
                  /\ i <= Len(s) => s[i] # Blank
                  /\ \A j \in 1 .. i - 1 : s[j] = Blank
WordEnd(s) == CHOOSE i \in WordStart(s) .. Len(s) + 1 :
                /\ i <= Len(s) => s[i] = Blank
                /\ \A j \in WordStart(s) .. i - 1 : s[j] # Blank
FirstWord(s) == SubSeq(s, WordStart(s), WordEnd(s) - 1)
AfterFirstWord(s) == SubSeq(s, WordEnd(s), Len(s))

\* user_msg: "%s %s %ld".
user_msg(username, pass) == username \o <<Blank>> \o pass \o <<Blank, Now>>

\* msg2user: the same format.  A field that is missing stays empty.
msg2user(msg) == [username |-> FirstWord(msg), pass |-> FirstWord(AfterFirstWord(msg))]
=============================================================================
