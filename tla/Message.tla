------------------------------ MODULE Message ------------------------------
(***************************************************************************)
(* lib/message.c: a Message is packed into a text of JSON and unpacked.    *)
(* The arrays of chars hold what comes before the first NUL; one that is   *)
(* full has no NUL, and is read on into the next.                          *)
(***************************************************************************)
EXTENDS Json, SequencesExt

CONSTANTS
  MAX_CHARS,     \* the size of senderName
  MAX_MSG_DATA,  \* the size of msg
  msgId, groupId, senderName, sendTime, type, msg  \* the names of the fields

FieldNames == {msgId, groupId, senderName, sendTime, type, msg}
ASSUME SizesAssumption == MAX_CHARS \in Nat \ {0} /\ MAX_MSG_DATA \in Nat \ {0}
ASSUME NamesAssumption == \A f \in FieldNames : f \in Nat /\ f > 255

\* A function of the names of the fields.
new_message == [f \in FieldNames |-> IF f \in {senderName, msg} THEN <<>> ELSE 0]

\* What a field of chars reads as, when next comes after it.
CString(chars, size, next) == IF Len(chars) < size THEN chars ELSE chars \o next

json_object_set_field(object, field) ==
  json_object_set_value(object, <<field[1]>>, field[2])

PackedObject(m) ==
  FoldLeft(json_object_set_field, EmptyObject,
    << <<msgId, JSONNumber(m[msgId])>>,
       <<groupId, JSONNumber(m[groupId])>>,
       <<senderName, json_value_init_string(CString(m[senderName], MAX_CHARS, m[msg]))>>,
       <<sendTime, JSONNumber(m[sendTime])>>,
       <<type, JSONNumber(m[type])>>,
       <<msg, json_value_init_string(m[msg])>> >>)
pack_message(m) == json_serialize_to_string_pretty(PackedObject(m))
json_size(m) == json_serialization_size_pretty(PackedObject(m))

\* Mutant of strncpy: strcpy.
strcpy(s, size) == s

strncpy(s, size) == SubSeq(s, 1, IF Len(s) < size THEN Len(s) ELSE size)

\* unpack_message: the two strings are read whether they are there or not.
SegFault == <<>>
Unpacked(object) ==
  LET number(f) == json_object_get_number(object, <<f>>)
      string(f) == json_object_get_string(object, <<f>>)
  IN IF string(msg) = NoString \/ string(senderName) = NoString THEN SegFault
     ELSE [f \in FieldNames |-> CASE f = senderName -> strncpy(string(f), MAX_CHARS)
                                  [] f = msg -> strncpy(string(f), MAX_MSG_DATA)
                                  [] OTHER -> number(f)]
unpack_message(s) == Unpacked(json_value_get_object(json_parse_string(s)))
=============================================================================
