------------------------------- MODULE MCWire -------------------------------
(***************************************************************************)
(* An instance of Wire for TLC, to scale: the longest text fits into the   *)
(* buffer without escapes and does not with many, and two short messages   *)
(* fit into it together.                                                   *)
(***************************************************************************)
EXTENDS Wire

Text(name, group, bytes) ==
  (msgId :> 0) @@ (groupId :> group) @@ (senderName :> name) @@ (sendTime :> 12) @@ (type :> 0)
  @@ (msg :> bytes)

\* a = 97, b = 98.
MCMessages ==
  {Text(<<97, 98, 97>>, 1, <<92, 110, 34>>),    \* \n", and a name that fills its field
   Text(<<97>>, 2, <<>>),                        \* nothing: a line without a colon
   Text(<<195, 169>>, -1, <<47, 7, 226, 130, 172>>),  \* / bell, characters of 2 and 3 bytes
   Text(<<97>>, 1, <<195>>),                    \* a character cut in two
   Text(<<97>>, 1, [i \in 1 .. 40 |-> 34])}     \* quotes: too long with their escapes

-----------------------------------------------------------------------------
\* Values of every kind, also of those that no message has.
Leaves == {JSONNull, JSONBoolean(TRUE), JSONBoolean(FALSE), JSONNumber(0), JSONNumber(-120)}
          \cup {JSONString(<<>>)}
          \cup {JSONString(UTF8(c)) : c \in {1, 12, 31, 34, 47, 92, 127, 128, 8364}}
Nested == {JSONArray(<<>>), EmptyObject} \cup {JSONArray(<<a, b>>) : a, b \in Leaves}
          \cup {JSONObject(<<<<97>>, <<34>>>>, <<JSONArray(<<a>>), EmptyObject>>) : a \in Leaves}

\* What json_serialize_to_string_pretty prints of a value, json_parse_string
\* reads as the same value: no character and no bracket is lost.  (It does not
\* depend on the state, and is evaluated in the initial ones.)
RoundTrip ==
  sent = <<>> =>
    \A v \in Leaves \cup Nested : json_parse_string(json_serialize_to_string_pretty(v)) = v

\* A Message that unpack_message reads from what pack_message has printed is
\* the same in every field, also when the name fills its field, and is printed
\* with the text that follows it in memory; from a text that lacks a field that
\* is not UTF-8, or its end, it reads none.
MessagesReadBack == sent = <<>> => ReadsBack

ASSUME NestingBounded ==
  /\ json_parse_string(<<91, 91, 93, 93>>) = JSONArray(<<JSONArray(<<>>)>>)
  /\ json_parse_string(<<91, 91, 91, 91, 93, 93, 93, 93>>) = JSONError
\* Nothing; {"; [1,]; 01; "\ud800", half a pair.
ASSUME Malformed ==
  \A s \in {<<>>, <<123, 34>>, <<91, 49, 44, 93>>, <<48, 49>>,
             <<34, 92, 117, 100, 56, 48, 48, 34>>} :
    json_parse_string(s) = JSONError
\* "\ud83d\ude00", a whole pair.
ASSUME SurrogatePair ==
  json_parse_string(<<34, 92, 117, 100, 56, 51, 100, 92, 117, 100, 101, 48, 48, 34>>)
    = JSONString(<<240, 159, 152, 128>>)
=============================================================================
