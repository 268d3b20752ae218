-------------------------------- MODULE Json --------------------------------
(***************************************************************************)
(* What lib/parson.c does for lib/message.c: a value is printed, indented, *)
(* and a text is parsed.                                                   *)
(*                                                                         *)
(* A character is its code, a text is a sequence of them with NULs after   *)
(* its end, and a string ends before its first NUL.  The name of a field   *)
(* is one character, above every code, and a step of the indentation one   *)
(* space.  A number is an integer without exponent.  Memory suffices.      *)
(***************************************************************************)
EXTENDS Integers, Sequences, TLC

CONSTANT MAX_NESTING
ASSUME NestingAssumption == MAX_NESTING \in Nat

Ch == [newline |-> 10, space |-> 32, quote |-> 34, comma |-> 44, minus |-> 45, slash |-> 47,
       zero |-> 48, colon |-> 58, openArray |-> 91, backslash |-> 92, closeArray |-> 93,
       u |-> 117, openObject |-> 123, closeObject |-> 125]
Digits == 48 .. 57
True == <<116, 114, 117, 101>>
False == <<102, 97, 108, 115, 101>>
Null == <<110, 117, 108, 108>>

\* A string that is NULL.
NoString == <<-1>>

At(s, i) == IF i \in DOMAIN s THEN s[i] ELSE 0
HasAt(s, i, word) == \A k \in DOMAIN word : At(s, i + k - 1) = word[k]
\* The first place from i on without one of these characters, NUL not being one.
Past(s, i, chars) == CHOOSE j \in i .. i + Len(s) : /\ At(s, j) \notin chars
                                                    /\ \A k \in i .. j - 1 : At(s, k) \in chars
SkipWhitespaces(s, i) == Past(s, i, {Ch.space} \cup 9 .. 13)
strndup(s) == SubSeq(s, 1, Past(s, 1, Int \ {0}) - 1)

-----------------------------------------------------------------------------
(***************************************************************************)
(* Values.  JSONError is the type of a value that is NULL.                 *)
(***************************************************************************)
JSONError == [type |-> "error"]
JSONNull == [type |-> "null"]
JSONBoolean(b) == [type |-> "boolean", boolean |-> b]
JSONNumber(n) == [type |-> "number", number |-> n]
JSONString(s) == [type |-> "string", string |-> s]
JSONArray(items) == [type |-> "array", items |-> items]
JSONObject(names, values) == [type |-> "object", names |-> names, values |-> values]
EmptyObject == JSONObject(<<>>, <<>>)

Has(object, name) == \E i \in DOMAIN object.names : object.names[i] = name
json_object_get_value(object, name) ==
  IF object = JSONError \/ ~ Has(object, name) THEN JSONError
  ELSE object.values[CHOOSE i \in DOMAIN object.names : object.names[i] = name]
json_value_get_object(v) == IF v.type = "object" THEN v ELSE JSONError
json_object_get_string(object, name) ==
  LET v == json_object_get_value(object, name) IN
  IF v.type = "string" THEN v.string ELSE NoString
json_object_get_number(object, name) ==
  LET v == json_object_get_value(object, name) IN
  IF v.type = "number" THEN v.number ELSE 0

json_object_add(object, name, v) ==
  IF Has(object, name) THEN JSONError
  ELSE JSONObject(Append(object.names, name), Append(object.values, v))
\* The object, as it is after a call that may fail and changes nothing then.
json_object_set_value(object, name, v) ==
  CASE v = JSONError -> object
    [] v # JSONError /\ Has(object, name) ->
         [object EXCEPT !.values[CHOOSE i \in DOMAIN object.names : object.names[i] = name] = v]
    [] OTHER -> json_object_add(object, name, v)

-----------------------------------------------------------------------------
(***************************************************************************)
(* UTF-8.                                                                  *)
(***************************************************************************)
Continuation == 128 .. 191
num_bytes_in_utf8_sequence(c) ==
  CASE c \in {192, 193} \/ c > 244 \/ c \in Continuation -> 0
    [] c < 128 -> 1
    [] c \in 194 .. 223 -> 2
    [] c \in 224 .. 239 -> 3
    [] c \in 240 .. 244 -> 4
Surrogates == 55296 .. 57343
LeadSurrogates == 55296 .. 56319
TrailSurrogates == 56320 .. 57343

verify_utf8_sequence(s, i) ==
  LET n == num_bytes_in_utf8_sequence(s[i])
      low(k) == (At(s, i + k) % 64) * 64 ^ (n - 1 - k)
      cp == CASE n = 1 -> s[i]
              [] n = 2 -> (s[i] % 32) * 64 + low(1)
              [] n = 3 -> (s[i] % 16) * 4096 + low(1) + low(2)
              [] n = 4 -> (s[i] % 8) * 262144 + low(1) + low(2) + low(3)
  IN /\ n # 0
     /\ \A k \in 1 .. n - 1 : At(s, i + k) \in Continuation
     /\ cp >= <<0, 128, 2048, 65536>>[n]
     /\ cp <= 1114111
     /\ cp \notin Surrogates

RECURSIVE ValidFrom(_, _)
ValidFrom(s, i) == i > Len(s) \/ /\ verify_utf8_sequence(s, i)
                                 /\ ValidFrom(s, i + num_bytes_in_utf8_sequence(s[i]))
is_valid_utf8(s) == ValidFrom(s, 1)

\* The bytes that parse_utf16 writes for a code point.
UTF8(cp) ==
  LET cont(k) == 128 + ((cp \div (64 ^ k)) % 64)
  IN CASE cp < 128 -> <<cp>>
       [] cp \in 128 .. 2047 -> <<192 + (cp \div 64), cont(0)>>
       [] cp \in 2048 .. 65535 -> <<224 + (cp \div 4096), cont(1), cont(0)>>
       [] cp > 65535 -> <<240 + (cp \div 262144), cont(2), cont(1), cont(0)>>

json_value_init_string(s) == IF is_valid_utf8(s) THEN JSONString(s) ELSE JSONError

-----------------------------------------------------------------------------
(***************************************************************************)
(* Printing.                                                               *)
(***************************************************************************)
\* What follows a backslash, and the character it stands for.
Escapes == 34 :> 34 @@ 92 :> 92 @@ 47 :> 47
           @@ 98 :> 8 @@ 102 :> 12 @@ 110 :> 10 @@ 114 :> 13 @@ 116 :> 9
HexDigit(n) == IF n < 10 THEN Ch.zero + n ELSE 87 + n

RECURSIVE Decimal(_)
Decimal(n) == CASE n < 0 -> <<Ch.minus>> \o Decimal(-n)
                [] n \in 0 .. 9 -> <<Ch.zero + n>>
                [] n > 9 -> Append(Decimal(n \div 10), Ch.zero + (n % 10))

EscapeOf(c) ==
  CASE \E e \in DOMAIN Escapes : Escapes[e] = c ->
         <<Ch.backslash, CHOOSE e \in DOMAIN Escapes : Escapes[e] = c>>
    [] c < 32 /\ c \notin {8, 9, 10, 12, 13} ->
         <<Ch.backslash, Ch.u, Ch.zero, Ch.zero, HexDigit(c \div 16), HexDigit(c % 16)>>
    [] OTHER -> <<c>>

Quoted(s) == <<Ch.quote>> \o s \o <<Ch.quote>>
RECURSIVE Escaped(_)
Escaped(s) == IF s = <<>> THEN <<>> ELSE EscapeOf(Head(s)) \o Escaped(Tail(s))
json_serialize_string(s) == Quoted(Escaped(s))

append_indent(level) == [i \in 1 .. level |-> Ch.space]

\* The lines between the brackets of an array or an object.
RECURSIVE Lines(_, _)
Lines(texts, level) ==
  IF texts = <<>> THEN <<>>
  ELSE append_indent(level) \o Head(texts) \o (IF Len(texts) > 1 THEN <<Ch.comma>> ELSE <<>>)
         \o <<Ch.newline>> \o Lines(Tail(texts), level)
Block(texts, level) ==
  IF texts = <<>> THEN <<>>
  ELSE <<Ch.newline>> \o Lines(texts, level + 1) \o append_indent(level)

RECURSIVE Serialize(_, _)
Serialize(v, level) ==
  CASE v.type = "array" ->
         <<Ch.openArray>>
           \o Block([i \in DOMAIN v.items |-> Serialize(v.items[i], level + 1)], level)
           \o <<Ch.closeArray>>
    [] v.type = "object" ->
         <<Ch.openObject>>
           \o Block([i \in DOMAIN v.names |-> json_serialize_string(v.names[i])
                       \o <<Ch.colon, Ch.space>> \o Serialize(v.values[i], level + 1)], level)
           \o <<Ch.closeObject>>
    [] v.type = "string" -> json_serialize_string(v.string)
    [] v.type = "boolean" -> IF v.boolean THEN True ELSE False
    [] v.type = "number" -> Decimal(v.number)
    [] v.type = "null" -> Null

json_serialize_to_string_pretty(v) == Serialize(v, 0)
\* The NUL is counted.
json_serialization_size_pretty(v) == Len(Serialize(v, 0)) + 1

-----------------------------------------------------------------------------
(***************************************************************************)
(* Parsing.  A parser returns what it found and where it ended; 0: it failed.*)
(***************************************************************************)
Found(v, i) == [value |-> v, at |-> i]
Failed == Found(JSONError, 0)

\* Mutant of ClosingQuote: what follows a backslash is not skipped.
RECURSIVE ClosingQuoteAnyQuote(_, _)
ClosingQuoteAnyQuote(s, i) ==
  CASE At(s, i) = Ch.quote -> i + 1
    [] At(s, i) = 0 -> 0
    [] OTHER -> ClosingQuoteAnyQuote(s, i + 1)

\* The place after the closing quote; 0 if there is none.
RECURSIVE ClosingQuote(_, _)
ClosingQuote(s, i) ==
  CASE At(s, i) = Ch.quote -> i + 1
    [] At(s, i) = 0 \/ (At(s, i) = Ch.backslash /\ At(s, i + 1) = 0) -> 0
    [] At(s, i) = Ch.backslash /\ At(s, i + 1) # 0 -> ClosingQuote(s, i + 2)
    [] OTHER -> ClosingQuote(s, i + 1)
skip_quotes(s, i) == IF At(s, i) # Ch.quote THEN 0 ELSE ClosingQuote(s, i + 1)

hex_char_to_int(c) == CASE c \in Digits -> c - 48
                        [] c \in 97 .. 102 -> c - 87
                        [] c \in 65 .. 70 -> c - 55
                        [] OTHER -> -1
\* Four hexadecimal digits; -1 if one is missing.
parse_utf16_hex(s, i) ==
  LET x == [k \in 0 .. 3 |-> hex_char_to_int(At(s, i + k))]
  IN IF \E k \in 0 .. 3 : x[k] = -1 THEN -1
     ELSE ((x[0] * 16 + x[1]) * 16 + x[2]) * 16 + x[3]

\* The bytes for the \u escape whose u is at i, and the place after it.
parse_utf16(s, i) ==
  LET cp == parse_utf16_hex(s, i + 1)
      trail == parse_utf16_hex(s, i + 7)
  IN CASE cp = -1 \/ cp \in TrailSurrogates -> Failed
       [] cp \in LeadSurrogates ->
            IF HasAt(s, i + 5, <<Ch.backslash, Ch.u>>) /\ trail \in TrailSurrogates
            THEN Found(UTF8((cp - 55296) * 1024 + (trail - 56320) + 65536), i + 11)
            ELSE Failed
       [] OTHER -> Found(UTF8(cp), i + 5)

\* s without its escapes, from i on; NoString if it is no string of JSON.
RECURSIVE Unescaped(_, _)
Unescaped(s, i) ==
  LET then(bytes, j) == LET rest == Unescaped(s, j)
                        IN IF rest = NoString THEN NoString ELSE bytes \o rest
  IN CASE i > Len(s) -> <<>>
       [] i <= Len(s) /\ s[i] = Ch.backslash ->
            (CASE At(s, i + 1) \in DOMAIN Escapes -> then(<<Escapes[s[i + 1]]>>, i + 2)
               [] At(s, i + 1) = Ch.u ->
                    LET r == parse_utf16(s, i + 1)
                    IN IF r.at = 0 THEN NoString ELSE then(r.value, r.at)
               [] OTHER -> NoString)
       [] i <= Len(s) /\ s[i] < 32 -> NoString
       [] OTHER -> then(<<s[i]>>, i + 1)
process_string(s) == LET t == Unescaped(s, 1) IN IF t = NoString THEN NoString ELSE strndup(t)

get_quoted_string(s, i) ==
  LET end == skip_quotes(s, i)
      string == process_string(SubSeq(s, i + 1, end - 2))
  IN IF end = 0 \/ string = NoString THEN Failed ELSE Found(string, end)

parse_string_value(s, i) ==
  LET r == get_quoted_string(s, i)
  IN IF r.at = 0 THEN Failed ELSE Found(JSONString(r.value), r.at)

parse_boolean_value(s, i) ==
  CASE HasAt(s, i, True) -> Found(JSONBoolean(TRUE), i + 4)
    [] HasAt(s, i, False) -> Found(JSONBoolean(FALSE), i + 5)
    [] OTHER -> Failed

parse_null_value(s, i) == IF HasAt(s, i, Null) THEN Found(JSONNull, i + 4) ELSE Failed

\* strtod takes a sign and digits, and nothing when there is no digit.
RECURSIVE NumberOf(_)
NumberOf(digits) == IF digits = <<>> THEN 0
                    ELSE 10 * NumberOf(SubSeq(digits, 1, Len(digits) - 1))
                         + digits[Len(digits)] - Ch.zero
parse_number_value(s, i) ==
  LET start == IF At(s, i) = Ch.minus THEN i + 1 ELSE i
      end == Past(s, start, Digits)
      n == NumberOf(SubSeq(s, start, end - 1))
  IN CASE end = start -> Found(JSONNumber(0), i)
       [] end > start + 1 /\ s[start] = Ch.zero -> Failed  \* is_decimal
       [] OTHER -> Found(JSONNumber(IF start = i THEN n ELSE -n), end)

RECURSIVE parse_value(_, _, _)
RECURSIVE Members(_, _, _, _)
RECURSIVE Elements(_, _, _, _)

\* The rest of an object: after the value of a member, after its name, from its name on.
AfterMember(s, name, v, nesting, object) ==
  LET grown == json_object_add(object, name, v.value)
      next == SkipWhitespaces(s, v.at)
  IN CASE v.at = 0 \/ grown = JSONError -> Failed
       [] At(s, next) = Ch.comma -> Members(s, SkipWhitespaces(s, next + 1), nesting, grown)
       [] At(s, next) = Ch.closeObject -> Found(grown, next + 1)
       [] OTHER -> Failed
AfterName(s, key, nesting, object) ==
  LET colon == SkipWhitespaces(s, key.at)
  IN IF key.at = 0 \/ At(s, colon) # Ch.colon THEN Failed
     ELSE AfterMember(s, key.value, parse_value(s, colon + 1, nesting), nesting, object)
Members(s, i, nesting, object) == AfterName(s, get_quoted_string(s, i), nesting, object)
parse_object_value(s, i, nesting) ==
  LET first == SkipWhitespaces(s, i + 1)
  IN IF At(s, first) = Ch.closeObject THEN Found(EmptyObject, first + 1)
     ELSE Members(s, first, nesting, EmptyObject)

\* The rest of an array: after an item, from an item on.
AfterItem(s, v, nesting, items) ==
  LET next == SkipWhitespaces(s, v.at)
  IN CASE v.at = 0 -> Failed
       [] At(s, next) = Ch.comma ->
            Elements(s, SkipWhitespaces(s, next + 1), nesting, Append(items, v.value))
       [] At(s, next) = Ch.closeArray -> Found(JSONArray(Append(items, v.value)), next + 1)
       [] OTHER -> Failed
Elements(s, i, nesting, items) == AfterItem(s, parse_value(s, i, nesting), nesting, items)
parse_array_value(s, i, nesting) ==
  LET first == SkipWhitespaces(s, i + 1)
  IN IF At(s, first) = Ch.closeArray THEN Found(JSONArray(<<>>), first + 1)
     ELSE Elements(s, first, nesting, <<>>)

parse_value(s, i, nesting) ==
  LET start == SkipWhitespaces(s, i)
      c == At(s, start)
  IN CASE nesting > MAX_NESTING -> Failed
       [] c = Ch.openObject -> parse_object_value(s, start, nesting + 1)
       [] c = Ch.openArray -> parse_array_value(s, start, nesting + 1)
       [] c = Ch.quote -> parse_string_value(s, start)
       [] c \in {Head(True), Head(False)} -> parse_boolean_value(s, start)
       [] c = Ch.minus \/ c \in Digits -> parse_number_value(s, start)
       [] c = Head(Null) -> parse_null_value(s, start)
       [] OTHER -> Failed

\* A byte order mark is skipped; what follows the value is not looked at.
json_parse_string(s) ==
  parse_value(s, IF HasAt(s, 1, <<239, 187, 191>>) THEN 4 ELSE 1, 0).value
=============================================================================
