-------------------------------- MODULE Wire --------------------------------
(***************************************************************************)
(* The frames of a connection hold the texts of lib/message.c: Pack is its *)
(* pack_message, and Unpack its unpack_message.                            *)
(***************************************************************************)
EXTENDS Framing, Message

\* The fields are UTF-8, and the text and its NUL fit into the buffer.
FitsBuffer(m) ==
  /\ is_valid_utf8(CString(m[senderName], MAX_CHARS, m[msg]))
  /\ is_valid_utf8(m[msg])
  /\ json_size(m) <= MAX_BUFF

EmptyText(m) == m[msg] = <<>>
=============================================================================
