------------------------------ MODULE MsgReader ------------------------------
(***************************************************************************)
(* The message format and the incremental reader of short-circuit:         *)
(* src/src/msg.c, src/src/msg_reader.c and the buffer handed to libuv by   *)
(* alloc_wrap (src/src/backend_uv.c).                                      *)
(*                                                                         *)
(* On the wire a message is its size in SC_MSG_SIZE_BYTES big-endian bytes *)
(* followed by that many bytes of data.  The reader is handed the bytes of *)
(* a stream in pieces of any length and keeps two cursors, one into the    *)
(* size field of the message under construction and one into its data.     *)
(*                                                                         *)
(* All operators here are pure: a reader is a record                       *)
(*   size_be   the four bytes of msg->size_be                              *)
(*   head_pos  bytes of size_be received so far (head_pos - &size_be)      *)
(*   data      the bytes written to msg->data so far                       *)
(*   body_pos  bytes of data received so far (body_pos - msg->data)        *)
(***************************************************************************)
EXTENDS Integers, Sequences, SequencesExt

CONSTANTS
  Base,      \* number of values of a byte (256 in the code)
  Suggested  \* suggested_size of libuv's alloc callback (65536 in libuv)

ASSUME BaseAssumption == Base \in Nat /\ Base >= 2
ASSUME SuggestedAssumption == Suggested \in Nat /\ Suggested >= 1

SC_MSG_SIZE_BYTES == 4

Byte == 0 .. Base - 1

\* Number of values of an `unsigned`: arithmetic on sizes is modulo Word.
Word == Base * Base * Base * Base

Smaller(a, b) == IF a < b THEN a ELSE b

-----------------------------------------------------------------------------
(* The size field: sc_msg_set_size and sc_msg_get_size, with the byte      *)
(* order conversions they call (ctb_htonl, ctb_ntohl).                     *)

\* Mutant: the bytes are stored least significant first (missing ctb_htonl).
Mutant_set_size_native(size) ==
  << size % Base,
     (size \div Base) % Base,
     ((size \div Base) \div Base) % Base,
     (((size \div Base) \div Base) \div Base) % Base >>

sc_msg_set_size(size) ==
  << (((size \div Base) \div Base) \div Base) % Base,
     ((size \div Base) \div Base) % Base,
     (size \div Base) % Base,
     size % Base >>

sc_msg_get_size(size_be) ==
  ((size_be[1] * Base + size_be[2]) * Base + size_be[3]) * Base + size_be[4]

-----------------------------------------------------------------------------
(* The reader.                                                             *)

Reader == [size_be : [1 .. SC_MSG_SIZE_BYTES -> Byte],
           head_pos : 0 .. SC_MSG_SIZE_BYTES,
           data : Seq(Byte),
           body_pos : Nat]

\* A message fresh from sc_msg_alloc, sc_msg_init and msg_reader_init.
msg_reader_init ==
  [size_be |-> <<0, 0, 0, 0>>, head_pos |-> 0, data |-> << >>, body_pos |-> 0]

msg_reader_avail_head_size(r) == SC_MSG_SIZE_BYTES - r.head_pos

msg_reader_avail_body_size(r) ==
  (sc_msg_get_size(r.size_be) - r.body_pos) % Word

\* Mutant: an empty message is not seen to be finished.
Mutant_finished_after_data(r) ==
  r.body_pos > 0 /\ msg_reader_avail_body_size(r) = 0

\* The test looks at the data cursor only, also while the size is incomplete.
msg_reader_finished(r) == msg_reader_avail_body_size(r) = 0

skip_pos(pos, avail, size) == pos + Smaller(avail, size)

\* libuv stores bs at head_pos, then msg_reader_parse_head moves the cursor.
msg_reader_parse_head(r, bs) ==
  [r EXCEPT
    !.size_be = [i \in 1 .. SC_MSG_SIZE_BYTES |->
                   IF r.head_pos < i /\ i <= r.head_pos + Len(bs)
                     THEN bs[i - r.head_pos]
                     ELSE r.size_be[i]],
    !.head_pos = skip_pos(@, msg_reader_avail_head_size(r), Len(bs))]

\* Mutant: bs is stored at the beginning of the data, not at the cursor.
Mutant_parse_body_at_start(r, bs) ==
  [r EXCEPT
    !.data = [i \in 1 .. r.body_pos + Len(bs) |->
                IF i <= Len(bs) THEN bs[i] ELSE (r.data \o bs)[i]],
    !.body_pos = skip_pos(@, msg_reader_avail_body_size(r), Len(bs))]

\* libuv stores bs at body_pos, then msg_reader_parse_body moves the cursor.
msg_reader_parse_body(r, bs) ==
  [r EXCEPT
    !.data = SubSeq(@, 1, r.body_pos) \o bs,
    !.body_pos = skip_pos(@, msg_reader_avail_body_size(r), Len(bs))]

-----------------------------------------------------------------------------
(* The window alloc_wrap offers libuv: what is missing of the size, or     *)
(* else of the data, but at most the suggested size.                       *)

\* Mutant: the window is not limited to the message under construction.
Mutant_buffer_len_suggested(r) ==
  IF msg_reader_avail_head_size(r) > 0
    THEN Smaller(msg_reader_avail_head_size(r), Suggested)
    ELSE Suggested

buffer_len(r) ==
  Smaller(IF msg_reader_avail_head_size(r) > 0
            THEN msg_reader_avail_head_size(r)
            ELSE msg_reader_avail_body_size(r),
          Suggested)

\* read_wrap's dispatch of the bytes received.
parse(r, bs) ==
  IF msg_reader_avail_head_size(r) > 0
    THEN msg_reader_parse_head(r, bs)
    ELSE msg_reader_parse_body(r, bs)

\* What alloc_wrap may find in uv->reader: data after a whole size field only,
\* and then less of it than announced.
UnderConstruction(r) ==
  /\ Len(r.data) = r.body_pos
  /\ r.head_pos < SC_MSG_SIZE_BYTES => r.body_pos = 0
  /\ r.head_pos = SC_MSG_SIZE_BYTES => r.body_pos < sc_msg_get_size(r.size_be)

\* What on_recv sees of a finished message: its first sc_msg_get_size bytes.
payload(r) == SubSeq(r.data, 1, sc_msg_get_size(r.size_be))
=============================================================================
