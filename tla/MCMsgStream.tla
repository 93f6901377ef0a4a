---------------------------- MODULE MCMsgStream ----------------------------
(***************************************************************************)
(* Small instances of MsgStream for TLC.  Bytes have two values, so a size *)
(* field of four bytes counts to 15, and leading zero bytes, lost message  *)
(* boundaries and sizes beyond the suggested size all occur.               *)
(***************************************************************************)
EXTENDS MsgStreamChannel

\* For a suggested size of four bytes, so that, as with libuv, a whole size
\* field fits into one read: an empty message, one that fills the buffer, in
\* one read or in several, and one that is too large for it.
MCMessages == {<< >>, <<0, 1, 0, 1>>, <<1, 0, 1, 0, 1>>}
=============================================================================
