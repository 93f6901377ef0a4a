--------------------------- MODULE MsgStreamChannel ---------------------------
(***************************************************************************)
(* MsgStream implements MsgChannel: framing, windows, cursors and partial  *)
(* reads are invisible to the two applications, as long as the message     *)
(* boundaries are not lost.  What loses them is a read that ends inside a  *)
(* size field whose bytes so far are zero, a message larger than its       *)
(* buffer, and a socket accepted again in the middle of a message, until   *)
(* the next connection.  What those steps do is the subject of InOrder and *)
(* ReuseInOrder in MsgStream.                                              *)
(***************************************************************************)
EXTENDS MsgStream

\* A message has arrived when its last byte has left the peer's side.
Arrived == {i \in 1 .. Len(sent) : starts[i + 1] <= flown}

Channel == INSTANCE MsgChannel WITH arrived <- Arrived, receiver <- rx

\* buv_send, alloc_wrap, read_wrap and the single write_request together
\* implement the abstract channel: every step on bytes that keeps the framing
\* is a step on whole messages or invisible, the end of the stream is reported
\* in its place among the messages, and a reused socket starts afresh.
ImplementsChannel ==
  Channel!Init /\ [][Framed' => Channel!Next \/ UNCHANGED Channel!vars]_vars
=============================================================================
