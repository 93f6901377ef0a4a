------------------------------ MODULE MsgStream ------------------------------
(***************************************************************************)
(* One direction of a connection: a peer that sends messages with          *)
(* buv_send, the bytes in flight, and the accepting socket that cuts the   *)
(* bytes into messages again with alloc_wrap and read_wrap and hands each  *)
(* one to on_recv (src/src/backend_uv.c).                                  *)
(*                                                                         *)
(* The accepting socket object outlives its connections: after             *)
(* sc_socket_close it may be passed to sc_socket_accept again, as          *)
(* src/test/server.c does.                                                 *)
(*                                                                         *)
(* The peer sends one message at a time: it waits for on_send before the   *)
(* next sc_socket_send, because a socket has a single write_request (the   *)
(* discipline of src/test/client.c).                                       *)
(*                                                                         *)
(* The stream is cut by the network wherever it likes: a read returns any  *)
(* number of bytes between one and what was asked for.                     *)
(***************************************************************************)
EXTENDS MsgReader

CONSTANTS
  Messages,   \* the data a message may carry
  MaxSends,   \* bound: messages per connection
  MaxConns    \* bound: connections accepted by the socket

ASSUME MessagesAssumption ==
  Messages \subseteq Seq(Byte) /\ \A m \in Messages : Len(m) < Word
ASSUME BoundsAssumption == MaxSends \in Nat /\ MaxConns \in Nat

VARIABLES
  \* The peer and the wire, of the current connection.
  stream,     \* all the bytes handed to uv_write, in order
  sent,       \* the messages handed to sc_socket_send, in order
  starts,     \* history: starts[i] is where message i begins in stream
  flown,      \* how many bytes of stream have left the peer
  wreq,       \* the peer's write_request: "idle" or "writing"
  peer,       \* "open", "closed" (end of stream follows) or "reset"
  \* The accepting socket.
  rx,         \* its stream: "closed", "reading" or "stopped"
  msg,        \* uv->msg: "null" or "alloc"
  reader,     \* uv->reader, meaningful while msg is "alloc"
  pos,        \* how many bytes of stream were read
  delivered,  \* the messages handed to on_recv on this connection
  ended,      \* on_recv without a message: "no", "eof" or "error"
  conns,      \* connections accepted so far
  \* What the socket's memory and framing suffered; no code reads these.
  sync,       \* history: "ok", "split" or "stale"
  mem         \* history: "ok", or "overrun" after a write past msg->data

wireVars == <<stream, sent, starts, flown, wreq, peer>>
sockVars == <<rx, msg, reader, pos, delivered, ended, conns, sync, mem>>
vars == <<stream, sent, starts, flown, wreq, peer,
          rx, msg, reader, pos, delivered, ended, conns, sync, mem>>

TypeOK ==
  /\ stream \in Seq(Byte)
  /\ sent \in Seq(Messages)
  /\ starts \in Seq(Nat)
  /\ flown \in 0 .. Len(stream)
  /\ wreq \in {"idle", "writing"}
  /\ peer \in {"open", "closed", "reset"}
  /\ rx \in {"closed", "reading", "stopped"}
  /\ msg \in {"null", "alloc"}
  /\ reader \in Reader
  /\ pos \in 0 .. flown
  /\ delivered \in Seq(Seq(Byte))
  /\ ended \in {"no", "eof", "error"}
  /\ conns \in Nat
  /\ sync \in {"ok", "split", "stale"}
  /\ mem \in {"ok", "overrun"}

Init ==
  /\ stream = << >> /\ sent = << >> /\ starts = <<0>>
  /\ flown = 0 /\ wreq = "idle" /\ peer = "closed"
  /\ rx = "closed" /\ msg = "null" /\ reader = msg_reader_init
  /\ pos = 0 /\ delivered = << >> /\ ended = "no" /\ conns = 0
  /\ sync = "ok" /\ mem = "ok"

-----------------------------------------------------------------------------
(* The peer and the wire.                                                  *)

\* uv_write queues the size field and the data, in this order.  A receiver
\* that is "closed" has no connection to send on.
buv_send(m) ==
  /\ rx # "closed" /\ peer = "open" /\ wreq = "idle" /\ Len(sent) < MaxSends
  /\ stream' = stream \o sc_msg_set_size(Len(m)) \o m
  /\ sent' = Append(sent, m)
  /\ starts' = Append(starts, Len(stream) + SC_MSG_SIZE_BYTES + Len(m))
  /\ wreq' = "writing"
  /\ UNCHANGED <<flown, peer>>
  /\ UNCHANGED sockVars

\* The kernel takes more of the queued bytes.
Transmit(n) ==
  /\ peer = "open"
  /\ flown + n <= Len(stream)
  /\ flown' = flown + n
  /\ UNCHANGED <<stream, sent, starts, wreq, peer>>
  /\ UNCHANGED sockVars

\* The write request completes once its last byte has left: on_send.
write_wrap ==
  /\ peer = "open" /\ wreq = "writing" /\ flown = Len(stream)
  /\ wreq' = "idle"
  /\ UNCHANGED <<stream, sent, starts, flown, peer>>
  /\ UNCHANGED sockVars

\* The peer closes its end, or dies: bytes not yet transmitted are dropped.
PeerEnd ==
  /\ peer = "open"
  /\ peer' \in {"closed", "reset"}
  /\ UNCHANGED <<stream, sent, starts, flown, wreq>>
  /\ UNCHANGED sockVars

-----------------------------------------------------------------------------
(* The accepting socket.                                                   *)

\* A new connection is accepted and uv_read_start succeeds.  Neither
\* uv->msg nor uv->reader is touched.  When one of the three calls of libuv
\* fails nothing will be read and nothing here changes; see Sockets.
buv_accept ==
  /\ rx = "closed" /\ conns < MaxConns /\ mem = "ok"
  /\ rx' = "reading"
  /\ stream' = << >> /\ sent' = << >> /\ starts' = <<0>>
  /\ flown' = 0 /\ wreq' = "idle" /\ peer' = "open"
  /\ pos' = 0 /\ delivered' = << >> /\ ended' = "no" /\ conns' = conns + 1
  /\ sync' = IF msg = "alloc" /\ reader.head_pos > 0 THEN "stale" ELSE "ok"
  /\ UNCHANGED <<msg, reader, mem>>

\* alloc_wrap: the message under construction, allocated if there is none.
alloc_wrap == IF msg = "null" THEN msg_reader_init ELSE reader

\* uv__read offers the window of alloc_wrap, gets n bytes, calls read_wrap.
\* A finished message goes to on_recv, which may close the socket, and is
\* then freed.
read_data(n, on_recv_closes) ==
  LET r == parse(alloc_wrap, SubSeq(stream, pos + 1, pos + n))
  IN
  /\ rx = "reading" /\ mem = "ok"
  /\ n <= buffer_len(alloc_wrap) /\ pos + n <= flown
  /\ pos' = pos + n
  /\ reader' = r
  /\ mem' = IF Len(r.data) > Suggested THEN "overrun" ELSE "ok"
  /\ \/ /\ msg_reader_finished(r)
        /\ delivered' = Append(delivered, payload(r))
        /\ msg' = "null"
        /\ rx' = IF on_recv_closes THEN "closed" ELSE "reading"
        /\ sync' = IF sync = "ok" /\ r.head_pos < SC_MSG_SIZE_BYTES
                     THEN "split" ELSE sync
     \/ /\ ~ msg_reader_finished(r) /\ ~ on_recv_closes
        /\ msg' = "alloc"
        /\ UNCHANGED <<delivered, rx, sync>>
  /\ UNCHANGED <<ended, conns>>
  /\ UNCHANGED wireVars

\* The stream was not readable after all: read_wrap with nread = 0.
read_again ==
  /\ rx = "reading" /\ mem = "ok"
  /\ msg' = "alloc" /\ reader' = alloc_wrap
  /\ UNCHANGED <<rx, pos, delivered, ended, conns, sync, mem>>
  /\ UNCHANGED wireVars

\* nread < 0: on_recv without a message, then the partial one is freed.
\* libuv reports the end of the stream once everything before it was read.
read_end(on_recv_closes) ==
  /\ rx = "reading" /\ mem = "ok"
  /\ \/ peer = "closed" /\ pos = flown /\ ended' = "eof"
     \/ peer = "reset" /\ ended' = "error"
  /\ msg' = "null"
  /\ rx' = IF on_recv_closes THEN "closed" ELSE "stopped"
  /\ UNCHANGED <<reader, pos, delivered, conns, sync, mem>>
  /\ UNCHANGED wireVars

\* sc_socket_close outside on_recv: no further callback but on_close, and
\* uv->msg is left as it is.
buv_close ==
  /\ rx \in {"reading", "stopped"} /\ mem = "ok"
  /\ rx' = "closed"
  /\ UNCHANGED <<msg, reader, pos, delivered, ended, conns, sync, mem>>
  /\ UNCHANGED wireVars

-----------------------------------------------------------------------------

Next ==
  \/ \E m \in Messages : buv_send(m)
  \/ \E n \in 1 .. Len(stream) : Transmit(n)
  \/ write_wrap
  \/ PeerEnd
  \/ buv_accept
  \/ \E n \in 1 .. Len(stream), c \in BOOLEAN : read_data(n, c)
  \/ read_again
  \/ \E c \in BOOLEAN : read_end(c)
  \/ buv_close

Spec == Init /\ [][Next]_vars

\* libuv calls read_wrap.
Read == \E c \in BOOLEAN : read_end(c) \/ \E n \in 1 .. Len(stream) : read_data(n, c)

\* libuv's loop keeps polling and the kernel keeps transmitting; the
\* applications may stop at any time.
Fairness ==
  /\ WF_vars(\E n \in 1 .. Len(stream) : Transmit(n))
  /\ WF_vars(write_wrap)
  /\ WF_vars(Read)

LiveSpec == Spec /\ Fairness
-----------------------------------------------------------------------------
(* Safety.                                                                 *)

\* What on_recv saw is what the peer sent, in order, nothing missing in
\* between, nothing invented and no message cut short: the expectation of
\* src/test/test_server_tcp and src/test/test_server_pipe.
InOrder == IsPrefix(delivered, sent)

Framed == sync = "ok" /\ mem = "ok"

\* read_wrap keeps the order and the boundaries of the messages wherever
\* the reads end and whenever the peer dies, except after a read that ended
\* inside a size field whose bytes so far are zero ("split"), or on a
\* connection that inherited a half-read message ("stale").
InOrderWhileFramed == Framed => InOrder

\* When read_wrap reports a clean end of stream, every message that reached
\* this side whole had been handed to on_recv before.
CompleteAtEof ==
  Framed /\ ended = "eof" =>
    \A i \in 1 .. Len(sent) : starts[i + 1] <= flown => i <= Len(delivered)

\* alloc_wrap never offers libuv an empty window, which libuv would answer
\* with UV_ENOBUFS: a message under construction always misses some byte.
WindowNotEmpty ==
  rx = "reading" /\ mem = "ok" => buffer_len(alloc_wrap) > 0

\* The data of a message is stored inside the buffer alloc_wrap allocated,
\* provided the peer announces no more than the suggested size and the
\* reader has not lost the message boundaries.
InAllocation ==
  sync = "ok" /\ (\A i \in 1 .. Len(sent) : Len(sent[i]) <= Suggested)
    => mem = "ok"

\* A socket object that was closed and accepted again delivers the messages
\* of its new connection only, as src/test/test_server_tcp expects of the one
\* client socket of src/test/server.c; splits are left to InOrder.
ReuseInOrder == sync # "split" /\ mem = "ok" => InOrder

-----------------------------------------------------------------------------
(* The inductive invariant behind the properties above.                    *)

\* The stream is the sequence of the frames of the messages sent, and starts
\* is the index of their boundaries.
StreamInv ==
  /\ Len(starts) = Len(sent) + 1
  /\ starts[1] = 0
  /\ starts[Len(sent) + 1] = Len(stream)
  /\ \A i, j \in 1 .. Len(sent) + 1 : i <= j => starts[i] <= starts[j]
  /\ \A i \in 1 .. Len(sent) :
       /\ starts[i + 1] = starts[i] + SC_MSG_SIZE_BYTES + Len(sent[i])
       /\ \A j \in 1 .. SC_MSG_SIZE_BYTES :
            stream[starts[i] + j] = sc_msg_set_size(Len(sent[i]))[j]
       /\ \A j \in 1 .. Len(sent[i]) :
            stream[starts[i] + SC_MSG_SIZE_BYTES + j] = sent[i][j]

ReaderInv == msg = "alloc" => UnderConstruction(reader)

\* Where the message under construction begins in the stream.
base == starts[Len(delivered) + 1]

\* The cursors of the reader and the position in the stream agree, and the
\* bytes collected are those of the stream between base and pos.
CursorInv ==
  /\ msg = "null" => pos = base
  /\ msg = "alloc" =>
       /\ pos = base + reader.head_pos + reader.body_pos
       /\ \A j \in 1 .. reader.head_pos : reader.size_be[j] = stream[base + j]
       /\ \A j \in 1 .. reader.body_pos :
            reader.data[j] = stream[base + SC_MSG_SIZE_BYTES + j]

SyncInv ==
  Framed =>
    /\ Len(delivered) <= Len(sent)
    /\ \A i \in 1 .. Len(delivered) : delivered[i] = sent[i]
    /\ ended = "no" => CursorInv

\* After the end nothing is read any more; at a clean end the next message,
\* if there is one, had not arrived whole.
EndInv ==
  /\ ended # "no" => rx # "reading" /\ peer # "open"
  /\ Framed /\ ended = "eof" /\ Len(delivered) < Len(sent)
       => flown < starts[Len(delivered) + 2]

IndInv ==
  /\ TypeOK /\ StreamInv /\ ReaderInv /\ SyncInv /\ EndInv /\ InAllocation

-----------------------------------------------------------------------------
(* Liveness.                                                               *)

\* Every message sent on a connection that stays open reaches on_recv.
DeliveredEventually ==
  Len(delivered) < Len(sent) ~>
    Len(delivered) = Len(sent) \/ ~ Framed \/ rx # "reading" \/ peer # "open"

\* The end of the connection is reported to on_recv, with framing or without.
EndReported ==
  rx = "reading" /\ peer # "open" ~> rx # "reading" \/ mem = "overrun"
=============================================================================
