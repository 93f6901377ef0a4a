------------------------------ MODULE MsgChannel ------------------------------
(***************************************************************************)
(* What a connection of short-circuit promises its two applications, with  *)
(* no byte in sight: messages are sent, arrive and are delivered in the    *)
(* same order, each once and whole.  A peer that goes away stops what has  *)
(* not arrived.  The receiver is told of the end once: as an orderly one   *)
(* only after everything that arrived was delivered, as an error at any    *)
(* time.  Then, or when it closes, nothing more is delivered; the socket   *)
(* may be used for another connection.                                     *)
(***************************************************************************)
EXTENDS Integers, Sequences

CONSTANT Messages

VARIABLES
  sent,       \* the messages the peer sent on this connection
  arrived,    \* the numbers of those that reached the receiver's side
  delivered,  \* the messages its application was given
  peer,       \* "open", "closed" or "reset"
  receiver,   \* "closed", "reading" or "stopped"
  ended       \* what the receiver was told: "no", "eof" or "error"

vars == <<sent, arrived, delivered, peer, receiver, ended>>

Init ==
  /\ sent = << >> /\ arrived = {} /\ delivered = << >>
  /\ peer = "closed" /\ receiver = "closed" /\ ended = "no"

Connect ==
  /\ receiver = "closed"
  /\ sent' = << >> /\ arrived' = {} /\ delivered' = << >>
  /\ peer' = "open" /\ receiver' = "reading" /\ ended' = "no"

Send(m) ==
  /\ peer = "open"
  /\ sent' = Append(sent, m)
  /\ UNCHANGED <<arrived, delivered, peer, receiver, ended>>

\* Messages arrive in order, one or several at a time.
Arrive ==
  /\ peer = "open"
  /\ arrived' \subseteq 1 .. Len(sent)
  /\ arrived \subseteq arrived'
  /\ \A i \in arrived' : 1 .. i \subseteq arrived'
  /\ UNCHANGED <<sent, delivered, peer, receiver, ended>>

PeerEnd ==
  /\ peer = "open"
  /\ peer' \in {"closed", "reset"}
  /\ UNCHANGED <<sent, arrived, delivered, receiver, ended>>

\* The application may close the socket when it is given a message.
Deliver ==
  /\ receiver = "reading"
  /\ Len(delivered) + 1 \in arrived
  /\ delivered' = Append(delivered, sent[Len(delivered) + 1])
  /\ receiver' \in {"reading", "closed"}
  /\ UNCHANGED <<sent, arrived, peer, ended>>

End ==
  /\ receiver = "reading"
  /\ \/ /\ peer = "closed" /\ ended' = "eof"
        /\ \A i \in arrived : i <= Len(delivered)
     \/ peer = "reset" /\ ended' = "error"
  /\ receiver' \in {"stopped", "closed"}
  /\ UNCHANGED <<sent, arrived, delivered, peer>>

Close ==
  /\ receiver \in {"reading", "stopped"}
  /\ receiver' = "closed"
  /\ UNCHANGED <<sent, arrived, delivered, peer, ended>>

Next ==
  \/ Connect
  \/ \E m \in Messages : Send(m)
  \/ Arrive
  \/ PeerEnd
  \/ Deliver
  \/ End
  \/ Close

Spec == Init /\ [][Next]_vars
=============================================================================
