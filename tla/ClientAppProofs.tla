--------------------------- MODULE ClientAppProofs ---------------------------
(***************************************************************************)
(* The safety properties of ClientApp for any number of lines, and whether *)
(* or not the last one ends with a newline.                                *)
(***************************************************************************)
EXTENDS ClientApp, SequenceTheorems, TLAPS

\* The handles are given up in one order: async, idle, the socket, the signals.
Order ==
  /\ client.async = "closed" <=> client.terminate = TRUE
  /\ client.idle = "closed" => client.terminate = TRUE
  /\ client.idle = "closed" <=> socket.handle \in {"closing", "closed"}
  /\ client.sigs = "closed" <=> socket.handle = "closed"

\* A new message is prepared only between two requests, and what was sent is
\* the input up to the message under way.
Requests ==
  /\ socket.handle = "connecting" => socket.creq = "pending"
  /\ socket.handle = "open" => socket.creq = "idle"
  /\ socket.handle = "closed" => socket.creq = "idle" /\ socket.wreq = "idle"
  /\ client.ready_send = TRUE => socket.creq = "idle" /\ socket.wreq = "idle"
  /\ socket.creq = "pending" => socket.wreq = "idle"
  /\ socket.wreq = "idle" => Len(socket.written) = env.lines
  /\ socket.wreq = "pending" =>
       Len(socket.written) + 1 = env.lines /\ client.msg = env.lines

\* Only the end of the input and signals start the termination, the former
\* when nothing is under way any more.
Cause ==
  client.async # "open" /\ env.signalled = FALSE =>
    /\ client.input_eof = TRUE /\ env.lines = Lines
    /\ socket.creq = "idle" /\ socket.wreq = "idle"

Sent == \A i \in 1 .. Len(socket.written) : socket.written[i] = i

Inv ==
  TypeOK /\ Order /\ Requests /\ Cause /\ Sent /\ EndsComplete /\ HandlesRespected

-----------------------------------------------------------------------------

\* When the loop is entered nothing was sent and nothing is closed.
LEMMA InitInv == Init => Inv
<1> SUFFICES ASSUME Init PROVE Inv
  OBVIOUS
<1> USE LinesAssumption DEF Init
<1>1. << >> \in Seq(0 .. Lines) /\ Len(<< >>) = 0
  BY EmptySeq
<1>2. TypeOK
  BY <1>1 DEF TypeOK, Process, Client, Socket
<1>3. Order /\ Cause /\ EndsComplete /\ HandlesRespected
  BY DEF Order, Cause, EndsComplete, HandlesRespected
<1>4. Requests /\ Sent
  BY <1>1 DEF Requests, Sent
<1> QED BY <1>2, <1>3, <1>4 DEF Inv

\* async_cb, signal_cb and the end of the input only ask for the termination.
LEMMA AskInv ==
  ASSUME Inv, async_cb \/ signal_cb
  PROVE  Inv'
<1> USE DEF Inv
<1>1. socket' = socket /\ env'.lines = env.lines /\ env'.fault = env.fault
  BY DEF async_cb, signal_cb, TypeOK
<1>2. TypeOK'
  BY DEF async_cb, signal_cb, AsyncSend, TypeOK, Client, Process
<1>3. Order' /\ HandlesRespected' /\ proc' = "running"
  BY DEF async_cb, signal_cb, AsyncSend, TypeOK, Client, Order, HandlesRespected
<1>4. Requests' /\ Sent'
  BY <1>1 DEF async_cb, signal_cb, AsyncSend, TypeOK, Client, Requests, Sent
<1>5. Cause'
  BY <1>1 DEF async_cb, signal_cb, AsyncSend, TypeOK, Client, Cause
<1>6. EndsComplete'
  BY <1>3 DEF EndsComplete
<1> QED BY <1>2, <1>3, <1>4, <1>5, <1>6

\* A failure ends the process with the fault on record.
LEMMA FaultInv ==
  ASSUME Inv, Fault
  PROVE  Inv'
<1> USE DEF Inv
<1>1. TypeOK'
  BY DEF Fault, TypeOK, Process
<1>2. Order' /\ Requests' /\ Cause' /\ Sent'
  BY DEF Fault, TypeOK, Order, Requests, Cause, Sent
<1>3. EndsComplete' /\ HandlesRespected'
  BY DEF Fault, TypeOK, EndsComplete, HandlesRespected
<1> QED BY <1>1, <1>2, <1>3

\* idle_cb closes the socket once, sends between two requests, and asks for
\* the termination when nothing is under way.
LEMMA IdleInv ==
  ASSUME Inv, idle_cb
  PROVE  Inv'
<1> USE DEF Inv
<1>0. proc = "running" /\ client.idle = "open"
  BY DEF idle_cb
<1>1. CASE idle_close
  <2>1. /\ proc' = "running" /\ env' = env
        /\ client' = [client EXCEPT !.idle = "closed"]
        /\ socket' = [socket EXCEPT !.handle = "closing"]
        /\ client.terminate = TRUE
    BY <1>0, <1>1 DEF idle_close, Order, TypeOK, Client
  <2>2. TypeOK'
    BY <2>1 DEF TypeOK, Client, Socket, Process
  <2>3. Order' /\ Requests' /\ Cause' /\ Sent'
    BY <1>0, <2>1 DEF TypeOK, Client, Socket, Order, Requests, Cause, Sent
  <2>4. EndsComplete' /\ HandlesRespected'
    BY <2>1 DEF EndsComplete, HandlesRespected
  <2> QED BY <2>2, <2>3, <2>4
<1>2. CASE /\ ~ client.terminate /\ ~ client.input_eof /\ client.ready_send
           /\ idle_send
  <2>1. /\ env.lines < Lines /\ env' = [env EXCEPT !.lines = @ + 1]
        /\ client' = [client EXCEPT !.msg = env.lines + 1, !.ready_send = FALSE,
                        !.input_eof = EndSeen /\ env.lines + 1 = Lines]
        /\ socket' = [socket EXCEPT !.wreq = "pending"]
        /\ proc' = "running"
    BY <1>0, <1>2 DEF idle_send
  <2>2. /\ client.terminate = FALSE /\ client.input_eof = FALSE
        /\ client.ready_send = TRUE
    BY <1>2 DEF TypeOK, Client
  <2>e. (EndSeen /\ env.lines + 1 = Lines) \in BOOLEAN
    OBVIOUS
  <2>n. env.lines \in 0 .. Lines /\ env.lines + 1 \in 0 .. Lines
    BY <2>1, LinesAssumption DEF TypeOK
  <2>3. TypeOK'
    BY <2>1, <2>e, <2>n DEF TypeOK, Client, Socket, Process
  <2>4. Order' /\ Sent'
    BY <2>1 DEF TypeOK, Client, Socket, Order, Sent
  <2>5. Requests'
    <3>1. socket.creq = "idle" /\ socket.wreq = "idle" /\ Len(socket.written) = env.lines
      BY <2>2 DEF Requests
    <3>2. /\ socket'.creq = "idle" /\ socket'.wreq = "pending"
          /\ socket'.written = socket.written /\ socket'.handle = socket.handle
          /\ client'.ready_send = FALSE /\ client'.msg = env.lines + 1
          /\ env'.lines = env.lines + 1
      BY <2>1, <3>1 DEF TypeOK, Client, Socket
    <3>3. socket.handle \notin {"connecting", "closed"}
      BY <1>0, <3>1 DEF Requests, Order
    <3> QED BY <3>1, <3>2, <3>3 DEF Requests
  <2>6. Cause'
    BY <2>1, <2>2 DEF TypeOK, Client, Cause
  <2>7. EndsComplete' /\ HandlesRespected'
    BY <2>1 DEF EndsComplete, HandlesRespected
  <2> QED BY <2>3, <2>4, <2>5, <2>6, <2>7
<1>3. CASE /\ ~ client.terminate /\ ~ client.input_eof /\ client.ready_send
           /\ idle_eof
  <2>1. /\ client.terminate = FALSE /\ client.ready_send = TRUE
        /\ client.async # "closed"
    BY <1>3 DEF TypeOK, Client, Order
  <2>2. /\ client' = [client EXCEPT !.input_eof = TRUE, !.async = "sent"]
        /\ proc' = "running" /\ socket' = socket /\ env' = env
        /\ env.lines = Lines
    BY <1>0, <1>3, <2>1 DEF idle_eof, AsyncSend, TypeOK, Client
  <2>3. TypeOK'
    BY <2>2 DEF TypeOK, Client, Process
  <2>4. Order' /\ Requests' /\ Cause' /\ Sent'
    BY <2>1, <2>2 DEF TypeOK, Client, Order, Requests, Cause, Sent
  <2>5. EndsComplete' /\ HandlesRespected'
    BY <2>2 DEF EndsComplete, HandlesRespected
  <2> QED BY <2>3, <2>4, <2>5
<1>4. CASE Fault
  BY <1>4, FaultInv
<1> QED BY <1>1, <1>2, <1>3, <1>4 DEF idle_cb

\* A connect or a write that is answered makes way for the next message.
LEMMA AnswerInv ==
  ASSUME Inv, on_connect \/ on_send
  PROVE  Inv'
<1> USE DEF Inv
<1>1. CASE Fault
  BY <1>1, FaultInv
<1>2. CASE on_connect /\ ~ Fault
  <2>1. /\ socket' = [socket EXCEPT !.handle = "open", !.creq = "idle"]
        /\ client' = [client EXCEPT !.ready_send = TRUE]
        /\ proc = "running" /\ proc' = proc /\ env' = env
        /\ socket.handle = "connecting"
    BY <1>2 DEF on_connect
  <2>2. TypeOK'
    BY <2>1 DEF TypeOK, Client, Socket
  <2>3. Order' /\ Requests' /\ Cause' /\ Sent'
    BY <2>1 DEF TypeOK, Client, Socket, Order, Requests, Cause, Sent
  <2>4. EndsComplete' /\ HandlesRespected'
    BY <2>1 DEF EndsComplete, HandlesRespected
  <2> QED BY <2>2, <2>3, <2>4
<1>3. CASE on_send /\ ~ Fault
  <2> DEFINE w == socket.written
             n == client.msg
  <2>1. /\ socket' = [socket EXCEPT !.wreq = "idle", !.written = Append(w, n)]
        /\ client' = [client EXCEPT !.ready_send = TRUE]
        /\ proc = "running" /\ proc' = proc /\ env' = env
        /\ socket.handle = "open" /\ socket.wreq = "pending"
    BY <1>3 DEF on_send
  <2>2. w \in Seq(0 .. Lines) /\ n \in 0 .. Lines /\ Len(w) \in Nat
    BY LenProperties DEF TypeOK, Client, Socket
  <2>3. Len(w) + 1 = env.lines /\ n = env.lines
    BY <2>1 DEF Requests
  <2>4. /\ Append(w, n) \in Seq(0 .. Lines) /\ Len(Append(w, n)) = Len(w) + 1
        /\ \A i \in 1 .. Len(w) : Append(w, n)[i] = w[i]
        /\ Append(w, n)[Len(w) + 1] = n
    BY <2>2, AppendProperties
  <2>5. socket'.written = Append(w, n)
    BY <2>1 DEF TypeOK, Socket
  <2> HIDE DEF w, n
  <2>6. TypeOK'
    BY <2>1, <2>4 DEF TypeOK, Client, Socket
  <2>7. Order'
    BY <2>1 DEF TypeOK, Client, Socket, Order
  <2>8. Requests'
    <3>1. /\ socket'.handle = "open" /\ socket'.wreq = "idle"
          /\ socket'.creq = socket.creq /\ socket.creq = "idle"
      BY <2>1 DEF TypeOK, Socket, Requests
    <3> QED BY <2>1, <2>3, <2>4, <2>5, <3>1 DEF Requests
  <2>9. Cause'
    BY <2>1 DEF TypeOK, Client, Socket, Cause
  <2>10. Sent'
    <3>1. \A i \in 1 .. Len(w) : w[i] = i
      BY DEF Sent, w
    <3>2. \A i \in 1 .. Len(w) + 1 : Append(w, n)[i] = i
      BY <3>1, <2>2, <2>3, <2>4
    <3> QED BY <3>2, <2>4, <2>5 DEF Sent
  <2>11. EndsComplete' /\ HandlesRespected'
    BY <2>1 DEF EndsComplete, HandlesRespected
  <2> QED BY <2>6, <2>7, <2>8, <2>9, <2>10, <2>11
<1> QED BY <1>1, <1>2, <1>3

\* The end: a cancelled request is due to a signal, and after on_close there
\* is no handle left.
LEMMA EndInv ==
  ASSUME Inv, Cancelled \/ on_close \/ main
  PROVE  Inv'
<1> USE DEF Inv
<1>1. CASE Cancelled
  <2>1. env.signalled = TRUE
    BY <1>1 DEF Cancelled, TypeOK, Client, Socket, Order, Cause
  <2>2. TypeOK'
    BY <1>1 DEF Cancelled, TypeOK, Process
  <2>3. Order' /\ Requests' /\ Cause' /\ Sent'
    BY <1>1 DEF Cancelled, Order, Requests, Cause, Sent
  <2>4. EndsComplete' /\ HandlesRespected'
    BY <1>1, <2>1 DEF Cancelled, EndsComplete, HandlesRespected
  <2> QED BY <2>2, <2>3, <2>4
<1>2. CASE on_close
  <2>1. TypeOK'
    BY <1>2 DEF on_close, TypeOK, Client, Socket
  <2>2. Order' /\ Requests' /\ Cause' /\ Sent'
    BY <1>2 DEF on_close, TypeOK, Client, Socket, Order, Requests, Cause, Sent
  <2>3. EndsComplete' /\ HandlesRespected'
    BY <1>2 DEF on_close, EndsComplete, HandlesRespected
  <2> QED BY <2>1, <2>2, <2>3
<1>3. CASE main
  <2>1. socket.handle = "closed" /\ proc' = "returned" /\ client.async = "closed"
    BY <1>3 DEF main, LoopAlive, TypeOK, Client, Order
  <2>2. TypeOK'
    BY <1>3, <2>1 DEF main, TypeOK, Process
  <2>3. Order' /\ Requests' /\ Cause' /\ Sent'
    BY <1>3 DEF main, Order, Requests, Cause, Sent
  <2>4. EndsComplete'
    BY <1>3, <2>1 DEF main, TypeOK, EndsComplete, Cause, Requests
  <2>5. HandlesRespected'
    BY <2>1 DEF HandlesRespected
  <2> QED BY <2>2, <2>3, <2>4, <2>5
<1> QED BY <1>1, <1>2, <1>3

\* Every reachable state of the client satisfies the invariant.
THEOREM ClientInvariance == Spec => []Inv
<1>1. Init => Inv
  BY InitInv
<1>2. Inv /\ [Next]_vars => Inv'
  <2> SUFFICES ASSUME Inv, [Next]_vars PROVE Inv'
    OBVIOUS
  <2>1. CASE async_cb \/ signal_cb
    BY <2>1, AskInv
  <2>2. CASE idle_cb
    BY <2>2, IdleInv
  <2>3. CASE on_connect \/ on_send
    BY <2>3, AnswerInv
  <2>4. CASE Cancelled \/ on_close \/ main
    BY <2>4, EndInv
  <2>5. CASE UNCHANGED vars
    BY <2>5 DEF vars, Inv, TypeOK, Order, Requests, Cause, Sent, EndsComplete,
                HandlesRespected
  <2> QED BY <2>1, <2>2, <2>3, <2>4, <2>5 DEF Next
<1> QED BY <1>1, <1>2, PTL DEF Spec

\* The lines of the input go out once each and in order: idle_cb never fills
\* the buffer of a write that is under way.
THEOREM ClientLinesInOrder == Spec => []LinesInOrder
<1>1. Inv => LinesInOrder
  <2> SUFFICES ASSUME Inv PROVE LinesInOrder
    OBVIOUS
  <2> DEFINE w == socket.written
  <2>1. w \in Seq(0 .. Lines) /\ Len(w) \in Nat
    BY LenProperties DEF Inv, TypeOK, Socket
  <2>2. w = [i \in 1 .. Len(w) |-> w[i]]
    BY <2>1
  <2>3. \A i \in 1 .. Len(w) : w[i] = i
    BY DEF Inv, Sent
  <2>4. [i \in 1 .. Len(w) |-> w[i]] = [i \in 1 .. Len(w) |-> i]
    BY <2>3
  <2> QED BY <2>2, <2>4 DEF LinesInOrder
<1> QED BY <1>1, ClientInvariance, PTL

\* A client that meets no signal and no error returns from main with all of
\* its input sent.
THEOREM ClientEndsComplete == Spec => []EndsComplete
<1>1. Inv => EndsComplete
  BY DEF Inv
<1> QED BY <1>1, ClientInvariance, PTL

\* Signals, at any time and any number of them, lead to no misuse of a handle
\* and leave none open when uv_run returns.
THEOREM ClientHandlesRespected == Spec => []HandlesRespected
<1>1. Inv => HandlesRespected
  BY DEF Inv
<1> QED BY <1>1, ClientInvariance, PTL
=============================================================================
