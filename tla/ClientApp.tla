------------------------------ MODULE ClientApp ------------------------------
(***************************************************************************)
(* src/test/client.c: connects, sends the lines of a file one at a time    *)
(* from an idle handler, and ends at the end of the file or on a signal.   *)
(*                                                                         *)
(* One action is one handler, run to its end by the loop; handlers that    *)
(* are ready run in any order.  The socket behaves as in Sockets; it was   *)
(* opened by sc_socket_connect and never reads, so on_recv is not called.  *)
(*                                                                         *)
(* A handle given to uv_close without a close callback is "closed" at      *)
(* once: nothing more is heard of it.                                      *)
(***************************************************************************)
EXTENDS Integers, Sequences

CONSTANTS
  Lines,     \* number of messages fgets cuts the input into
  EndSeen    \* whether fgets meets the end of the file while it reads the last
             \* of them, which then has no newline

ASSUME LinesAssumption == Lines \in Nat
ASSUME EndSeenAssumption == EndSeen \in BOOLEAN

VARIABLES
  proc,     \* the process
  client,   \* struct client
  socket,   \* its socket
  env       \* the input, and history: a signal came, the system failed us

vars == <<proc, client, socket, env>>

Process ==
  {"running",
   "returned",   \* from main
   "fatal",      \* ended by fatal()
   "loop_busy",  \* ended by fatal() because uv_loop_close refused
   "misuse"}     \* a handle was used after uv_close, or closed twice

Client ==
  [terminate : BOOLEAN, input_eof : BOOLEAN, ready_send : BOOLEAN,
   async : {"open", "sent", "closed"},
   idle : {"open", "closed"},
   sigs : {"open", "closed"},   \* sigterm and sigint
   msg : 0 .. Lines]            \* the line in msg->data, 0 for none

Socket ==
  [handle : {"connecting", "open", "closing", "closed"},
   wreq : {"idle", "pending"},
   creq : {"idle", "pending"},
   written : Seq(0 .. Lines)]   \* history: the lines that were sent

TypeOK ==
  /\ proc \in Process
  /\ client \in Client
  /\ socket \in Socket
  /\ env \in [lines : 0 .. Lines, signalled : BOOLEAN, fault : BOOLEAN]

\* client_init and client_connect have succeeded; the loop is entered.
Init ==
  /\ proc = "running"
  /\ client = [terminate |-> FALSE, input_eof |-> FALSE, ready_send |-> FALSE,
               async |-> "open", idle |-> "open", sigs |-> "open", msg |-> 0]
  /\ socket = [handle |-> "connecting", creq |-> "pending", wreq |-> "idle",
               written |-> << >>]
  /\ env = [lines |-> 0, signalled |-> FALSE, fault |-> FALSE]

-----------------------------------------------------------------------------

\* fatal(), because a call failed or a callback got an error.
Fault ==
  /\ proc' = "fatal"
  /\ env' = [env EXCEPT !.fault = TRUE]
  /\ UNCHANGED <<client, socket>>

\* uv_async_send, which a closed handle does not allow; c is the client with
\* the other changes of the handler.
AsyncSend(c) ==
  /\ client' = [c EXCEPT !.async = IF @ = "closed" THEN @ ELSE "sent"]
  /\ proc' = IF c.async = "closed" THEN "misuse" ELSE proc

\* Mutant: terminate is not set.
Mutant_async_cb_forgets ==
  /\ proc = "running" /\ client.async = "sent"
  /\ client' = [client EXCEPT !.async = "closed"]
  /\ UNCHANGED <<proc, socket, env>>

async_cb ==
  /\ proc = "running" /\ client.async = "sent"
  /\ client' = [client EXCEPT !.terminate = TRUE, !.async = "closed"]
  /\ UNCHANGED <<proc, socket, env>>

\* Mutant: no look at terminate.
Mutant_signal_cb_unguarded ==
  /\ proc = "running" /\ client.sigs = "open"
  /\ env' = [env EXCEPT !.signalled = TRUE]
  /\ AsyncSend(client)
  /\ UNCHANGED socket

signal_cb ==
  /\ proc = "running" /\ client.sigs = "open"
  /\ env' = [env EXCEPT !.signalled = TRUE]
  /\ \/ client.terminate /\ UNCHANGED <<client, proc>>
     \/ ~ client.terminate /\ AsyncSend(client)
  /\ UNCHANGED socket

\* Once terminate is set.
idle_close ==
  /\ client.terminate
  /\ client' = [client EXCEPT !.idle = "closed"]
  /\ socket' = [socket EXCEPT !.handle = "closing"]
  /\ proc' = IF socket.handle \in {"closing", "closed"} THEN "misuse" ELSE proc
  /\ UNCHANGED env

\* Mutant: ready_send is not taken back.
Mutant_idle_send_stays_ready ==
  /\ env.lines < Lines
  /\ env' = [env EXCEPT !.lines = @ + 1]
  /\ client' = [client EXCEPT !.msg = env.lines + 1,
                              !.input_eof = EndSeen /\ env.lines + 1 = Lines]
  /\ socket' = [socket EXCEPT !.wreq = "pending"]
  /\ UNCHANGED proc

\* fgets fills msg->data with the next line and uv_write is given a pointer to
\* it.
idle_send ==
  /\ env.lines < Lines
  /\ env' = [env EXCEPT !.lines = @ + 1]
  /\ client' = [client EXCEPT !.msg = env.lines + 1, !.ready_send = FALSE,
                              !.input_eof = EndSeen /\ env.lines + 1 = Lines]
  /\ socket' = [socket EXCEPT !.wreq = "pending"]
  /\ UNCHANGED proc

\* Mutant: the loop is not told.
Mutant_idle_eof_silent ==
  /\ env.lines = Lines
  /\ client' = [client EXCEPT !.input_eof = TRUE]
  /\ UNCHANGED <<proc, socket, env>>

\* fgets finds the end of the input only now.
idle_eof ==
  /\ env.lines = Lines
  /\ AsyncSend([client EXCEPT !.input_eof = TRUE])
  /\ UNCHANGED <<socket, env>>

\* Mutant: the input is read on while a message is under way.
Mutant_idle_cb_impatient ==
  /\ proc = "running" /\ client.idle = "open"
  /\ \/ idle_close
     \/ /\ ~ client.terminate /\ ~ client.input_eof
        /\ \/ client.ready_send /\ idle_send
           \/ (client.ready_send \/ socket.wreq = "pending") /\ idle_eof

idle_cb ==
  /\ proc = "running" /\ client.idle = "open"
  /\ \/ idle_close
     \/ /\ ~ client.terminate /\ ~ client.input_eof /\ client.ready_send
        /\ \/ idle_send
           \/ idle_eof
           \/ Fault  \* fgets, sc_socket_send or uv_async_send fails

on_connect ==
  /\ proc = "running" /\ socket.handle = "connecting"
  /\ \/ /\ socket' = [socket EXCEPT !.handle = "open", !.creq = "idle"]
        /\ client' = [client EXCEPT !.ready_send = TRUE]
        /\ UNCHANGED <<proc, env>>
     \/ Fault

\* The write is done, with the bytes that msg->data holds now, or failed.
on_send ==
  /\ proc = "running" /\ socket.handle = "open" /\ socket.wreq = "pending"
  /\ \/ /\ socket' = [socket EXCEPT !.wreq = "idle",
                                    !.written = Append(@, client.msg)]
        /\ client' = [client EXCEPT !.ready_send = TRUE]
        /\ UNCHANGED <<proc, env>>
     \/ Fault

\* A request cancelled by the close reaches on_connect or on_send as an error.
Cancelled ==
  /\ proc = "running" /\ socket.handle = "closing"
  /\ socket.creq = "pending" \/ socket.wreq = "pending"
  /\ proc' = "fatal"
  /\ UNCHANGED <<client, socket, env>>

on_close ==
  /\ proc = "running" /\ socket.handle = "closing"
  /\ socket.creq = "idle" /\ socket.wreq = "idle"
  /\ socket' = [socket EXCEPT !.handle = "closed"]
  /\ client' = [client EXCEPT !.sigs = "closed"]
  /\ UNCHANGED <<proc, env>>

\* A connected stream without requests that does not read is not active.
LoopAlive ==
  \/ client.async # "closed" \/ client.idle = "open" \/ client.sigs = "open"
  \/ socket.creq = "pending" \/ socket.wreq = "pending"
  \/ socket.handle = "closing"

\* uv_run returns; uv_loop_close refuses while a handle is not closed.
main ==
  /\ proc = "running" /\ ~ LoopAlive
  /\ proc' = IF socket.handle = "closed" THEN "returned" ELSE "loop_busy"
  /\ UNCHANGED <<client, socket, env>>

Next ==
  \/ async_cb \/ signal_cb \/ idle_cb
  \/ on_connect \/ on_send \/ Cancelled \/ on_close
  \/ main

Spec == Init /\ [][Next]_vars

\* The loop runs what is ready, and a connect ends, if only by a timeout.
\* Nothing is owed by the peer, which may never read, nor by who sends signals.
Fairness ==
  /\ WF_vars(async_cb) /\ WF_vars(idle_cb)
  /\ WF_vars(on_connect) /\ WF_vars(Cancelled) /\ WF_vars(on_close)
  /\ WF_vars(main)

LiveSpec == Spec /\ Fairness

-----------------------------------------------------------------------------

\* uv_write does not copy: the lines go out once each and in order only if
\* fgets never fills msg->data while a write is under way.
LinesInOrder ==
  socket.written = [i \in 1 .. Len(socket.written) |-> i]

\* Without a signal and without an error of the system, the client ends by
\* returning from main, and then every line was sent: closing the socket at
\* the end of the input cancels nothing.
EndsComplete ==
  proc # "running" /\ ~ env.signalled /\ ~ env.fault =>
    proc = "returned" /\ Len(socket.written) = Lines

\* No handle is used after it was closed, none is closed twice, and when
\* uv_run returns none is left for uv_loop_close to refuse, whenever and
\* however often signals come.
HandlesRespected == proc \notin {"misuse", "loop_busy"}

\* A signal ends the client, also while it connects and when the peer does
\* not read.
SignalEnds == env.signalled ~> proc # "running"

\* If the peer reads, the client ends with its input: src/test/test_client_tcp
\* runs it in the foreground.
EndsWithInput == []<>(socket.wreq = "idle") => <>(proc # "running")
=============================================================================
