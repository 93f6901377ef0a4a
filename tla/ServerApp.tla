------------------------------ MODULE ServerApp ------------------------------
(***************************************************************************)
(* src/test/server.c: a listening socket and one client socket into which  *)
(* every connection is accepted; prints the messages it receives.  On a    *)
(* signal it stops accepting, waits until its client is gone, closes the   *)
(* listening socket and then the signal handlers.                          *)
(*                                                                         *)
(* One action is one handler, run to its end by the loop with the          *)
(* callbacks nested in it; handlers that are ready run in any order.       *)
(* The sockets behave as in Sockets, messages arrive as in MsgStream.      *)
(*                                                                         *)
(* A handle given to uv_close without a close callback is "closed" at      *)
(* once: nothing more is heard of it.                                      *)
(***************************************************************************)
EXTENDS Integers

CONSTANTS
  MaxConns,   \* bound: connections made to the server
  MaxMsgs,    \* bound: messages sent to the server on each connection
  Sequential  \* whether a peer connects only when the one before is gone

ASSUME BoundsAssumption == MaxConns \in Nat /\ MaxMsgs \in Nat
ASSUME SequentialAssumption == Sequential \in BOOLEAN

VARIABLES
  proc,     \* the process
  server,   \* struct server and its listening socket
  client,   \* struct client and its socket
  env       \* connections and messages on their way; history: a signal came

vars == <<proc, server, client, env>>

Process ==
  {"running",
   "returned",   \* from main
   "fatal",      \* ended by fatal()
   "loop_busy",  \* ended by fatal() because uv_loop_close refused
   "misuse",     \* a handle was used after uv_close, or closed twice
   "reinit"}     \* a handle in use was initialised again

Server ==
  [terminate : {"NOTSET", "CLIENT", "SERVER"},
   async : {"open", "sent", "closed"},
   idle : {"open", "closed"},
   sigs : {"open", "closed"},                  \* sigterm and sigint
   handle : {"listening", "closing", "closed"}, \* of server->socket
   taken : BOOLEAN]                             \* a connection was not accepted

Client ==
  [active : BOOLEAN,
   handle : {"raw", "open", "closing", "closed"},   \* of client->socket
   reading : BOOLEAN]

Environment ==
  [conns : 0 .. MaxConns,           \* connections made so far
   backlog : 0 .. MaxConns,         \* of them, not seen by the loop yet
   peer : {"up", "down", "reset"},  \* the other end of the client socket
   sends : 0 .. MaxMsgs,            \* messages it has sent
   unread : 0 .. MaxMsgs,           \* of them, not read yet
   signalled : BOOLEAN]

TypeOK ==
  /\ proc \in Process
  /\ server \in Server
  /\ client \in Client
  /\ env \in Environment

\* server_init, client_init and server_bind_and_listen have succeeded.
Init ==
  /\ proc = "running"
  /\ server = [terminate |-> "NOTSET", async |-> "open", idle |-> "open",
               sigs |-> "open", handle |-> "listening", taken |-> FALSE]
  /\ client = [active |-> FALSE, handle |-> "raw", reading |-> FALSE]
  /\ env = [conns |-> 0, backlog |-> 0, peer |-> "down", sends |-> 0,
            unread |-> 0, signalled |-> FALSE]

-----------------------------------------------------------------------------
(* The other side.                                                         *)

Connect ==
  /\ proc = "running" /\ server.handle = "listening"
  /\ env.conns < MaxConns
  /\ Sequential => /\ env.backlog = 0
                   /\ client.handle = "open" => env.peer # "up"
  /\ env' = [env EXCEPT !.conns = @ + 1, !.backlog = @ + 1]
  /\ UNCHANGED <<proc, server, client>>

PeerSend ==
  /\ proc = "running" /\ client.handle = "open" /\ env.peer = "up"
  /\ env.sends < MaxMsgs
  /\ env' = [env EXCEPT !.sends = @ + 1, !.unread = @ + 1]
  /\ UNCHANGED <<proc, server, client>>

PeerEnd ==
  /\ proc = "running" /\ client.handle = "open" /\ env.peer = "up"
  /\ \E how \in {"down", "reset"} : env' = [env EXCEPT !.peer = how]
  /\ UNCHANGED <<proc, server, client>>

-----------------------------------------------------------------------------
(* The handlers.                                                           *)

fatal ==
  /\ proc' = "fatal"
  /\ UNCHANGED <<server, client, env>>

\* client_on_accept for an accept that succeeded.
client_on_accept ==
  client' = [active |-> TRUE, reading |-> TRUE,
             handle |-> IF server.terminate = "NOTSET" THEN "open" ELSE "closing"]

\* libuv takes one connection and the next one only when that was accepted.
\* sc_socket_accept initialises the handle of the client socket, whatever
\* its state.  The code goes on with a handle that was in use; what libuv does
\* with it then is not defined, and the model stops there ("reinit").
server_on_connection ==
  /\ proc = "running" /\ server.handle = "listening"
  /\ env.backlog > 0 /\ ~ server.taken
  /\ \/ /\ server.terminate # "NOTSET"
        /\ server' = [server EXCEPT !.taken = TRUE]
        /\ env' = [env EXCEPT !.backlog = @ - 1]
        /\ UNCHANGED <<proc, client>>
     \/ /\ server.terminate = "NOTSET" /\ client.handle \in {"raw", "closed"}
        /\ client_on_accept
        /\ env' = [env EXCEPT !.backlog = @ - 1, !.peer = "up", !.sends = 0,
                              !.unread = 0]
        /\ UNCHANGED <<proc, server>>
     \/ /\ server.terminate = "NOTSET" /\ client.handle \in {"open", "closing"}
        /\ proc' = "reinit"
        /\ UNCHANGED <<server, client, env>>
     \/ fatal  \* uv_accept or uv_read_start fails, or libuv reports an error

\* close_socket, at most once.
CloseClient ==
  /\ client' = [client EXCEPT !.handle = "closing", !.reading = FALSE]
  /\ proc' = IF client.handle \in {"closing", "closed"} THEN "misuse" ELSE proc

\* A message is printed; the shutdown waits for one to close the connection.
client_on_recv ==
  /\ proc = "running" /\ client.handle = "open" /\ client.reading
  /\ \/ /\ env.unread > 0
        /\ env' = [env EXCEPT !.unread = @ - 1]
        /\ \/ server.terminate = "NOTSET" /\ UNCHANGED <<proc, client>>
           \/ server.terminate # "NOTSET" /\ CloseClient
     \/ /\ env.unread = 0 /\ env.peer = "down"
        /\ CloseClient /\ UNCHANGED env
     \/ env.peer = "reset" /\ fatal
  /\ UNCHANGED server

\* Mutant: active is not taken back.
Mutant_client_on_close_active ==
  /\ proc = "running" /\ client.handle = "closing"
  /\ client' = [client EXCEPT !.handle = "closed"]
  /\ UNCHANGED <<proc, server, env>>

client_on_close ==
  /\ proc = "running" /\ client.handle = "closing"
  /\ client' = [client EXCEPT !.handle = "closed", !.active = FALSE]
  /\ UNCHANGED <<proc, server, env>>

server_on_close ==
  /\ proc = "running" /\ server.handle = "closing"
  /\ server' = [server EXCEPT !.handle = "closed", !.sigs = "closed"]
  /\ UNCHANGED <<proc, client, env>>

async_cb ==
  /\ proc = "running" /\ server.async = "sent"
  /\ server' = [server EXCEPT !.terminate = "CLIENT", !.async = "closed"]
  /\ UNCHANGED <<proc, client, env>>

\* uv_async_send, which a closed handle does not allow.
AsyncSend ==
  /\ server' = [server EXCEPT !.async = IF @ = "closed" THEN @ ELSE "sent"]
  /\ proc' = IF server.async = "closed" THEN "misuse" ELSE proc

\* Mutant: no look at terminate.
Mutant_signal_cb_unguarded ==
  /\ proc = "running" /\ server.sigs = "open"
  /\ env' = [env EXCEPT !.signalled = TRUE]
  /\ AsyncSend
  /\ UNCHANGED client

signal_cb ==
  /\ proc = "running" /\ server.sigs = "open"
  /\ env' = [env EXCEPT !.signalled = TRUE]
  /\ \/ server.terminate # "NOTSET" /\ UNCHANGED <<proc, server>>
     \/ server.terminate = "NOTSET" /\ AsyncSend
  /\ UNCHANGED client

\* Mutant: the shutdown does not wait for the client.
Mutant_idle_cb_hasty ==
  /\ proc = "running" /\ server.idle = "open"
  /\ \/ /\ server.terminate = "CLIENT"
        /\ server' = [server EXCEPT !.terminate = "SERVER"]
        /\ UNCHANGED proc
     \/ /\ server.terminate = "SERVER"
        /\ server' = [server EXCEPT !.idle = "closed", !.handle = "closing",
                                    !.taken = FALSE]
        /\ UNCHANGED proc
  /\ UNCHANGED <<client, env>>

idle_cb ==
  /\ proc = "running" /\ server.idle = "open"
  /\ \/ /\ ~ client.active /\ server.terminate = "CLIENT"
        /\ server' = [server EXCEPT !.terminate = "SERVER"]
        /\ UNCHANGED proc
     \/ /\ server.terminate = "SERVER"
        /\ server' = [server EXCEPT !.idle = "closed", !.handle = "closing",
                                    !.taken = FALSE]
        /\ proc' = IF server.handle = "listening" THEN proc ELSE "misuse"
  /\ UNCHANGED <<client, env>>

LoopAlive ==
  \/ server.async # "closed" \/ server.idle = "open" \/ server.sigs = "open"
  \/ server.handle \in {"listening", "closing"}
  \/ client.handle = "closing" \/ client.reading

\* uv_run returns; uv_loop_close refuses while a handle is not closed.
main ==
  /\ proc = "running" /\ ~ LoopAlive
  /\ proc' = IF client.handle \in {"raw", "closed"} THEN "returned" ELSE "loop_busy"
  /\ UNCHANGED <<server, client, env>>

Next ==
  \/ Connect \/ PeerSend \/ PeerEnd
  \/ server_on_connection \/ client_on_recv
  \/ client_on_close \/ server_on_close
  \/ async_cb \/ signal_cb \/ idle_cb
  \/ main

Spec == Init /\ [][Next]_vars

\* The loop runs what is ready.  The peers and who sends signals owe nothing.
Fairness ==
  /\ WF_vars(client_on_recv) /\ WF_vars(client_on_close)
  /\ WF_vars(server_on_close) /\ WF_vars(async_cb) /\ WF_vars(idle_cb)
  /\ WF_vars(main)

LiveSpec == Spec /\ Fairness

-----------------------------------------------------------------------------

\* The listening socket is closed after the client socket, so that its
\* on_close, which removes the last handles, is the last callback: active is
\* set and cleared in other handlers than the one that relies on it, and a
\* connection may arrive at any moment of the shutdown.
ClientGoneFirst ==
  proc = "running" /\ server.handle # "listening" =>
    client.handle \in {"raw", "closed"} /\ ~ client.reading

\* There is one way to use a handle wrongly, to accept a connection into the
\* client socket while that is open or closing, and it takes a second
\* connection.  Up to then no handle is used after it was closed, none is
\* closed twice, and when uv_run returns none is left for uv_loop_close to
\* refuse, whenever and however often signals come.
HandlesRespected ==
  proc \in {"misuse", "loop_busy", "reinit"} =>
    proc = "reinit" /\ client.handle \in {"open", "closing"} /\ env.conns > 1

\* A connected peer that keeps quiet.
Quiet == client.handle = "open" /\ env.peer = "up" /\ env.unread = 0

\* After a signal the server returns from main or ends by fatal(), whether or
\* not connections still arrive, provided that no peer keeps quiet for ever
\* and none is accepted into a socket in use.
SignalEnds ==
  []<>(~ Quiet) /\ [](proc # "reinit")
    => (env.signalled ~> proc \in {"returned", "fatal"})

\* A connection is only accepted into a socket that is free, so that every
\* peer is served: src/test/test_server_tcp makes four connections one after
\* the other and expects the messages of all of them.
AcceptsIntoFreeSocket == proc # "reinit"
=============================================================================
