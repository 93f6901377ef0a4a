--------------------------- MODULE ServerAppProofs ---------------------------
(***************************************************************************)
(* The safety properties of ServerApp for any number of connections and    *)
(* messages.                                                               *)
(***************************************************************************)
EXTENDS ServerApp, TLAPS

\* The handles of the server are given up in one order, phase by phase.
Phases ==
  /\ server.async = "closed" <=> server.terminate # "NOTSET"
  /\ server.idle = "closed" => server.terminate = "SERVER"
  /\ server.idle = "closed" <=> server.handle # "listening"
  /\ server.sigs = "closed" <=> server.handle = "closed"

\* active is exactly what the shutdown takes it for, and once it is false in
\* the second phase it stays so.
Activity ==
  /\ client.active = TRUE <=> client.handle \in {"open", "closing"}
  /\ client.reading = TRUE => client.handle = "open"
  /\ server.terminate = "SERVER" => client.active = FALSE

\* What waits was made before, and so was the connection in the client socket.
Counts ==
  /\ env.backlog <= env.conns /\ env.unread <= env.sends
  /\ client.handle # "raw" => env.backlog < env.conns

Inv == TypeOK /\ Phases /\ Activity /\ Counts /\ HandlesRespected

-----------------------------------------------------------------------------

\* When the loop is entered everything is open and there is no client.
LEMMA InitInv == Init => Inv
<1> SUFFICES ASSUME Init PROVE Inv
  OBVIOUS
<1> USE BoundsAssumption DEF Init
<1>1. TypeOK
  BY DEF TypeOK, Process, Server, Client, Environment
<1>2. Phases /\ Activity /\ Counts /\ HandlesRespected
  BY DEF Phases, Activity, Counts, HandlesRespected
<1> QED BY <1>1, <1>2 DEF Inv

\* What the peers do concerns no handle.
LEMMA PeerInv ==
  ASSUME Inv, Connect \/ PeerSend \/ PeerEnd
  PROVE  Inv'
<1> USE DEF Inv
<1>1. proc = "running" /\ proc' = proc /\ server' = server /\ client' = client
  BY DEF Connect, PeerSend, PeerEnd
<1>2. TypeOK' /\ Counts'
  <2> USE BoundsAssumption DEF TypeOK, Environment, Counts
  <2>1. CASE Connect
    <3>1. env.conns + 1 \in 0 .. MaxConns /\ env.backlog + 1 \in 0 .. MaxConns
      BY <2>1 DEF Connect
    <3>2. env' = [env EXCEPT !.conns = env.conns + 1, !.backlog = env.backlog + 1]
      BY <2>1 DEF Connect
    <3>3. env' \in Environment
      BY <3>1, <3>2
    <3>4. env'.conns = env.conns + 1 /\ env'.backlog = env.backlog + 1
          /\ env'.unread = env.unread /\ env'.sends = env.sends
      BY <3>2
    <3>5. Counts'
      BY <1>1, <3>4
    <3> QED BY <1>1, <3>3, <3>5
  <2>2. CASE PeerSend
    <3>1. env.sends + 1 \in 0 .. MaxMsgs /\ env.unread + 1 \in 0 .. MaxMsgs
      BY <2>2 DEF PeerSend
    <3>2. env' = [env EXCEPT !.sends = env.sends + 1, !.unread = env.unread + 1]
      BY <2>2 DEF PeerSend
    <3>3. env' \in Environment
      BY <3>1, <3>2
    <3>4. env'.conns = env.conns /\ env'.backlog = env.backlog
          /\ env'.unread = env.unread + 1 /\ env'.sends = env.sends + 1
      BY <3>2
    <3>5. Counts'
      BY <1>1, <3>4
    <3> QED BY <1>1, <3>3, <3>5
  <2>3. CASE PeerEnd
    BY <2>3, <1>1 DEF PeerEnd
  <2> QED BY <2>1, <2>2, <2>3
<1>3. Phases' /\ Activity' /\ HandlesRespected'
  BY <1>1 DEF Phases, Activity, HandlesRespected
<1> QED BY <1>2, <1>3

\* fatal() changes nothing but the process.
LEMMA FatalInv ==
  ASSUME Inv, fatal
  PROVE  Inv'
BY DEF fatal, Inv, TypeOK, Process, Phases, Activity, Counts, HandlesRespected

\* A connection is accepted before the shutdown only.
LEMMA ConnectionInv ==
  ASSUME Inv, server_on_connection
  PROVE  Inv'
<1> USE DEF Inv
<1>0. /\ proc = "running" /\ server.handle = "listening" /\ env.backlog > 0
  BY DEF server_on_connection
<1>n. /\ env.backlog - 1 \in 0 .. MaxConns /\ env.backlog - 1 < env.conns
      /\ env.backlog - 1 <= env.conns /\ env.backlog \in Nat /\ env.conns \in Nat
  BY <1>0, BoundsAssumption DEF TypeOK, Environment, Counts
<1>1. CASE fatal
  BY <1>1, FatalInv
<1>2. CASE /\ server.terminate # "NOTSET"
           /\ server' = [server EXCEPT !.taken = TRUE]
           /\ env' = [env EXCEPT !.backlog = @ - 1]
           /\ UNCHANGED <<proc, client>>
  <2>t. TypeOK'
    BY <1>2, <1>n DEF TypeOK, Server, Environment
  <2>c. /\ env'.backlog = env.backlog - 1 /\ env'.conns = env.conns
        /\ env'.unread = env.unread /\ env'.sends = env.sends /\ client' = client
    BY <1>2 DEF TypeOK, Environment
  <2>1. TypeOK' /\ Counts'
    BY <2>t, <2>c, <1>n DEF Counts
  <2>2. Phases' /\ Activity' /\ HandlesRespected'
    BY <1>2 DEF TypeOK, Server, Phases, Activity, HandlesRespected
  <2> QED BY <2>1, <2>2
<1>3. CASE /\ server.terminate = "NOTSET" /\ client_on_accept
           /\ env' = [env EXCEPT !.backlog = @ - 1, !.peer = "up", !.sends = 0,
                                 !.unread = 0]
           /\ UNCHANGED <<proc, server>>
  <2>1. client' = [active |-> TRUE, reading |-> TRUE, handle |-> "open"]
    BY <1>3 DEF client_on_accept
  <2>e. env' = [env EXCEPT !.backlog = env.backlog - 1, !.peer = "up",
                           !.sends = 0, !.unread = 0]
    BY <1>3
  <2>t. TypeOK'
    <3>1. 0 \in 0 .. MaxMsgs
      BY BoundsAssumption
    <3>2. env' \in Environment
      BY <2>e, <1>n, <3>1 DEF TypeOK, Environment
    <3> QED BY <1>3, <2>1, <3>2 DEF TypeOK, Client
  <2>c. Counts'
    <3>1. /\ env'.backlog = env.backlog - 1 /\ env'.conns = env.conns
          /\ env'.unread = 0 /\ env'.sends = 0
      BY <2>e DEF TypeOK, Environment
    <3> QED BY <3>1, <1>n DEF Counts
  <2>3. Phases' /\ Activity' /\ HandlesRespected'
    BY <1>3, <2>1 DEF Phases, Activity, HandlesRespected
  <2> QED BY <2>t, <2>c, <2>3
<1>4. CASE /\ client.handle \in {"open", "closing"}
           /\ proc' = "reinit" /\ UNCHANGED <<server, client, env>>
  <2>1. env.conns > 1
    BY <1>0, <1>4, <1>n DEF Counts
  <2> QED BY <1>4, <2>1 DEF TypeOK, Process, Phases, Activity, Counts, HandlesRespected
<1> QED BY <1>1, <1>2, <1>3, <1>4 DEF server_on_connection

\* The client socket is closed at most once, and active says so until
\* client_on_close.
LEMMA ClientInv ==
  ASSUME Inv, client_on_recv \/ client_on_close
  PROVE  Inv'
<1> USE DEF Inv
<1>1. CASE fatal
  BY <1>1, FatalInv
<1>2. ASSUME client_on_recv, ~ fatal
      PROVE  /\ TypeOK' /\ Counts' /\ Activity'
             /\ proc = "running" /\ proc' = proc /\ server' = server
  <2>0. proc = "running" /\ client.handle = "open" /\ server' = server
    BY <1>2 DEF client_on_recv
  <2>1. \/ client' = client
        \/ client' = [client EXCEPT !.handle = "closing", !.reading = FALSE]
    BY <1>2 DEF client_on_recv, CloseClient
  <2>2. proc' = proc
    BY <1>2, <2>0 DEF client_on_recv, CloseClient
  <2>3. \/ env' = env
        \/ env.unread > 0 /\ env' = [env EXCEPT !.unread = @ - 1]
    BY <1>2 DEF client_on_recv
  <2>4. client \in Client /\ client' \in Client /\ Activity'
    BY <2>0, <2>1 DEF TypeOK, Client, Activity
  <2>5. env' \in Environment /\ Counts'
    BY <2>0, <2>3, BoundsAssumption DEF TypeOK, Environment, Counts
  <2> QED BY <2>0, <2>2, <2>4, <2>5 DEF TypeOK
<1>3. ASSUME client_on_close
      PROVE  /\ TypeOK' /\ Counts' /\ Activity'
             /\ proc = "running" /\ proc' = proc /\ server' = server
  BY <1>3 DEF client_on_close, TypeOK, Client, Counts, Activity
<1>4. CASE (client_on_recv /\ ~ fatal) \/ client_on_close
  BY <1>2, <1>3, <1>4 DEF Phases, HandlesRespected
<1> QED BY <1>1, <1>4

\* The phases of the shutdown.
LEMMA ShutdownInv ==
  ASSUME Inv, server_on_close \/ async_cb \/ signal_cb \/ idle_cb \/ main
  PROVE  Inv'
<1> USE DEF Inv
<1>0. client' = client /\ proc = "running"
  BY DEF server_on_close, async_cb, signal_cb, idle_cb, main
<1>1. CASE server_on_close
  BY <1>0, <1>1 DEF server_on_close, TypeOK, Server, Phases, Activity, Counts,
                    HandlesRespected
<1>2. CASE async_cb
  BY <1>0, <1>2 DEF async_cb, TypeOK, Server, Phases, Activity, Counts,
                    HandlesRespected
<1>3. CASE signal_cb
  <2>1. TypeOK' /\ Counts'
    BY <1>0, <1>3 DEF signal_cb, AsyncSend, TypeOK, Process, Server, Environment,
                      Counts
  <2>2. Phases' /\ Activity' /\ HandlesRespected'
    BY <1>0, <1>3 DEF signal_cb, AsyncSend, TypeOK, Server, Phases, Activity,
                      HandlesRespected
  <2> QED BY <2>1, <2>2
<1>4. CASE idle_cb
  <2>1. proc' = "running" /\ env' = env
    BY <1>0, <1>4 DEF idle_cb, TypeOK, Server, Phases
  <2>2. TypeOK' /\ Counts'
    BY <1>0, <1>4, <2>1 DEF idle_cb, TypeOK, Process, Server, Counts
  <2>3. Phases' /\ Activity' /\ HandlesRespected'
    BY <1>0, <1>4, <2>1 DEF idle_cb, TypeOK, Server, Client, Phases, Activity,
                            HandlesRespected
  <2> QED BY <2>2, <2>3
<1>5. CASE main
  <2>1. server.handle = "closed"
    BY <1>5 DEF main, LoopAlive, TypeOK, Server
  <2>2. client.handle \in {"raw", "closed"}
    BY <2>1 DEF TypeOK, Server, Client, Phases, Activity
  <2>3. proc' = "returned" /\ UNCHANGED <<server, client, env>>
    BY <1>5, <2>2 DEF main
  <2> QED BY <2>3 DEF TypeOK, Process, Phases, Activity, Counts, HandlesRespected
<1> QED BY <1>1, <1>2, <1>3, <1>4, <1>5

\* Every reachable state of the server satisfies the invariant.
THEOREM ServerInvariance == Spec => []Inv
<1>1. Init => Inv
  BY InitInv
<1>2. Inv /\ [Next]_vars => Inv'
  <2> SUFFICES ASSUME Inv, [Next]_vars PROVE Inv'
    OBVIOUS
  <2>1. CASE Connect \/ PeerSend \/ PeerEnd
    BY <2>1, PeerInv
  <2>2. CASE server_on_connection
    BY <2>2, ConnectionInv
  <2>3. CASE client_on_recv \/ client_on_close
    BY <2>3, ClientInv
  <2>4. CASE server_on_close \/ async_cb \/ signal_cb \/ idle_cb \/ main
    BY <2>4, ShutdownInv
  <2>5. CASE UNCHANGED vars
    BY <2>5 DEF vars, Inv, TypeOK, Phases, Activity, Counts, HandlesRespected
  <2> QED BY <2>1, <2>2, <2>3, <2>4, <2>5 DEF Next
<1> QED BY <1>1, <1>2, PTL DEF Spec

\* The listening socket is closed only when the client socket is gone.
THEOREM ServerClientGoneFirst == Spec => []ClientGoneFirst
<1>1. Inv => ClientGoneFirst
  BY DEF Inv, TypeOK, Server, Client, Phases, Activity, ClientGoneFirst
<1> QED BY <1>1, ServerInvariance, PTL

\* For any number of connections and signals, at any time, the one misuse of a
\* handle is to accept a connection into a client socket that is in use, which
\* takes a second connection; until then none is left open when uv_run returns.
THEOREM ServerHandlesRespected == Spec => []HandlesRespected
<1>1. Inv => HandlesRespected
  BY DEF Inv
<1> QED BY <1>1, ServerInvariance, PTL

\* With one connection no handle is used wrongly: not after its close, not
\* twice, not while it is in use, and uv_loop_close finds all of them closed.
THEOREM ServerOneConnection ==
  ASSUME MaxConns <= 1
  PROVE  Spec => [](proc \notin {"misuse", "loop_busy", "reinit"})
<1>1. Inv => proc \notin {"misuse", "loop_busy", "reinit"}
  BY BoundsAssumption DEF Inv, TypeOK, Environment, HandlesRespected
<1> QED BY <1>1, ServerInvariance, PTL
=============================================================================
